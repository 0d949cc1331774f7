------------------------------ MODULE KernelTrace ------------------------------
(***************************************************************************)
(* The kernel's execution tracing, kernel-c/src/trace.c: spans that are    *)
(* open live in a table indexed by their id modulo its size, completed     *)
(* ones in a ring buffer.  g_trace.lock protects both; the span id is      *)
(* taken before the lock, and the emit callback is called after it has     *)
(* been released.                                                          *)
(*                                                                         *)
(* A span is its id.  Its contents (parent, dimension, task, operation,    *)
(* times, byte counts) are left out, as they are copied and not read.      *)
(***************************************************************************)
EXTENDS Integers, Sequences, FiniteSets

CONSTANTS
    Tracers,      (* the threads that trace                                  *)
    InflightMax,  (* IFY_TRACE_INFLIGHT_MAX                                  *)
    Capacity,     (* the capacity that ify_kernel_init() asks for            *)
    Callbacks,    (* the emit callbacks that may be registered               *)
    MaxSpans      (* bound on the number of spans                            *)

ASSUME KernelTraceAssumption ==
    /\ IsFiniteSet(Tracers)
    /\ InflightMax \in Nat \ {0}
    /\ Capacity \in Nat \ {0}
    /\ MaxSpans \in Nat

VARIABLES
    initialized,  (* g_trace.initialized                                     *)
    ring,         (* g_trace.ring                                            *)
    write_idx,    (* g_trace.write_idx                                       *)
    read_idx,     (* g_trace.read_idx                                        *)
    span_seq,     (* g_trace.span_seq                                        *)
    emit_fn,      (* g_trace.emit_fn                                         *)
    inflight,     (* g_trace.inflight: the id of an entry in use, or 0       *)
    local,        (* what each thread is in the middle of                    *)
    log,          (* history: the spans stored so far, in order              *)
    base,         (* history: the length of log at the last initialisation   *)
    consumed,     (* history: the spans that ify_trace_read() has returned   *)
    emitted       (* history: the calls of callbacks                         *)

trace_vars == <<initialized, ring, write_idx, read_idx, span_seq, emit_fn, inflight, local,
                log, base, consumed, emitted>>

Spans == 1..MaxSpans

NoCallback == "NULL"

Idle == [op |-> "idle", span |-> 0, fn |-> NoCallback]

TraceTypeOK ==
    /\ initialized \in BOOLEAN
    /\ ring \in [0..(Capacity - 1) -> 0..MaxSpans]
    /\ write_idx \in 0..MaxSpans
    /\ read_idx \in 0..write_idx
    /\ span_seq \in 0..MaxSpans
    /\ emit_fn \in Callbacks \cup {NoCallback}
    /\ inflight \in [0..(InflightMax - 1) -> 0..MaxSpans]
    /\ local \in [Tracers -> [op : {"idle", "begin", "emit"}, span : 0..MaxSpans,
                              fn : Callbacks \cup {NoCallback}]]
    /\ log \in Seq(Spans) /\ consumed \in Seq(Spans)
    /\ base \in 0..Len(log)
    /\ emitted \in [Spans -> Nat]

-----------------------------------------------------------------------------
TraceStart ==
    /\ initialized = FALSE
    /\ ring = [k \in 0..(Capacity - 1) |-> 0]
    /\ write_idx = 0
    /\ read_idx = 0
    /\ span_seq = 0
    /\ emit_fn = NoCallback
    /\ inflight = [k \in 0..(InflightMax - 1) |-> 0]
    /\ local = [th \in Tracers |-> Idle]
    /\ log = <<>>
    /\ base = 0
    /\ consumed = <<>>
    /\ emitted = [x \in Spans |-> 0]

(* ify_trace_init(), when it is not initialised and calloc() succeeds.         *)
TraceInit ==
    /\ ~initialized
    /\ initialized' = TRUE
    /\ ring' = [k \in 0..(Capacity - 1) |-> 0]
    /\ write_idx' = 0
    /\ read_idx' = 0
    /\ inflight' = [k \in 0..(InflightMax - 1) |-> 0]
    /\ base' = Len(log)
    /\ UNCHANGED <<span_seq, emit_fn, local, log, consumed, emitted>>

(* ify_trace_shutdown(): the indices and the open spans stay as they are.      *)
TraceShutdown ==
    /\ initialized' = FALSE
    /\ ring' = [k \in 0..(Capacity - 1) |-> 0]
    /\ emit_fn' = IF initialized THEN NoCallback ELSE emit_fn
    /\ UNCHANGED <<write_idx, read_idx, span_seq, inflight, local, log, base, consumed, emitted>>

SetEmit(fn) ==
    /\ emit_fn' = fn
    /\ UNCHANGED <<initialized, ring, write_idx, read_idx, span_seq, inflight, local, log,
                   base, consumed, emitted>>

(* ify_trace_begin(): the id is taken with an atomic increment, ...            *)
Begin(th) ==
    /\ local[th] = Idle
    /\ span_seq < MaxSpans
    /\ span_seq' = span_seq + 1
    /\ local' = [local EXCEPT ![th] =
                    [op |-> "begin", span |-> span_seq + 1, fn |-> NoCallback]]
    /\ UNCHANGED <<initialized, ring, write_idx, read_idx, emit_fn, inflight, log, base,
                   consumed, emitted>>

(* ... and the entry is written under the lock, over whatever is there.        *)
Open(th) ==
    /\ local[th].op = "begin"
    /\ inflight' = IF initialized
                   THEN [inflight EXCEPT ![local[th].span % InflightMax] = local[th].span]
                   ELSE inflight
    /\ local' = [local EXCEPT ![th] = Idle]
    /\ UNCHANGED <<initialized, ring, write_idx, read_idx, span_seq, emit_fn, log, base,
                   consumed, emitted>>

(* ify_trace_end() of a span that is open: store it, losing the oldest one if  *)
(* the ring is full, close the entry, and keep the callback for after the      *)
(* unlock.  Any other span is ignored.                                         *)
AdvanceLate(w, r) == IF w - r > Capacity + 1 THEN w - Capacity ELSE r

Advance(w, r) == IF w - r > Capacity THEN w - Capacity ELSE r

Close(span) == [inflight EXCEPT ![span % InflightMax] = 0]

IsOpen(span) == inflight[span % InflightMax] = span

End(th, span) ==
    /\ local[th] = Idle
    /\ initialized
    /\ IsOpen(span)
    /\ ring' = [ring EXCEPT ![write_idx % Capacity] = span]
    /\ write_idx' = write_idx + 1
    /\ read_idx' = Advance(write_idx + 1, read_idx)
    /\ inflight' = Close(span)
    /\ log' = Append(log, span)
    /\ local' = [local EXCEPT ![th] =
                    IF emit_fn # NoCallback THEN [op |-> "emit", span |-> span, fn |-> emit_fn]
                    ELSE Idle]
    /\ UNCHANGED <<initialized, span_seq, emit_fn, base, consumed, emitted>>

Emit(th) ==
    /\ local[th].op = "emit"
    /\ emitted' = [emitted EXCEPT ![local[th].span] = @ + 1]
    /\ local' = [local EXCEPT ![th] = Idle]
    /\ UNCHANGED <<initialized, ring, write_idx, read_idx, span_seq, emit_fn, inflight, log,
                   base, consumed>>

(* ify_trace_read(): up to max spans, oldest first.                            *)
ReadFrom == read_idx

Read(max) ==
    LET available == write_idx - read_idx
        count == IF available < max THEN available ELSE max IN
    /\ initialized
    /\ consumed' = consumed \o [i \in 1..count |-> ring[(ReadFrom + i - 1) % Capacity]]
    /\ read_idx' = read_idx + count
    /\ UNCHANGED <<initialized, ring, write_idx, span_seq, emit_fn, inflight, local, log,
                   base, emitted>>

Trace(th) ==
    \/ \E fn \in Callbacks \cup {NoCallback} : SetEmit(fn)
    \/ Begin(th)
    \/ Open(th)
    \/ \E span \in Spans : End(th, span)
    \/ Emit(th)
    \/ \E max \in 1..Capacity : Read(max)

-----------------------------------------------------------------------------
(* Ring-buffer correctness: what is between the two indices is exactly the    *)
(* newest spans stored since the initialisation, in the order in which they   *)
(* ended, never more than the capacity, so that no reader sees a slot that    *)
(* has been overwritten.                                                      *)
RingHoldsNewest ==
    initialized =>
       /\ write_idx = Len(log) - base
       /\ write_idx - read_idx <= Capacity
       /\ \A k \in read_idx..(write_idx - 1) : ring[k % Capacity] = log[base + k + 1]

(* A span is stored and emitted at most once, however often and by however    *)
(* many threads it is ended, and across re-initialisations.                   *)
StoredOnce ==
    /\ \A i, j \in 1..Len(log) : i # j => log[i] # log[j]
    /\ \A x \in Spans :
          emitted[x] + Cardinality({th \in Tracers : local[th].op = "emit" /\ local[th].span = x})
            <= Cardinality({i \in 1..Len(log) : log[i] = x})

(* "oldest first. Spans are consumed (not duplicated)" (trace.h:134-136): the *)
(* readers together get the spans in the order in which they were stored and  *)
(* none twice, though the writers may lap them.                               *)
ReadInOrder ==
    \A i, j \in 1..Len(consumed) : i < j =>
       \E k, l \in 1..Len(log) : k < l /\ log[k] = consumed[i] /\ log[l] = consumed[j]
================================================================================
