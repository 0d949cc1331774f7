-------------------------- MODULE ServiceRegistryProofs --------------------------
(***************************************************************************)
(* Proofs about ServiceRegistry, for any threads, names, size of the table *)
(* and number of registrations.                                            *)
(***************************************************************************)
EXTENDS ServiceRegistry, WellFoundedInduction, TLAPS

(* What the table and the calls are made of.                                  *)
SlotRecord == [id : Nat, inst : 0..MaxRegistrations, name : Names \cup {NoName},
               state : SvcState, max_restarts : Nat, restart_count : Nat]

CallRecord == [op : {"idle", "starting", "sleeping", "stopping", "shutdown", "shutdown stopping"},
               id : Nat, inst : 0..MaxRegistrations, max_restarts : Nat, attempt : Nat,
               slot : 0..ServiceMax]

(* The calls that move one service, and those that close the registry.        *)
Starters == {"starting", "sleeping"}

Movers == {"starting", "sleeping", "stopping"}

Closers == {"shutdown", "shutdown stopping"}

Taken(i) == slots[i].state # "Unregistered"

TableOK(sl) ==
    /\ sl \in [Slots -> SlotRecord]
    /\ \A i \in Slots : /\ sl[i].state = "Unregistered" => sl[i] = Cleared
                        /\ sl[i].id # 0 => sl[i].inst # 0

CallOK(c) ==
    /\ c \in CallRecord
    /\ c.op = "idle" => c = SvcIdle
    /\ c.op \in Starters => c.inst # 0
    /\ c.op \in Closers => c.slot \in Slots

(* The type invariant, with the calls typed in full.                          *)
TypeInv ==
    /\ TableOK(slots)
    /\ calls \in [SvcThreads -> CallRecord]
    /\ \A th \in SvcThreads : CallOK(calls[th])
    /\ next_id \in Nat /\ 1 <= next_id /\ next_id <= next_inst + 1
    /\ next_inst \in Nat /\ next_inst <= MaxRegistrations
    /\ svc_initialized \in BOOLEAN /\ lock_leaked \in BOOLEAN
    /\ up \subseteq Instances
    /\ bad_stop \in BOOLEAN /\ overlapped \in BOOLEAN

-----------------------------------------------------------------------------
(* What holds while no shutdown has overlapped another call.                  *)

(* Ids and instances in use have been given out, ...                          *)
IdsGiven ==
    /\ up \subseteq 1..next_inst
    /\ \A i \in Slots : Taken(i) =>
          slots[i].id \in 1..(next_id - 1) /\ slots[i].inst \in 1..next_inst
    /\ \A th \in SvcThreads : calls[th].op \in Movers =>
          calls[th].id \in 1..(next_id - 1) /\ calls[th].inst \in 1..next_inst

(* ... and no two slots share one.                                            *)
IdsApart ==
    \A i, j \in Slots : Taken(i) /\ Taken(j) /\ i # j =>
       slots[i].id # slots[j].id /\ slots[i].inst # slots[j].inst

(* The state of a slot says whether its instance is up, ...                   *)
UpTold ==
    \A i \in Slots :
       /\ slots[i].state \in {"Running", "Stopping"} => slots[i].inst \in up
       /\ slots[i].state \in {"Registered", "Starting", "Failed", "Stopped"} =>
             slots[i].inst \notin up

(* ... and a slot that is between two states has a call that is to take it    *)
(* out of there.                                                              *)
StartingCalled ==
    \A i \in Slots : slots[i].state = "Starting" =>
       \E th \in SvcThreads : calls[th].op \in Starters /\ calls[th].inst = slots[i].inst

StoppingCalled ==
    \A i \in Slots : slots[i].state = "Stopping" =>
       \/ \E th \in SvcThreads : calls[th].op = "stopping" /\ calls[th].inst = slots[i].inst
       \/ \E th \in SvcThreads : calls[th].op \in Closers /\ calls[th].slot = i

(* A service cannot be unregistered while it starts, ...                      *)
StartsSound ==
    \A th \in SvcThreads : calls[th].op \in Starters =>
       \E i \in Slots : /\ slots[i].id = calls[th].id /\ slots[i].inst = calls[th].inst
                        /\ slots[i].state = "Starting"

(* ... it can while it stops, but its id is not given to another.             *)
StopsSound ==
    \A th \in SvcThreads : calls[th].op = "stopping" =>
       /\ calls[th].inst \in up
       /\ \A i \in Slots :
             Taken(i) /\ (slots[i].id = calls[th].id \/ slots[i].inst = calls[th].inst) =>
                /\ slots[i].id = calls[th].id /\ slots[i].inst = calls[th].inst
                /\ slots[i].state = "Stopping"

CallsApart ==
    \A th, u \in SvcThreads :
       th # u /\ calls[th].op \in Movers /\ calls[u].op \in Movers => calls[th].inst # calls[u].inst

(* A shutdown is alone, its slot is being stopped and those above are done.   *)
ClosesAlone ==
    \A th \in SvcThreads : calls[th].op \in Closers =>
       /\ svc_initialized
       /\ \A u \in SvcThreads : u # th => calls[u].op = "idle"
       /\ slots[calls[th].slot].state = "Stopping"
       /\ calls[th].op = "shutdown stopping" => calls[th].inst = slots[calls[th].slot].inst
       /\ \A j \in Slots : j > calls[th].slot =>
             slots[j].state \notin {"Running", "Starting", "Stopping"}

DownIsEmpty ==
    ~svc_initialized =>
       /\ up = {}
       /\ \A th \in SvcThreads : calls[th].op = "idle"
       /\ \A i \in Slots : ~Taken(i)

(* What is up has a slot, or a call that is about to take it down.            *)
Tracked ==
    \A x \in up :
       \/ \E i \in Slots : slots[i].inst = x /\ slots[i].state \in {"Running", "Stopping"}
       \/ \E th \in SvcThreads : calls[th].op = "stopping" /\ calls[th].inst = x

Quiet ==
    /\ IdsGiven /\ IdsApart /\ UpTold /\ StartingCalled /\ StoppingCalled
    /\ StartsSound /\ StopsSound /\ CallsApart /\ ClosesAlone
    /\ DownIsEmpty /\ Tracked /\ ~bad_stop

(* The inductive invariant.                                                   *)
RegistryInv == TypeInv /\ (~overlapped => Quiet)

-----------------------------------------------------------------------------
(* The first of some slots, and the last, are among them.                     *)
LEMMA FirstIn ==
  ASSUME NEW S \in SUBSET Nat, S # {}
  PROVE  First(S) \in S
  <1> DEFINE R == {ss \in Nat \X Nat : ss[1] < ss[2]}
  <1>1. IsWellFoundedOn(R, Nat)
    BY NatLessThanWellFounded DEF OpToRel
  <1>2. PICK x \in S : \A y \in S : ~(<<y, x>> \in R)
    BY <1>1, WFMin
  <1>3. ASSUME NEW y \in S PROVE x <= y
    <2>1. x \in Nat /\ y \in Nat /\ <<y, x>> \in Nat \X Nat
      OBVIOUS
    <2>2. ~(y < x)
      BY <1>2, <2>1
    <2> QED BY <2>1, <2>2
  <1> QED BY <1>3 DEF First

LEMMA LastIn ==
  ASSUME NEW n \in Nat, NEW S \in SUBSET (0..n), S # {}
  PROVE  Last(S) \in S /\ \A j \in S : Last(S) >= j
  <1> DEFINE T == {m \in Nat : \E x \in S : m = n - x}
  <1>1. T \in SUBSET Nat /\ T # {}
    <2>1. PICK x \in S : TRUE
      OBVIOUS
    <2>2. n - x \in T
      BY <2>1
    <2> QED BY <2>2
  <1>2. First(T) \in T
    BY ONLY <1>1, FirstIn
  <1>3. \A m \in T : First(T) <= m
    <2> DEFINE R == {ss \in Nat \X Nat : ss[1] < ss[2]}
    <2>1. IsWellFoundedOn(R, Nat)
      BY NatLessThanWellFounded DEF OpToRel
    <2>2. PICK z \in T : \A y \in T : ~(<<y, z>> \in R)
      BY <1>1, <2>1, WFMin
    <2>3. ASSUME NEW y \in T PROVE z <= y
      <3>1. z \in Nat /\ y \in Nat /\ <<y, z>> \in Nat \X Nat
        OBVIOUS
      <3>2. ~(y < z)
        BY <2>2, <3>1
      <3> QED BY <3>1, <3>2
    <2> HIDE DEF T
    <2> QED BY <2>3 DEF First
  <1>4. PICK x \in S : First(T) = n - x
    BY <1>2
  <1>5. ASSUME NEW j \in S PROVE x >= j
    <2>1. n - j \in T
      OBVIOUS
    <2> QED BY <2>1, <1>3, <1>4
  <1> QED BY <1>5 DEF Last

LEMMA MatchFound ==
  ASSUME NEW id, Matches(id) # {}
  PROVE  /\ First(Matches(id)) \in Slots
         /\ slots[First(Matches(id))].id = id
         /\ slots[First(Matches(id))].state # "Unregistered"
  <1>1. Matches(id) \in SUBSET Nat
    BY RegistryAssumption DEF Matches, Slots
  <1>2. First(Matches(id)) \in Matches(id)
    BY <1>1, FirstIn
  <1> QED BY <1>2 DEF Matches

LEMMA FreeFound ==
  ASSUME Free # {}
  PROVE  First(Free) \in Slots /\ slots[First(Free)].state = "Unregistered"
  <1>1. Free \in SUBSET Nat
    BY RegistryAssumption DEF Free, Slots
  <1>2. First(Free) \in Free
    BY <1>1, FirstIn
  <1> QED BY <1>2 DEF Free

-----------------------------------------------------------------------------
(* The type invariant.                                                        *)
LEMMA BlankOK == Cleared \in SlotRecord /\ TableOK([i \in Slots |-> Cleared]) /\ CallOK(SvcIdle)
  <1>1. Cleared \in SlotRecord
    BY RegistryAssumption DEF Cleared, SlotRecord, SvcState
  <1>2. CallOK(SvcIdle)
    BY RegistryAssumption DEF CallOK, CallRecord, SvcIdle, Call, Closers, Starters
  <1>3. Cleared.id = 0
    BY DEF Cleared
  <1> QED BY <1>1, <1>2, <1>3 DEF TableOK

LEMMA TableAt ==
  ASSUME NEW sl, TableOK(sl), NEW i \in Slots
  PROVE  sl[i] \in SlotRecord /\ (sl[i].id # 0 => sl[i].inst # 0)
  <1>1. sl[i] \in SlotRecord
    BY DEF TableOK
  <1>2. sl[i].id # 0 => sl[i].inst # 0
    BY Zenon DEF TableOK
  <1> QED BY <1>1, <1>2

LEMMA TablePut ==
  ASSUME NEW sl, TableOK(sl), NEW i \in Slots, NEW r \in SlotRecord,
         r.state # "Unregistered" \/ r = Cleared, r.id # 0 => r.inst # 0
  PROVE  TableOK([sl EXCEPT ![i] = r])
  BY DEF TableOK

LEMMA StateSet ==
  ASSUME NEW r \in SlotRecord, NEW s \in SvcState
  PROVE  /\ [r EXCEPT !.state = s] \in SlotRecord /\ [r EXCEPT !.state = s].state = s
         /\ [r EXCEPT !.state = s].id = r.id /\ [r EXCEPT !.state = s].inst = r.inst
  BY DEF SlotRecord

LEMMA CallPut ==
  ASSUME TypeInv, NEW th \in SvcThreads, NEW c, CallOK(c), calls' = [calls EXCEPT ![th] = c]
  PROVE  calls' \in [SvcThreads -> CallRecord] /\ \A u \in SvcThreads : CallOK(calls'[u])
  <1>1. calls \in [SvcThreads -> CallRecord] /\ c \in CallRecord
    BY DEF TypeInv, CallOK
  <1>2. ASSUME NEW u \in SvcThreads PROVE CallOK(calls'[u])
    <2>1. calls'[u] = IF u = th THEN c ELSE calls[u]
      BY <1>1
    <2> QED BY <2>1 DEF TypeInv
  <1> QED BY <1>1, <1>2

LEMMA CallMade ==
  ASSUME NEW op \in Movers, NEW id \in Nat, NEW inst \in 1..MaxRegistrations, NEW m \in Nat
  PROVE  CallOK(Call(op, id, inst, m, 0))
  <1>1. Call(op, id, inst, m, 0) \in CallRecord
    <2>1. op \in {"idle", "starting", "sleeping", "stopping", "shutdown", "shutdown stopping"}
      BY DEF Movers
    <2>2. inst \in 0..MaxRegistrations /\ 0 \in Nat /\ 0 \in 0..ServiceMax
      BY RegistryAssumption
    <2> QED BY <2>1, <2>2 DEF CallRecord, Call
  <1>2. Call(op, id, inst, m, 0).op = op /\ Call(op, id, inst, m, 0).inst = inst
    BY DEF Call
  <1>3. inst # 0
    BY RegistryAssumption
  <1>4. op # "idle" /\ op \notin Closers
    BY DEF Movers, Closers
  <1> QED BY <1>1, <1>2, <1>3, <1>4 DEF CallOK

LEMMA ScanTypes ==
  ASSUME TypeInv, NEW th \in SvcThreads, NEW sl, TableOK(sl), NEW top \in 1..(ServiceMax + 1),
         Scan(th, sl, top)
  PROVE  /\ TableOK(slots') /\ svc_initialized' \in BOOLEAN
         /\ calls' \in [SvcThreads -> CallRecord] /\ \A u \in SvcThreads : CallOK(calls'[u])
  <1> DEFINE busy == {i \in 1..(top - 1) : sl[i].state \in ToStop}
  <1>1. CASE busy # {}
    <2>1. busy \in SUBSET (0..ServiceMax) /\ busy \subseteq Slots
      BY RegistryAssumption DEF Slots
    <2>2. Last(busy) \in busy
      BY <1>1, <2>1, LastIn, RegistryAssumption
    <2> DEFINE i == Last(busy)
               c == Call("shutdown", 0, 0, 0, i)
    <2>3. i \in Slots
      BY <2>1, <2>2
    <2>4. slots' = [sl EXCEPT ![i].state = "Stopping"] /\ calls' = [calls EXCEPT ![th] = c]
          /\ svc_initialized' = svc_initialized
      BY <1>1 DEF Scan
    <2>5. CallOK(c)
      BY <2>3, RegistryAssumption DEF CallOK, CallRecord, Call, Closers, Starters, Slots
    <2> HIDE DEF c, i
    <2>6. TableOK(slots')
      <3>1. sl[i] \in SlotRecord /\ (sl[i].id # 0 => sl[i].inst # 0)
        BY <2>3, TableAt
      <3>2. "Stopping" \in SvcState
        BY DEF SvcState
      <3> QED BY <2>3, <2>4, <3>1, <3>2, StateSet, TablePut
    <2> QED BY <2>4, <2>5, <2>6, CallPut DEF TypeInv
  <1>2. CASE busy = {}
    <2>1. slots' = [i \in Slots |-> Cleared] /\ calls' = [calls EXCEPT ![th] = SvcIdle]
          /\ svc_initialized' = FALSE
      BY <1>2 DEF Scan
    <2> QED BY <2>1, BlankOK, CallPut
  <1> QED BY <1>1, <1>2

LEMMA TypeStep ==
  ASSUME TypeInv, SvcNext
  PROVE  TypeInv'
  <1>0. PICK th \in SvcThreads :
           \/ RegistryInit(th)
           \/ \E name \in Names, r \in Restarts : Register(th, name, r)
           \/ \E id \in 1..MaxRegistrations : Unregister(th, id) \/ Start(th, id) \/ Stop(th, id)
           \/ StartSucceeds(th) \/ StartFails(th) \/ StartWakes(th) \/ StopReturns(th)
           \/ Shutdown(th) \/ ShutdownCalls(th) \/ ShutdownReturns(th)
    BY DEF SvcNext
  <1> DEFINE Rest == /\ next_id' \in Nat /\ 1 <= next_id' /\ next_id' <= next_inst' + 1
                     /\ next_inst' \in Nat /\ next_inst' <= MaxRegistrations
                     /\ svc_initialized' \in BOOLEAN /\ lock_leaked' \in BOOLEAN
                     /\ up' \subseteq Instances
                     /\ bad_stop' \in BOOLEAN /\ overlapped' \in BOOLEAN
             CallsNext == /\ calls' \in [SvcThreads -> CallRecord]
                          /\ \A u \in SvcThreads : CallOK(calls'[u])
  <1>f. ASSUME TableOK(slots'), CallsNext, Rest PROVE TypeInv'
    BY <1>f DEF TypeInv
  <1>s. \A s \in {"Registered", "Starting", "Running", "Stopping", "Failed", "Stopped"} :
           s \in SvcState /\ s # "Unregistered"
    BY DEF SvcState
  <1>t. TableOK(slots) /\ \A i \in Slots : slots[i] \in SlotRecord /\ (slots[i].id # 0 => slots[i].inst # 0)
    BY TableAt DEF TypeInv
  <1>c. \A u \in SvcThreads : calls[u] \in CallRecord
    BY DEF TypeInv
  <1>i. CallsNext \/ calls' # [calls EXCEPT ![th] = SvcIdle]
    BY BlankOK, CallPut
  <1>k. CallsNext \/ calls' # calls
    BY DEF TypeInv
  <1>u. ASSUME NEW i \in Slots, NEW s \in {"Registered", "Starting", "Running", "Stopping", "Failed", "Stopped"},
               slots' = [slots EXCEPT ![i].state = s]
        PROVE  TableOK(slots')
    <2> DEFINE new == [slots[i] EXCEPT !.state = s]
    <2>1. s \in SvcState /\ s # "Unregistered" /\ slots[i] \in SlotRecord
      BY <1>s, <1>t
    <2>2. new \in SlotRecord /\ new.state = s /\ new.id = slots[i].id /\ new.inst = slots[i].inst
      BY <2>1, StateSet
    <2>3. slots' = [slots EXCEPT ![i] = new]
      BY <1>u
    <2> HIDE DEF new
    <2> QED BY <1>t, <2>1, <2>2, <2>3, TablePut
  <1>1. CASE RegistryInit(th)
    <2>1. TableOK(slots') /\ CallsNext
      BY <1>1, <1>k, BlankOK DEF RegistryInit
    <2>2. Rest
      BY <1>1 DEF RegistryInit, TypeInv
    <2> QED BY <1>f, <2>1, <2>2
  <1>2. ASSUME NEW name \in Names, NEW r \in Restarts, Register(th, name, r) PROVE TypeInv'
    <2> DEFINE new == [id |-> next_id, inst |-> next_inst + 1, name |-> name,
                       state |-> "Registered", max_restarts |-> r, restart_count |-> 0]
    <2>1. First(Free) \in Slots
      BY <1>2, FreeFound DEF Register
    <2>2. new \in SlotRecord /\ new.state # "Unregistered" /\ new.inst # 0
      <3>1. next_id \in Nat /\ next_inst + 1 \in 0..MaxRegistrations /\ r \in Nat
        BY <1>2, RegistryAssumption DEF TypeInv, Register
      <3>2. "Registered" \in SvcState /\ next_inst + 1 # 0
        BY DEF SvcState, TypeInv
      <3>3. new \in SlotRecord
        BY <3>1, <3>2 DEF SlotRecord
      <3> QED BY <3>2, <3>3
    <2>3. slots' = [slots EXCEPT ![First(Free)] = new]
      BY <1>2 DEF Register
    <2> HIDE DEF new
    <2>4. TableOK(slots')
      BY <2>1, <2>2, <2>3, <1>t, TablePut
    <2>5. CallsNext
      BY <1>2, <1>k DEF Register
    <2>6. Rest
      BY <1>2, RegistryAssumption DEF Register, Client, TypeInv
    <2> QED BY <1>f, <2>4, <2>5, <2>6
  <1>3. ASSUME NEW id \in 1..MaxRegistrations, Unregister(th, id) PROVE TypeInv'
    <2>1. TableOK(slots')
      <3>1. Cleared.id = 0
        BY DEF Cleared
      <3> QED BY <1>3, <1>t, <3>1, MatchFound, BlankOK, TablePut DEF Unregister
    <2>2. CallsNext
      BY <1>3, <1>k DEF Unregister
    <2>3. Rest
      BY <1>3 DEF Unregister, Client, TypeInv
    <2> QED BY <1>f, <2>1, <2>2, <2>3
  <1>4. ASSUME NEW id \in 1..MaxRegistrations, Start(th, id) PROVE TypeInv'
    <2> DEFINE i == First(Matches(id))
               new == [[slots[i] EXCEPT !.state = "Starting"] EXCEPT !.restart_count = 0]
               c == Call("starting", id, slots[i].inst, slots[i].max_restarts, 0)
    <2>1. i \in Slots /\ slots[i] \in SlotRecord
      BY <1>4, <1>t, MatchFound DEF Start
    <2>n. slots[i].id = id /\ slots[i].inst # 0
      BY <1>4, <1>t, MatchFound DEF Start
    <2>2. slots' = [slots EXCEPT ![i] = new] /\ calls' = [calls EXCEPT ![th] = c]
      <3>1. slots' = [slots EXCEPT ![i].state = "Starting", ![i].restart_count = 0]
        BY <1>4 DEF Start
      <3>2. slots \in [Slots -> SlotRecord]
        BY <1>t DEF TableOK
      <3>3. slots' = [slots EXCEPT ![i] = new]
        BY <3>1, <3>2, <2>1
      <3> QED BY <1>4, <3>3 DEF Start
    <2>3. /\ new \in SlotRecord /\ new.state = "Starting"
          /\ new.id = slots[i].id /\ new.inst = slots[i].inst
      BY <2>1, <1>s DEF SlotRecord
    <2>4. CallOK(c)
      <3>0. slots[i].inst \in 0..MaxRegistrations /\ slots[i].max_restarts \in Nat
        BY <2>1 DEF SlotRecord
      <3>1. slots[i].inst \in 1..MaxRegistrations
        BY <3>0, <2>n, RegistryAssumption
      <3>2. id \in Nat /\ "starting" \in Movers
        BY DEF Movers
      <3> QED BY <3>0, <3>1, <3>2, CallMade
    <2> HIDE DEF new, c, i
    <2>5. TableOK(slots')
      BY <2>1, <2>n, <2>2, <2>3, <1>t, TablePut
    <2>6. CallsNext
      BY <2>2, <2>4, CallPut
    <2>7. Rest
      BY <1>4 DEF Start, Client, TypeInv
    <2> QED BY <1>f, <2>5, <2>6, <2>7
  <1>5. ASSUME NEW id \in 1..MaxRegistrations, Stop(th, id) PROVE TypeInv'
    <2> DEFINE i == First(Matches(id))
               c == Call("stopping", id, slots[i].inst, 0, 0)
    <2>1. i \in Slots /\ slots[i] \in SlotRecord
      BY <1>5, <1>t, MatchFound DEF Stop
    <2>n. slots[i].id = id /\ slots[i].inst # 0
      BY <1>5, <1>t, MatchFound DEF Stop
    <2>2. slots' = [slots EXCEPT ![i].state = "Stopping"] /\ calls' = [calls EXCEPT ![th] = c]
      BY <1>5 DEF Stop, SetState
    <2>4. CallOK(c)
      <3>0. slots[i].inst \in 0..MaxRegistrations
        BY <2>1 DEF SlotRecord
      <3>1. slots[i].inst \in 1..MaxRegistrations
        BY <3>0, <2>n, RegistryAssumption
      <3>2. id \in Nat /\ "stopping" \in Movers
        BY DEF Movers
      <3> QED BY <3>1, <3>2, CallMade
    <2> HIDE DEF c, i
    <2>5. TableOK(slots')
      BY <2>1, <2>2, <1>u
    <2>6. CallsNext
      BY <2>2, <2>4, CallPut
    <2>7. Rest
      BY <1>5 DEF Stop, Client, TypeInv
    <2> QED BY <1>f, <2>5, <2>6, <2>7
  <1>6. CASE StartSucceeds(th)
    <2>1. TableOK(slots')
      BY <1>6, <1>t, <1>u, MatchFound DEF StartSucceeds, ReturnHoldingLock, SetState
    <2>2. CallsNext
      BY <1>6, <1>i DEF StartSucceeds, ReturnHoldingLock
    <2>3. Rest
      <3>1. calls[th].inst \in Instances
        <4>1. calls[th].inst # 0 /\ calls[th].inst \in 0..MaxRegistrations
          BY <1>6 DEF StartSucceeds, CanLock, TypeInv, CallOK, CallRecord, Starters
        <4> QED BY <4>1, RegistryAssumption DEF Instances
      <3>2. up' \subseteq Instances
        BY <1>6, <3>1 DEF StartSucceeds, TypeInv
      <3>3. \/ lock_leaked' = TRUE /\ UNCHANGED <<next_id, svc_initialized, next_inst, bad_stop, overlapped>>
            \/ UNCHANGED <<next_id, svc_initialized, lock_leaked, next_inst, bad_stop, overlapped>>
        BY <1>6 DEF StartSucceeds, ReturnHoldingLock
      <3> QED BY <3>2, <3>3 DEF TypeInv
    <2> QED BY <1>f, <2>1, <2>2, <2>3
  <1>7. CASE StartFails(th)
    <2> DEFINE c == calls[th]
               i == First(Matches(c.id))
    <2>1. CASE Matches(c.id) = {}
      <3>1. ReturnHoldingLock(th) /\ UNCHANGED up
        BY <1>7, <2>1 DEF StartFails
      <3>2. TableOK(slots') /\ CallsNext
        BY <3>1, <1>t, <1>i DEF ReturnHoldingLock
      <3>3. Rest
        BY <3>1 DEF ReturnHoldingLock, TypeInv
      <3> QED BY <1>f, <3>2, <3>3
    <2>2. CASE Matches(c.id) # {}
      <3>1. i \in Slots /\ slots[i].state # "Unregistered"
        BY <2>2, MatchFound
      <3>2. slots[i] \in SlotRecord /\ (slots[i].id # 0 => slots[i].inst # 0)
        BY <3>1, <1>t
      <3>3. UNCHANGED <<next_id, svc_initialized, lock_leaked, next_inst, bad_stop, overlapped, up>>
        BY <1>7, <2>2 DEF StartFails
      <3>4. Rest
        BY <3>3 DEF TypeInv
      <3>5. CASE RestartsLeft(c)
        <4> DEFINE new == [slots[i] EXCEPT !.restart_count = @ + 1]
                   d == [c EXCEPT !.op = "sleeping"]
        <4>1. slots' = [slots EXCEPT ![i].restart_count = @ + 1]
              /\ calls' = [calls EXCEPT ![th].op = "sleeping"]
          BY <1>7, <2>2, <3>5 DEF StartFails
        <4>2. slots' = [slots EXCEPT ![i] = new] /\ calls' = [calls EXCEPT ![th] = d]
          BY <4>1
        <4>3. /\ new \in SlotRecord /\ new.state = slots[i].state
              /\ new.id = slots[i].id /\ new.inst = slots[i].inst
          BY <3>2 DEF SlotRecord
        <4>4. CallOK(d)
          <5>1. c \in CallRecord /\ c.op = "starting" /\ CallOK(c)
            BY <1>7, <1>c DEF StartFails, CanLock, TypeInv
          <5> QED BY <5>1 DEF CallOK, CallRecord, Closers, Starters
        <4> HIDE DEF new, d, i
        <4>5. TableOK(slots')
          BY <3>1, <3>2, <4>2, <4>3, <1>t, TablePut
        <4>6. CallsNext
          BY <4>2, <4>4, CallPut
        <4> QED BY <1>f, <3>4, <4>5, <4>6
      <3>6. CASE ~RestartsLeft(c)
        <4> DEFINE new == [[slots[i] EXCEPT !.restart_count = @ + 1] EXCEPT !.state = "Failed"]
        <4>1. slots' = [slots EXCEPT ![i].restart_count = @ + 1, ![i].state = "Failed"]
              /\ calls' = [calls EXCEPT ![th] = SvcIdle]
          BY <1>7, <2>2, <3>6 DEF StartFails
        <4>2. slots' = [slots EXCEPT ![i] = new]
          <5>1. slots \in [Slots -> SlotRecord]
            BY <1>t DEF TableOK
          <5> QED BY <4>1, <5>1, <3>1
        <4>3. /\ new \in SlotRecord /\ new.state = "Failed"
              /\ new.id = slots[i].id /\ new.inst = slots[i].inst
          <5> DEFINE one == [slots[i] EXCEPT !.restart_count = @ + 1]
          <5>1. one \in SlotRecord /\ one.id = slots[i].id /\ one.inst = slots[i].inst
            BY <3>2 DEF SlotRecord
          <5> HIDE DEF one
          <5>2. "Failed" \in SvcState
            BY <1>s
          <5>3. LET n == [one EXCEPT !.state = "Failed"] IN
                   n \in SlotRecord /\ n.state = "Failed" /\ n.id = one.id /\ n.inst = one.inst
            BY <5>1, <5>2, StateSet
          <5> QED BY <5>1, <5>3 DEF one
        <4> HIDE DEF new, i
        <4>5. TableOK(slots')
          BY <3>1, <3>2, <4>2, <4>3, <1>t, TablePut
        <4>6. CallsNext
          BY <4>1, <1>i
        <4> QED BY <1>f, <3>4, <4>5, <4>6
      <3> QED BY <3>5, <3>6
    <2> QED BY <2>1, <2>2
  <1>8. CASE StartWakes(th)
    <2>1. CASE Matches(calls[th].id) = {}
      <3>1. ReturnHoldingLock(th) /\ UNCHANGED up
        BY <1>8, <2>1 DEF StartWakes
      <3>2. TableOK(slots') /\ CallsNext
        BY <3>1, <1>t, <1>i DEF ReturnHoldingLock
      <3>3. Rest
        BY <3>1 DEF ReturnHoldingLock, TypeInv
      <3> QED BY <1>f, <3>2, <3>3
    <2>2. CASE Matches(calls[th].id) # {}
      <3> DEFINE d == [[calls[th] EXCEPT !.op = "starting"] EXCEPT !.attempt = @ + 1]
      <3>1. /\ calls' = [calls EXCEPT ![th].op = "starting", ![th].attempt = @ + 1]
            /\ UNCHANGED <<slots, next_id, svc_initialized, lock_leaked, next_inst, bad_stop, overlapped, up>>
        BY <1>8, <2>2 DEF StartWakes
      <3>2. calls' = [calls EXCEPT ![th] = d]
        <4>1. calls \in [SvcThreads -> CallRecord]
          BY DEF TypeInv
        <4> QED BY <3>1, <4>1
      <3>3. CallOK(d)
        <4>1. calls[th] \in CallRecord /\ calls[th].op = "sleeping" /\ CallOK(calls[th])
          BY <1>8, <1>c DEF StartWakes, CanLock, TypeInv
        <4>2. d \in CallRecord /\ d.op = "starting" /\ d.inst = calls[th].inst
          <5> DEFINE one == [calls[th] EXCEPT !.op = "starting"]
          <5>1. one \in CallRecord /\ one.op = "starting" /\ one.inst = calls[th].inst
            BY <4>1 DEF CallRecord
          <5> HIDE DEF one
          <5>2. LET e == [one EXCEPT !.attempt = @ + 1] IN
                   e \in CallRecord /\ e.op = one.op /\ e.inst = one.inst
            <6>0. one.attempt \in Nat
              BY ONLY <5>1 DEF CallRecord
            <6>1. one.attempt + 1 \in Nat
              BY ONLY <6>0
            <6> DEFINE n == one.attempt + 1
            <6> HIDE DEF n
            <6>2. LET e == [one EXCEPT !.attempt = n] IN
                     e \in CallRecord /\ e.op = one.op /\ e.inst = one.inst
              <7>1. n \in Nat
                BY ONLY <6>1 DEF n
              <7> QED BY ONLY <5>1, <7>1 DEF CallRecord
            <6> QED BY ONLY <6>2 DEF n
          <5>3. d = [one EXCEPT !.attempt = @ + 1]
            <6>1. one.attempt = calls[th].attempt
              BY <4>1 DEF CallRecord, one
            <6> QED BY <6>1 DEF one
          <5> QED BY <5>1, <5>2, <5>3
        <4>3. calls[th].inst # 0
          BY <4>1 DEF CallOK, Starters
        <4> HIDE DEF d
        <4> QED BY <4>2, <4>3 DEF CallOK, Closers
      <3> HIDE DEF d
      <3>4. CallsNext
        BY <3>2, <3>3, CallPut
      <3>5. TableOK(slots') /\ Rest
        BY <3>1, <1>t DEF TypeInv
      <3> QED BY <1>f, <3>4, <3>5
    <2> QED BY <2>1, <2>2
  <1>9. CASE StopReturns(th)
    <2>1. TableOK(slots')
      <3>1. CASE Matches(calls[th].id) # {}
        <4>1. slots' = [slots EXCEPT ![First(Matches(calls[th].id))].state = "Stopped"]
          BY <1>9, <3>1 DEF StopReturns, SetState
        <4> QED BY <4>1, <3>1, <1>u, MatchFound
      <3>2. CASE Matches(calls[th].id) = {}
        BY <1>9, <3>2, <1>t DEF StopReturns
      <3> QED BY <3>1, <3>2
    <2>2. CallsNext
      BY <1>9, <1>i DEF StopReturns
    <2>3. Rest
      <3>1. up' \subseteq Instances /\ bad_stop' \in BOOLEAN
        BY <1>9 DEF StopReturns, TypeInv
      <3> QED BY <1>9, <3>1 DEF StopReturns, TypeInv
    <2> QED BY <1>f, <2>1, <2>2, <2>3
  <1>10. CASE Shutdown(th)
    <2>1. Scan(th, slots, ServiceMax + 1) /\ ServiceMax + 1 \in 1..(ServiceMax + 1)
      BY <1>10, RegistryAssumption DEF Shutdown
    <2>2. TableOK(slots') /\ CallsNext /\ svc_initialized' \in BOOLEAN
      BY <2>1, <1>t, ScanTypes
    <2>3. overlapped' \in BOOLEAN
      BY <1>10 DEF Shutdown
    <2>4. Rest
      BY <1>10, <2>2, <2>3 DEF Shutdown, TypeInv
    <2> QED BY <1>f, <2>2, <2>4
  <1>11. CASE ShutdownCalls(th)
    <2> DEFINE inst == slots[calls[th].slot].inst
               d == [[calls[th] EXCEPT !.op = "shutdown stopping"] EXCEPT !.inst = inst]
    <2>1. calls[th] \in CallRecord /\ calls[th].op = "shutdown" /\ calls[th].slot \in Slots
      BY <1>11, <1>c DEF ShutdownCalls, TypeInv, CallOK, Closers
    <2>2. calls' = [calls EXCEPT ![th] = d]
      <3>1. calls \in [SvcThreads -> CallRecord]
        BY DEF TypeInv
      <3>2. calls' = [calls EXCEPT ![th].op = "shutdown stopping", ![th].inst = inst]
        BY <1>11 DEF ShutdownCalls
      <3> QED BY <3>1, <3>2
    <2>3. CallOK(d)
      <3>1. inst \in 0..MaxRegistrations
        BY <2>1, <1>t DEF SlotRecord
      <3> HIDE DEF inst
      <3> QED BY <2>1, <3>1 DEF CallOK, CallRecord, Closers, Starters
    <2> HIDE DEF d
    <2>4. CallsNext
      BY <2>2, <2>3, CallPut
    <2>5. bad_stop' \in BOOLEAN /\ UNCHANGED <<slots, next_id, svc_initialized, lock_leaked, next_inst, up, overlapped>>
      BY <1>11 DEF ShutdownCalls
    <2>6. TableOK(slots') /\ Rest
      BY <2>5, <1>t DEF TypeInv
    <2> QED BY <1>f, <2>4, <2>6
  <1>12. CASE ShutdownReturns(th)
    <2> DEFINE k == calls[th].slot
               sl == [slots EXCEPT ![k].state = "Stopped"]
    <2>1. k \in Slots
      BY <1>12 DEF ShutdownReturns, CanLock, TypeInv, CallOK, Closers
    <2>2. TableOK(sl)
      <3> DEFINE new == [slots[k] EXCEPT !.state = "Stopped"]
      <3>1. "Stopped" \in SvcState /\ slots[k] \in SlotRecord
        BY <1>s, <1>t, <2>1
      <3>2. new \in SlotRecord /\ new.state = "Stopped" /\ new.id = slots[k].id /\ new.inst = slots[k].inst
        BY <3>1, StateSet
      <3>3. sl = [slots EXCEPT ![k] = new]
        OBVIOUS
      <3> HIDE DEF new, sl
      <3> QED BY <1>t, <2>1, <3>2, <3>3, TablePut
    <2>3. Scan(th, sl, k) /\ UNCHANGED <<next_id, lock_leaked, next_inst, bad_stop, overlapped>>
          /\ up' = up \ {calls[th].inst}
      BY <1>12 DEF ShutdownReturns
    <2>4. k \in 1..(ServiceMax + 1)
      BY <2>1, RegistryAssumption DEF Slots
    <2> HIDE DEF sl, k
    <2>5. TableOK(slots') /\ CallsNext /\ svc_initialized' \in BOOLEAN
      BY <2>2, <2>3, <2>4, ScanTypes
    <2>6. Rest
      BY <2>3, <2>5 DEF TypeInv
    <2> QED BY <1>f, <2>5, <2>6
  <1> QED BY <1>0, <1>1, <1>2, <1>3, <1>4, <1>5, <1>6, <1>7, <1>8, <1>9, <1>10, <1>11, <1>12

-----------------------------------------------------------------------------
(* The steps, as long as no shutdown has overlapped another call.  The slot   *)
(* that a call finds again after an unlocked stretch is the one it left.      *)
LEMMA FoundAgain ==
  ASSUME Quiet, NEW th \in SvcThreads, calls[th].op \in Starters
  PROVE  LET i == First(Matches(calls[th].id)) IN
            /\ Matches(calls[th].id) # {} /\ i \in Slots
            /\ slots[i].id = calls[th].id /\ slots[i].inst = calls[th].inst
            /\ slots[i].state = "Starting"
  <1> DEFINE i == First(Matches(calls[th].id))
  <1>1. PICK k \in Slots : /\ slots[k].id = calls[th].id /\ slots[k].inst = calls[th].inst
                           /\ slots[k].state = "Starting"
    BY DEF Quiet, StartsSound
  <1>2. k \in Matches(calls[th].id)
    BY <1>1 DEF Matches
  <1>3. i \in Slots /\ slots[i].id = calls[th].id /\ slots[i].state # "Unregistered"
    BY <1>2, MatchFound
  <1>4. i = k
    <2> HIDE DEF i
    <2> QED BY ONLY <1>1, <1>3, Quiet, i \in Slots DEF Quiet, IdsApart, Taken
  <1> QED BY <1>1, <1>2, <1>4

(* A client's call that overlaps nothing finds no shutdown under way.         *)
LEMMA ClientAlone ==
  ASSUME NEW th \in SvcThreads, Client(th), ~overlapped'
  PROVE  /\ ~overlapped /\ svc_initialized /\ calls[th].op = "idle"
         /\ \A u \in SvcThreads : calls[u].op \notin Closers
  BY DEF Client, ShuttingDown, CanLock, Closers

LEMMA StartQuiet ==
  ASSUME TypeInv, Quiet, NEW th \in SvcThreads, NEW id \in 1..MaxRegistrations, Start(th, id),
         ~overlapped'
  PROVE  Quiet'
  <1> DEFINE i == First(Matches(id))
  <1>q. /\ IdsGiven /\ IdsApart /\ UpTold /\ StartingCalled /\ StoppingCalled
        /\ StartsSound /\ StopsSound
        /\ CallsApart /\ ClosesAlone /\ DownIsEmpty /\ Tracked
    BY DEF Quiet
  <1>t. slots \in [Slots -> SlotRecord] /\ calls \in [SvcThreads -> CallRecord]
    BY DEF TypeInv, TableOK
  <1>a. /\ svc_initialized /\ calls[th].op = "idle"
        /\ \A u \in SvcThreads : calls[u].op \notin Closers
    BY ClientAlone DEF Start
  <1>i. /\ i \in Slots /\ slots[i].id = id
        /\ slots[i].state \in {"Registered", "Stopped", "Failed"}
    BY MatchFound DEF Start, Startable
  <1>f. /\ slots' = [slots EXCEPT ![i].state = "Starting", ![i].restart_count = 0]
        /\ calls' = [calls EXCEPT
              ![th] = Call("starting", id, slots[i].inst, slots[i].max_restarts, 0)]
        /\ UNCHANGED <<next_id, svc_initialized, next_inst, up, bad_stop>>
    BY DEF Start
  <1>s. \A j \in Slots :
           /\ slots'[j].id = slots[j].id /\ slots'[j].inst = slots[j].inst
           /\ slots'[j].state = IF j = i THEN "Starting" ELSE slots[j].state
    BY <1>t, <1>f, <1>i DEF SlotRecord
  <1>c. /\ \A u \in SvcThreads : u # th => calls'[u] = calls[u]
        /\ calls'[th].op = "starting" /\ calls'[th].id = id /\ calls'[th].inst = slots[i].inst
    BY <1>t, <1>f DEF Call
  <1>u. UNCHANGED <<next_id, svc_initialized, next_inst, up>>
    BY <1>f
  <1> HIDE DEF i
  <1>y. \A j \in Slots : Taken(j) /\ j # i =>
           slots[j].id # slots[i].id /\ slots[j].inst # slots[i].inst
    BY ONLY <1>q, <1>i DEF IdsApart, Taken
  <1>x. \A u \in SvcThreads : calls[u].op \in Movers => calls[u].inst # slots[i].inst
    <2> SUFFICES ASSUME NEW u \in SvcThreads, calls[u].op \in Movers, calls[u].inst = slots[i].inst
                 PROVE  FALSE
      OBVIOUS
    <2>1. CASE calls[u].op \in Starters
      BY ONLY <2>1, <1>q, <1>i, <1>y, u \in SvcThreads, calls[u].inst = slots[i].inst
         DEF StartsSound, Taken
    <2>2. CASE calls[u].op = "stopping"
      BY ONLY <2>2, <1>q, <1>i, u \in SvcThreads, calls[u].inst = slots[i].inst DEF StopsSound, Taken
    <2> QED BY <2>1, <2>2 DEF Movers, Starters
  <1>1. IdsGiven'
    BY ONLY <1>x, <1>y, <1>q, <1>a, <1>i, <1>s, <1>c, <1>u, th \in SvcThreads DEF IdsGiven, Movers, Starters, Taken
  <1>2. IdsApart'
    BY ONLY <1>x, <1>y, <1>q, <1>a, <1>i, <1>s, <1>c, <1>u, th \in SvcThreads DEF IdsApart, Taken
  <1>3. UpTold'
    BY ONLY <1>x, <1>y, <1>q, <1>a, <1>i, <1>s, <1>c, <1>u, th \in SvcThreads DEF UpTold, Taken
  <1>4. StartingCalled'
    BY ONLY <1>x, <1>y, <1>q, <1>a, <1>i, <1>s, <1>c, <1>u, th \in SvcThreads DEF StartingCalled, Starters, Taken
  <1>5. StoppingCalled'
    <2> SUFFICES ASSUME NEW j \in Slots, slots'[j].state = "Stopping"
                 PROVE  \E u \in SvcThreads : calls'[u].op = "stopping" /\ calls'[u].inst = slots'[j].inst
      BY DEF StoppingCalled
    <2>1. slots[j].state = "Stopping" /\ slots'[j].inst = slots[j].inst
      BY <1>s
    <2>2. \A u \in SvcThreads : calls[u].op \notin Closers
      BY <1>a
    <2>3. PICK u \in SvcThreads : calls[u].op = "stopping" /\ calls[u].inst = slots[j].inst
      BY <1>q, <2>1, <2>2 DEF StoppingCalled
    <2>4. u # th
      BY <1>a, <2>3
    <2> QED BY <2>1, <2>3, <2>4, <1>c
  <1>6. StartsSound'
    BY ONLY <1>x, <1>y, <1>q, <1>a, <1>i, <1>s, <1>c, <1>u, th \in SvcThreads DEF StartsSound, Starters
  <1>7. StopsSound'
    BY ONLY <1>x, <1>y, <1>q, <1>a, <1>i, <1>s, <1>c, <1>u, th \in SvcThreads DEF StopsSound, Taken
  <1>8. CallsApart'
    BY ONLY <1>x, <1>y, <1>q, <1>a, <1>i, <1>s, <1>c, <1>u, th \in SvcThreads DEF CallsApart, Movers, Starters
  <1>9. ClosesAlone'
    BY ONLY <1>x, <1>y, <1>q, <1>a, <1>i, <1>s, <1>c, <1>u, th \in SvcThreads DEF ClosesAlone, Closers, Starters
  <1>10. DownIsEmpty'
    BY ONLY <1>x, <1>y, <1>q, <1>a, <1>i, <1>s, <1>c, <1>u, th \in SvcThreads DEF DownIsEmpty, Taken
  <1>11. Tracked'
    BY ONLY <1>x, <1>y, <1>q, <1>a, <1>i, <1>s, <1>c, <1>u, th \in SvcThreads DEF Tracked
  <1>12. ~bad_stop'
    BY <1>f DEF Quiet
  <1> QED BY <1>1, <1>2, <1>3, <1>4, <1>5, <1>6, <1>7, <1>8, <1>9, <1>10, <1>11, <1>12
     DEF Quiet

LEMMA StopQuiet ==
  ASSUME TypeInv, Quiet, NEW th \in SvcThreads, NEW id \in 1..MaxRegistrations, Stop(th, id),
         ~overlapped'
  PROVE  Quiet'
  <1> DEFINE i == First(Matches(id))
  <1>q. /\ IdsGiven /\ IdsApart /\ UpTold /\ StartingCalled /\ StoppingCalled
        /\ StartsSound /\ StopsSound
        /\ CallsApart /\ ClosesAlone /\ DownIsEmpty /\ Tracked
    BY DEF Quiet
  <1>t. slots \in [Slots -> SlotRecord] /\ calls \in [SvcThreads -> CallRecord]
    BY DEF TypeInv, TableOK
  <1>a. /\ svc_initialized /\ calls[th].op = "idle"
        /\ \A u \in SvcThreads : calls[u].op \notin Closers
    BY ClientAlone DEF Stop
  <1>i. i \in Slots /\ slots[i].id = id /\ slots[i].state = "Running"
    BY MatchFound DEF Stop, Stoppable
  <1>f. /\ slots' = [slots EXCEPT ![i].state = "Stopping"]
        /\ calls' = [calls EXCEPT ![th] = Call("stopping", id, slots[i].inst, 0, 0)]
        /\ UNCHANGED <<next_id, svc_initialized, next_inst, up, bad_stop>>
    BY DEF Stop, SetState
  <1>s. \A j \in Slots :
           /\ slots'[j].id = slots[j].id /\ slots'[j].inst = slots[j].inst
           /\ slots'[j].state = IF j = i THEN "Stopping" ELSE slots[j].state
    BY <1>t, <1>f, <1>i DEF SlotRecord
  <1>c. /\ \A u \in SvcThreads : u # th => calls'[u] = calls[u]
        /\ calls'[th].op = "stopping" /\ calls'[th].id = id /\ calls'[th].inst = slots[i].inst
    BY <1>t, <1>f DEF Call
  <1>u. UNCHANGED <<next_id, svc_initialized, next_inst, up>>
    BY <1>f
  <1> HIDE DEF i
  <1>y. \A j \in Slots : Taken(j) /\ j # i =>
           slots[j].id # slots[i].id /\ slots[j].inst # slots[i].inst
    BY ONLY <1>q, <1>i DEF IdsApart, Taken
  <1>x. \A u \in SvcThreads : calls[u].op \in Movers => calls[u].inst # slots[i].inst
    <2> SUFFICES ASSUME NEW u \in SvcThreads, calls[u].op \in Movers, calls[u].inst = slots[i].inst
                 PROVE  FALSE
      OBVIOUS
    <2>1. CASE calls[u].op \in Starters
      BY ONLY <2>1, <1>q, <1>i, <1>y, u \in SvcThreads, calls[u].inst = slots[i].inst
         DEF StartsSound, Taken
    <2>2. CASE calls[u].op = "stopping"
      BY ONLY <2>2, <1>q, <1>i, u \in SvcThreads, calls[u].inst = slots[i].inst DEF StopsSound, Taken
    <2> QED BY <2>1, <2>2 DEF Movers, Starters
  <1>1. IdsGiven'
    BY ONLY <1>x, <1>y, <1>q, <1>a, <1>i, <1>s, <1>c, <1>u, th \in SvcThreads DEF IdsGiven, Movers, Starters, Taken
  <1>2. IdsApart'
    BY ONLY <1>x, <1>y, <1>q, <1>a, <1>i, <1>s, <1>c, <1>u, th \in SvcThreads DEF IdsApart, Taken
  <1>3. UpTold'
    BY ONLY <1>x, <1>y, <1>q, <1>a, <1>i, <1>s, <1>c, <1>u, th \in SvcThreads DEF UpTold, Taken
  <1>4. StartingCalled'
    BY ONLY <1>x, <1>y, <1>q, <1>a, <1>i, <1>s, <1>c, <1>u, th \in SvcThreads DEF StartingCalled, Starters, Taken
  <1>5. StoppingCalled'
    <2> SUFFICES ASSUME NEW j \in Slots, slots'[j].state = "Stopping"
                 PROVE  \E u \in SvcThreads : calls'[u].op = "stopping" /\ calls'[u].inst = slots'[j].inst
      BY DEF StoppingCalled
    <2>0. CASE j = i
      BY <2>0, <1>s, <1>c
    <2>x. SUFFICES ASSUME j # i PROVE \E u \in SvcThreads : calls'[u].op = "stopping" /\ calls'[u].inst = slots'[j].inst
      BY <2>0
    <2>1. slots[j].state = "Stopping" /\ slots'[j].inst = slots[j].inst
      BY <1>s, <2>x
    <2>2. \A u \in SvcThreads : calls[u].op \notin Closers
      BY <1>a
    <2>3. PICK u \in SvcThreads : calls[u].op = "stopping" /\ calls[u].inst = slots[j].inst
      BY <1>q, <2>1, <2>2 DEF StoppingCalled
    <2>4. u # th
      BY <1>a, <2>3
    <2> QED BY <2>1, <2>3, <2>4, <1>c
  <1>6. StartsSound'
    BY ONLY <1>x, <1>y, <1>q, <1>a, <1>i, <1>s, <1>c, <1>u, th \in SvcThreads DEF StartsSound, Starters
  <1>7. StopsSound'
    <2> SUFFICES ASSUME NEW u \in SvcThreads, calls'[u].op = "stopping"
                 PROVE  /\ calls'[u].inst \in up'
                        /\ \A j \in Slots :
                             Taken(j)' /\ (slots'[j].id = calls'[u].id \/ slots'[j].inst = calls'[u].inst) =>
                                /\ slots'[j].id = calls'[u].id /\ slots'[j].inst = calls'[u].inst
                                /\ slots'[j].state = "Stopping"
      BY DEF StopsSound
    <2>1. CASE u = th
      <3>1. slots[i].inst \in up
        BY <1>q, <1>i DEF UpTold
      <3> QED BY ONLY <2>1, <3>1, <1>y, <1>s, <1>c, <1>u, <1>i DEF Taken
    <2>2. CASE u # th
      BY ONLY <2>2, <1>q, <1>s, <1>c, <1>u, <1>i, u \in SvcThreads, calls'[u].op = "stopping" DEF StopsSound, Taken
    <2> QED BY <2>1, <2>2
  <1>8. CallsApart'
    BY ONLY <1>x, <1>y, <1>q, <1>a, <1>i, <1>s, <1>c, <1>u, th \in SvcThreads DEF CallsApart, Movers, Starters
  <1>9. ClosesAlone'
    BY ONLY <1>x, <1>y, <1>q, <1>a, <1>i, <1>s, <1>c, <1>u, th \in SvcThreads DEF ClosesAlone, Closers, Starters
  <1>10. DownIsEmpty'
    BY ONLY <1>x, <1>y, <1>q, <1>a, <1>i, <1>s, <1>c, <1>u, th \in SvcThreads DEF DownIsEmpty, Taken
  <1>11. Tracked'
    BY ONLY <1>x, <1>y, <1>q, <1>a, <1>i, <1>s, <1>c, <1>u, th \in SvcThreads DEF Tracked
  <1>12. ~bad_stop'
    BY <1>f DEF Quiet
  <1> QED BY <1>1, <1>2, <1>3, <1>4, <1>5, <1>6, <1>7, <1>8, <1>9, <1>10, <1>11, <1>12
     DEF Quiet

LEMMA UnregisterQuiet ==
  ASSUME TypeInv, Quiet, NEW th \in SvcThreads, NEW id \in 1..MaxRegistrations, Unregister(th, id),
         ~overlapped'
  PROVE  Quiet'
  <1> DEFINE i == First(Matches(id))
  <1>q. /\ IdsGiven /\ IdsApart /\ UpTold /\ StartingCalled /\ StoppingCalled
        /\ StartsSound /\ StopsSound
        /\ CallsApart /\ ClosesAlone /\ DownIsEmpty /\ Tracked
    BY DEF Quiet
  <1>t. slots \in [Slots -> SlotRecord] /\ calls \in [SvcThreads -> CallRecord]
    BY DEF TypeInv, TableOK
  <1>a. svc_initialized /\ \A u \in SvcThreads : calls[u].op \notin Closers
    BY ClientAlone DEF Unregister
  <1>i. i \in Slots /\ slots[i].id = id /\ slots[i].state \notin {"Unregistered", "Running", "Starting"}
    BY MatchFound DEF Unregister
  <1>f. /\ slots' = [slots EXCEPT ![i] = Cleared]
        /\ UNCHANGED <<next_id, svc_initialized, calls, next_inst, up, bad_stop>>
    BY DEF Unregister
  <1>s. /\ \A j \in Slots : j # i => slots'[j] = slots[j]
        /\ slots'[i].state = "Unregistered"
    BY <1>t, <1>f, <1>i DEF Cleared
  <1>u. UNCHANGED <<next_id, svc_initialized, calls, next_inst, up>>
    BY <1>f
  <1>v. slots[i].state \in SvcState
    BY <1>t, <1>i DEF SlotRecord
  <1> HIDE DEF i
  <1>y. \A j \in Slots : Taken(j) /\ j # i =>
           slots[j].id # slots[i].id /\ slots[j].inst # slots[i].inst
    BY ONLY <1>q, <1>i DEF IdsApart, Taken
  <1>x. \A u \in SvcThreads : calls[u].op \in Starters => calls[u].inst # slots[i].inst
    BY ONLY <1>q, <1>i, <1>y DEF StartsSound, Taken
  <1>1. IdsGiven'
    BY ONLY <1>x, <1>y, <1>q, <1>a, <1>i, <1>v, <1>s, <1>u, th \in SvcThreads DEF IdsGiven, Movers, Starters, Taken
  <1>2. IdsApart'
    BY ONLY <1>x, <1>y, <1>q, <1>a, <1>i, <1>v, <1>s, <1>u, th \in SvcThreads DEF IdsApart, Taken
  <1>3. UpTold'
    BY ONLY <1>x, <1>y, <1>q, <1>a, <1>i, <1>v, <1>s, <1>u, th \in SvcThreads DEF UpTold, Taken, SvcState
  <1>4. StartingCalled'
    BY ONLY <1>x, <1>y, <1>q, <1>a, <1>i, <1>v, <1>s, <1>u, th \in SvcThreads DEF StartingCalled, Starters, Taken
  <1>5. StoppingCalled'
    BY ONLY <1>x, <1>y, <1>q, <1>a, <1>i, <1>v, <1>s, <1>u, th \in SvcThreads DEF StoppingCalled, Closers, Starters, Taken
  <1>6. StartsSound'
    BY ONLY <1>x, <1>y, <1>q, <1>a, <1>i, <1>v, <1>s, <1>u, th \in SvcThreads DEF StartsSound, Starters
  <1>7. StopsSound'
    BY ONLY <1>x, <1>y, <1>q, <1>a, <1>i, <1>v, <1>s, <1>u, th \in SvcThreads DEF StopsSound, Taken
  <1>8. CallsApart'
    BY ONLY <1>x, <1>y, <1>q, <1>a, <1>i, <1>v, <1>s, <1>u, th \in SvcThreads DEF CallsApart, Movers, Starters
  <1>9. ClosesAlone'
    BY ONLY <1>x, <1>y, <1>q, <1>a, <1>i, <1>v, <1>s, <1>u, th \in SvcThreads DEF ClosesAlone, Closers, Starters
  <1>10. DownIsEmpty'
    BY ONLY <1>x, <1>y, <1>q, <1>a, <1>i, <1>v, <1>s, <1>u, th \in SvcThreads DEF DownIsEmpty, Taken
  <1>11. Tracked'
    <2> SUFFICES ASSUME NEW x \in up
                 PROVE  \/ \E j \in Slots : slots'[j].inst = x /\ slots'[j].state \in {"Running", "Stopping"}
                        \/ \E u \in SvcThreads : calls[u].op = "stopping" /\ calls[u].inst = x
      BY <1>u DEF Tracked
    <2>1. CASE \E u \in SvcThreads : calls[u].op = "stopping" /\ calls[u].inst = x
      BY <2>1
    <2>2. ASSUME NEW j \in Slots, slots[j].inst = x, slots[j].state \in {"Running", "Stopping"}
          PROVE  \/ \E k \in Slots : slots'[k].inst = x /\ slots'[k].state \in {"Running", "Stopping"}
                 \/ \E u \in SvcThreads : calls[u].op = "stopping" /\ calls[u].inst = x
      <3>1. CASE j # i
        BY <3>1, <2>2, <1>s
      <3>2. CASE j = i
        <4>1. slots[i].state = "Stopping"
          BY <3>2, <2>2, <1>i
        <4> QED BY <4>1, <3>2, <2>2, <1>q, <1>a DEF StoppingCalled
      <3> QED BY <3>1, <3>2
    <2> QED BY <2>1, <2>2, <1>q DEF Tracked
  <1>12. ~bad_stop'
    BY <1>f DEF Quiet
  <1> QED BY <1>1, <1>2, <1>3, <1>4, <1>5, <1>6, <1>7, <1>8, <1>9, <1>10, <1>11, <1>12
     DEF Quiet

LEMMA RegisterQuiet ==
  ASSUME TypeInv, Quiet, NEW th \in SvcThreads, NEW name \in Names, NEW r \in Restarts,
         Register(th, name, r), ~overlapped'
  PROVE  Quiet'
  <1> DEFINE i == First(Free)
  <1>q. /\ IdsGiven /\ IdsApart /\ UpTold /\ StartingCalled /\ StoppingCalled
        /\ StartsSound /\ StopsSound
        /\ CallsApart /\ ClosesAlone /\ DownIsEmpty /\ Tracked
    BY DEF Quiet
  <1>t. slots \in [Slots -> SlotRecord] /\ calls \in [SvcThreads -> CallRecord]
    BY DEF TypeInv, TableOK
  <1>n. next_id \in Nat /\ next_inst \in Nat
    BY DEF TypeInv
  <1>a. svc_initialized /\ \A u \in SvcThreads : calls[u].op \notin Closers
    BY ClientAlone DEF Register
  <1>i. i \in Slots /\ slots[i].state = "Unregistered"
    BY FreeFound DEF Register
  <1>f. /\ slots' = [slots EXCEPT ![i] =
                        [id |-> next_id, inst |-> next_inst + 1, name |-> name,
                         state |-> "Registered", max_restarts |-> r, restart_count |-> 0]]
        /\ next_inst' = next_inst + 1 /\ next_id' = next_id + 1
        /\ UNCHANGED <<svc_initialized, calls, up, bad_stop>>
    BY DEF Register
  <1>s. /\ \A j \in Slots : j # i => slots'[j] = slots[j]
        /\ slots'[i].state = "Registered" /\ slots'[i].id = next_id /\ slots'[i].inst = next_inst + 1
    BY <1>t, <1>f, <1>i
  <1>u. /\ UNCHANGED <<svc_initialized, calls, up>>
        /\ next_inst' = next_inst + 1 /\ next_id' = next_id + 1
    BY <1>f
  <1>p. next_id >= 1
    BY DEF TypeInv
  <1>y. \A j \in Slots : slots[j].id \in Nat /\ slots[j].inst \in Nat
    BY <1>t, RegistryAssumption DEF SlotRecord
  <1> HIDE DEF i
  <1>1. IdsGiven'
    BY ONLY <1>q, <1>a, <1>i, <1>n, <1>p, <1>y, <1>s, <1>u, th \in SvcThreads DEF IdsGiven, Movers, Starters, Taken
  <1>2. IdsApart'
    BY ONLY <1>q, <1>a, <1>i, <1>n, <1>p, <1>y, <1>s, <1>u, th \in SvcThreads DEF IdsApart, Taken, IdsGiven
  <1>3. UpTold'
    BY ONLY <1>q, <1>a, <1>i, <1>n, <1>p, <1>y, <1>s, <1>u, th \in SvcThreads DEF UpTold, Taken, IdsGiven
  <1>4. StartingCalled'
    BY ONLY <1>q, <1>a, <1>i, <1>n, <1>p, <1>y, <1>s, <1>u, th \in SvcThreads DEF StartingCalled, Starters, Taken
  <1>5. StoppingCalled'
    BY ONLY <1>q, <1>a, <1>i, <1>n, <1>p, <1>y, <1>s, <1>u, th \in SvcThreads DEF StoppingCalled, Closers, Starters, Taken
  <1>6. StartsSound'
    BY ONLY <1>q, <1>a, <1>i, <1>n, <1>p, <1>y, <1>s, <1>u, th \in SvcThreads DEF StartsSound, Starters
  <1>7. StopsSound'
    BY ONLY <1>q, <1>a, <1>i, <1>n, <1>p, <1>y, <1>s, <1>u, th \in SvcThreads DEF StopsSound, Taken, IdsGiven, Movers
  <1>8. CallsApart'
    BY ONLY <1>q, <1>a, <1>i, <1>n, <1>p, <1>y, <1>s, <1>u, th \in SvcThreads DEF CallsApart, Movers, Starters
  <1>9. ClosesAlone'
    BY ONLY <1>q, <1>a, <1>i, <1>n, <1>p, <1>y, <1>s, <1>u, th \in SvcThreads DEF ClosesAlone, Closers, Starters
  <1>10. DownIsEmpty'
    BY ONLY <1>q, <1>a, <1>i, <1>n, <1>p, <1>y, <1>s, <1>u, th \in SvcThreads DEF DownIsEmpty, Taken
  <1>11. Tracked'
    BY ONLY <1>q, <1>a, <1>i, <1>n, <1>p, <1>y, <1>s, <1>u, th \in SvcThreads DEF Tracked
  <1>12. ~bad_stop'
    BY <1>f DEF Quiet
  <1> QED BY <1>1, <1>2, <1>3, <1>4, <1>5, <1>6, <1>7, <1>8, <1>9, <1>10, <1>11, <1>12
     DEF Quiet

LEMMA StartSucceedsQuiet ==
  ASSUME TypeInv, Quiet, NEW th \in SvcThreads, StartSucceeds(th)
  PROVE  Quiet'
  <1> DEFINE i == First(Matches(calls[th].id))
  <1>q. /\ IdsGiven /\ IdsApart /\ UpTold /\ StartingCalled /\ StoppingCalled
        /\ StartsSound /\ StopsSound
        /\ CallsApart /\ ClosesAlone /\ DownIsEmpty /\ Tracked
    BY DEF Quiet
  <1>t. slots \in [Slots -> SlotRecord] /\ calls \in [SvcThreads -> CallRecord]
    BY DEF TypeInv, TableOK
  <1>n. next_id \in Nat /\ next_inst \in Nat
    BY DEF TypeInv
  <1>o. calls[th].op = "starting" /\ calls[th].op \in Starters
    BY DEF StartSucceeds, CanLock, Starters
  <1>i. /\ Matches(calls[th].id) # {} /\ i \in Slots
        /\ slots[i].inst = calls[th].inst /\ slots[i].state = "Starting"
    BY <1>o, FoundAgain
  <1>f. /\ slots' = [slots EXCEPT ![i].state = "Running"] /\ up' = up \cup {calls[th].inst}
        /\ calls' = [calls EXCEPT ![th] = SvcIdle]
        /\ UNCHANGED <<next_id, svc_initialized, next_inst, bad_stop>>
    BY <1>i DEF StartSucceeds, SetState
  <1>s. \A j \in Slots :
           /\ slots'[j].id = slots[j].id /\ slots'[j].inst = slots[j].inst
           /\ slots'[j].state = IF j = i THEN "Running" ELSE slots[j].state
    BY <1>t, <1>f, <1>i DEF SlotRecord
  <1>c. /\ \A u \in SvcThreads : u # th => calls'[u] = calls[u]
        /\ calls'[th].op = "idle"
    BY <1>t, <1>f DEF SvcIdle, Call
  <1>u. UNCHANGED <<next_id, svc_initialized, next_inst>> /\ up' = up \cup {calls[th].inst}
    BY <1>f
  <1> HIDE DEF i
  <1>y. \A j \in Slots : Taken(j) /\ j # i =>
           slots[j].id # slots[i].id /\ slots[j].inst # slots[i].inst
    BY ONLY <1>q, <1>i DEF IdsApart, Taken
  <1>x. \A u \in SvcThreads : u # th /\ calls[u].op \in Movers => calls[u].inst # slots[i].inst
    BY ONLY <1>q, <1>o, <1>i, th \in SvcThreads DEF CallsApart, Movers
  <1>1. IdsGiven'
    BY ONLY <1>x, <1>y, <1>q, <1>o, <1>i, <1>n, <1>s, <1>c, <1>u, th \in SvcThreads DEF IdsGiven, Movers, Starters, Taken
  <1>2. IdsApart'
    BY ONLY <1>x, <1>y, <1>q, <1>o, <1>i, <1>n, <1>s, <1>c, <1>u, th \in SvcThreads DEF IdsApart, Taken
  <1>3. UpTold'
    BY ONLY <1>x, <1>y, <1>q, <1>o, <1>i, <1>n, <1>s, <1>c, <1>u, th \in SvcThreads DEF UpTold, Taken
  <1>4. StartingCalled'
    BY ONLY <1>x, <1>y, <1>q, <1>o, <1>i, <1>n, <1>s, <1>c, <1>u, th \in SvcThreads DEF StartingCalled, Starters, Taken
  <1>5. StoppingCalled'
    <2> SUFFICES ASSUME NEW j \in Slots, slots'[j].state = "Stopping"
                 PROVE  \E u \in SvcThreads : calls'[u].op = "stopping" /\ calls'[u].inst = slots'[j].inst
      BY DEF StoppingCalled
    <2>1. slots[j].state = "Stopping" /\ slots'[j].inst = slots[j].inst
      BY <1>s
    <2>2. \A u \in SvcThreads : calls[u].op \notin Closers
      BY ONLY <1>q, <1>o, th \in SvcThreads DEF ClosesAlone, Closers, Starters
    <2>3. PICK u \in SvcThreads : calls[u].op = "stopping" /\ calls[u].inst = slots[j].inst
      BY <1>q, <2>1, <2>2 DEF StoppingCalled
    <2>4. u # th
      BY <1>o, <2>3
    <2> QED BY <2>1, <2>3, <2>4, <1>c
  <1>6. StartsSound'
    <2> SUFFICES ASSUME NEW u \in SvcThreads, calls'[u].op \in Starters
                 PROVE  \E k \in Slots : /\ slots'[k].id = calls'[u].id /\ slots'[k].inst = calls'[u].inst
                                         /\ slots'[k].state = "Starting"
      BY DEF StartsSound
    <2>1. CASE u # th
      <3>1. calls'[u] = calls[u]
        BY <2>1, <1>c
      <3>2. PICK k \in Slots : /\ slots[k].id = calls[u].id /\ slots[k].inst = calls[u].inst
                               /\ slots[k].state = "Starting"
        BY <3>1, <1>q DEF StartsSound
      <3>3. k # i
        BY <2>1, <3>1, <3>2, <1>x DEF Movers, Starters
      <3> QED BY <3>1, <3>2, <3>3, <1>s
    <2>2. CASE u = th
      BY <2>2, <1>s, <1>c, <1>i DEF Starters
    <2> QED BY <2>1, <2>2
  <1>7. StopsSound'
    BY ONLY <1>x, <1>y, <1>q, <1>o, <1>i, <1>n, <1>s, <1>c, <1>u, th \in SvcThreads DEF StopsSound, Taken
  <1>8. CallsApart'
    BY ONLY <1>x, <1>y, <1>q, <1>o, <1>i, <1>n, <1>s, <1>c, <1>u, th \in SvcThreads DEF CallsApart, Movers, Starters
  <1>9. ClosesAlone'
    BY ONLY <1>x, <1>y, <1>q, <1>o, <1>i, <1>n, <1>s, <1>c, <1>u, th \in SvcThreads DEF ClosesAlone, Closers, Starters
  <1>10. DownIsEmpty'
    BY ONLY <1>x, <1>y, <1>q, <1>o, <1>i, <1>n, <1>s, <1>c, <1>u, th \in SvcThreads DEF DownIsEmpty, Taken
  <1>11. Tracked'
    BY ONLY <1>x, <1>y, <1>q, <1>o, <1>i, <1>n, <1>s, <1>c, <1>u, th \in SvcThreads DEF Tracked
  <1>12. ~bad_stop'
    BY <1>f DEF Quiet
  <1> QED BY <1>1, <1>2, <1>3, <1>4, <1>5, <1>6, <1>7, <1>8, <1>9, <1>10, <1>11, <1>12
     DEF Quiet

LEMMA StartFailsQuiet ==
  ASSUME TypeInv, Quiet, NEW th \in SvcThreads, StartFails(th)
  PROVE  Quiet'
  <1> DEFINE i == First(Matches(calls[th].id))
  <1>q. /\ IdsGiven /\ IdsApart /\ UpTold /\ StartingCalled /\ StoppingCalled
        /\ StartsSound /\ StopsSound
        /\ CallsApart /\ ClosesAlone /\ DownIsEmpty /\ Tracked
    BY DEF Quiet
  <1>t. slots \in [Slots -> SlotRecord] /\ calls \in [SvcThreads -> CallRecord]
    BY DEF TypeInv, TableOK
  <1>n. next_id \in Nat /\ next_inst \in Nat
    BY DEF TypeInv
  <1>o. calls[th].op = "starting" /\ calls[th].op \in Starters
    BY DEF StartFails, CanLock, Starters
  <1>i. /\ Matches(calls[th].id) # {} /\ i \in Slots
        /\ slots[i].inst = calls[th].inst /\ slots[i].state = "Starting"
    BY <1>o, FoundAgain
  <1>e. slots[i].id = calls[th].id
    BY <1>o, FoundAgain
  <1>f. UNCHANGED <<next_id, svc_initialized, next_inst, up, bad_stop>>
    BY <1>i DEF StartFails
  <1>c. \A u \in SvcThreads : u # th => calls'[u] = calls[u]
    BY <1>t, <1>i DEF StartFails
  <1>s. /\ \A j \in Slots : slots'[j].id = slots[j].id /\ slots'[j].inst = slots[j].inst
        /\ \A j \in Slots : j # i => slots'[j].state = slots[j].state
        /\ \/ slots'[i].state = "Failed" /\ calls'[th].op = "idle"
           \/ /\ slots'[i].state = "Starting" /\ calls'[th].op = "sleeping"
              /\ calls'[th].id = calls[th].id /\ calls'[th].inst = calls[th].inst
    <2>1. CASE RestartsLeft(calls[th])
      <3>1. /\ slots' = [slots EXCEPT ![i].restart_count = @ + 1]
            /\ calls' = [calls EXCEPT ![th].op = "sleeping"]
        BY <1>i, <2>1 DEF StartFails
      <3>2. \A j \in Slots : /\ slots'[j].id = slots[j].id /\ slots'[j].inst = slots[j].inst
                             /\ slots'[j].state = slots[j].state
        BY <3>1, <1>t, <1>i DEF SlotRecord
      <3>3. /\ calls'[th].op = "sleeping" /\ calls'[th].id = calls[th].id
            /\ calls'[th].inst = calls[th].inst
        BY <3>1, <1>t DEF CallRecord
      <3> QED BY <3>2, <3>3, <1>i
    <2>2. CASE ~RestartsLeft(calls[th])
      <3>1. /\ slots' = [slots EXCEPT ![i].restart_count = @ + 1, ![i].state = "Failed"]
            /\ calls' = [calls EXCEPT ![th] = SvcIdle]
        BY <1>i, <2>2 DEF StartFails
      <3>2. \A j \in Slots : /\ slots'[j].id = slots[j].id /\ slots'[j].inst = slots[j].inst
                             /\ slots'[j].state = IF j = i THEN "Failed" ELSE slots[j].state
        BY <3>1, <1>t, <1>i DEF SlotRecord
      <3>3. calls'[th].op = "idle"
        BY <3>1, <1>t DEF SvcIdle, Call
      <3> QED BY <3>2, <3>3, <1>i
    <2> QED BY <2>1, <2>2
  <1>u. UNCHANGED <<next_id, svc_initialized, next_inst, up>>
    BY <1>f
  <1> HIDE DEF i
  <1>y. \A j \in Slots : Taken(j) /\ j # i =>
           slots[j].id # slots[i].id /\ slots[j].inst # slots[i].inst
    BY ONLY <1>q, <1>i DEF IdsApart, Taken
  <1>x. \A u \in SvcThreads : u # th /\ calls[u].op \in Movers => calls[u].inst # slots[i].inst
    BY ONLY <1>q, <1>o, <1>i, th \in SvcThreads DEF CallsApart, Movers
  <1>1. IdsGiven'
    BY ONLY <1>x, <1>y, <1>q, <1>o, <1>i, <1>s, <1>c, <1>u, th \in SvcThreads DEF IdsGiven, Movers, Starters, Taken
  <1>2. IdsApart'
    BY ONLY <1>x, <1>y, <1>q, <1>o, <1>i, <1>s, <1>c, <1>u, th \in SvcThreads DEF IdsApart, Taken
  <1>3. UpTold'
    BY ONLY <1>x, <1>y, <1>q, <1>o, <1>i, <1>s, <1>c, <1>u, th \in SvcThreads DEF UpTold, Taken
  <1>4. StartingCalled'
    BY ONLY <1>x, <1>y, <1>q, <1>o, <1>i, <1>s, <1>c, <1>u, th \in SvcThreads DEF StartingCalled, Starters, Taken
  <1>5. StoppingCalled'
    <2> SUFFICES ASSUME NEW j \in Slots, slots'[j].state = "Stopping"
                 PROVE  \E u \in SvcThreads : calls'[u].op = "stopping" /\ calls'[u].inst = slots'[j].inst
      BY DEF StoppingCalled
    <2>1. slots[j].state = "Stopping" /\ slots'[j].inst = slots[j].inst
      BY <1>s, <1>i
    <2>2. \A u \in SvcThreads : calls[u].op \notin Closers
      BY ONLY <1>q, <1>o, th \in SvcThreads DEF ClosesAlone, Closers, Starters
    <2>3. PICK u \in SvcThreads : calls[u].op = "stopping" /\ calls[u].inst = slots[j].inst
      BY <1>q, <2>1, <2>2 DEF StoppingCalled
    <2>4. u # th
      BY <1>o, <2>3
    <2> QED BY <2>1, <2>3, <2>4, <1>c
  <1>6. StartsSound'
    <2> SUFFICES ASSUME NEW u \in SvcThreads, calls'[u].op \in Starters
                 PROVE  \E k \in Slots : /\ slots'[k].id = calls'[u].id /\ slots'[k].inst = calls'[u].inst
                                         /\ slots'[k].state = "Starting"
      BY DEF StartsSound
    <2>1. CASE u # th
      <3>1. calls'[u] = calls[u]
        BY <2>1, <1>c
      <3>2. PICK k \in Slots : /\ slots[k].id = calls[u].id /\ slots[k].inst = calls[u].inst
                               /\ slots[k].state = "Starting"
        BY <3>1, <1>q DEF StartsSound
      <3>3. k # i
        BY <2>1, <3>1, <3>2, <1>x DEF Movers, Starters
      <3> QED BY <3>1, <3>2, <3>3, <1>s
    <2>2. CASE u = th
      BY <2>2, <1>s, <1>c, <1>i, <1>e DEF Starters
    <2> QED BY <2>1, <2>2
  <1>7. StopsSound'
    BY ONLY <1>x, <1>y, <1>q, <1>o, <1>i, <1>s, <1>c, <1>u, th \in SvcThreads DEF StopsSound, Taken
  <1>8. CallsApart'
    BY ONLY <1>x, <1>y, <1>q, <1>o, <1>i, <1>s, <1>c, <1>u, th \in SvcThreads DEF CallsApart, Movers, Starters
  <1>9. ClosesAlone'
    BY ONLY <1>x, <1>y, <1>q, <1>o, <1>i, <1>s, <1>c, <1>u, th \in SvcThreads DEF ClosesAlone, Closers, Starters
  <1>10. DownIsEmpty'
    BY ONLY <1>x, <1>y, <1>q, <1>o, <1>i, <1>s, <1>c, <1>u, th \in SvcThreads DEF DownIsEmpty, Taken
  <1>11. Tracked'
    BY ONLY <1>x, <1>y, <1>q, <1>o, <1>i, <1>s, <1>c, <1>u, th \in SvcThreads DEF Tracked
  <1>12. ~bad_stop'
    BY <1>f DEF Quiet
  <1> QED BY <1>1, <1>2, <1>3, <1>4, <1>5, <1>6, <1>7, <1>8, <1>9, <1>10, <1>11, <1>12
     DEF Quiet

LEMMA StartWakesQuiet ==
  ASSUME TypeInv, Quiet, NEW th \in SvcThreads, StartWakes(th)
  PROVE  Quiet'
  <1>q. /\ IdsGiven /\ IdsApart /\ UpTold /\ StartingCalled /\ StoppingCalled
        /\ StartsSound /\ StopsSound
        /\ CallsApart /\ ClosesAlone /\ DownIsEmpty /\ Tracked
    BY DEF Quiet
  <1>t. slots \in [Slots -> SlotRecord] /\ calls \in [SvcThreads -> CallRecord]
    BY DEF TypeInv, TableOK
  <1>o. calls[th].op = "sleeping" /\ calls[th].op \in Starters
    BY DEF StartWakes, CanLock, Starters
  <1>i. Matches(calls[th].id) # {}
    BY <1>o, FoundAgain
  <1>f. /\ calls' = [calls EXCEPT ![th].op = "starting", ![th].attempt = @ + 1]
        /\ UNCHANGED <<slots, next_id, svc_initialized, next_inst, up, bad_stop>>
    BY <1>i DEF StartWakes
  <1>c. /\ \A u \in SvcThreads : u # th => calls'[u] = calls[u]
        /\ calls'[th].op = "starting" /\ calls'[th].id = calls[th].id
        /\ calls'[th].inst = calls[th].inst
    BY <1>t, <1>f DEF CallRecord
  <1>u. UNCHANGED <<slots, next_id, svc_initialized, next_inst, up>>
    BY <1>f
  <1>1. IdsGiven'
    BY ONLY <1>q, <1>o, <1>c, <1>u, th \in SvcThreads DEF IdsGiven, Movers, Starters, Taken
  <1>2. IdsApart'
    BY ONLY <1>q, <1>o, <1>c, <1>u, th \in SvcThreads DEF IdsApart, Taken
  <1>3. UpTold'
    BY ONLY <1>q, <1>o, <1>c, <1>u, th \in SvcThreads DEF UpTold, Taken
  <1>4. StartingCalled'
    BY ONLY <1>q, <1>o, <1>c, <1>u, th \in SvcThreads DEF StartingCalled, Starters, Taken
  <1>5. StoppingCalled'
    <2> SUFFICES ASSUME NEW j \in Slots, slots'[j].state = "Stopping"
                 PROVE  \E u \in SvcThreads : calls'[u].op = "stopping" /\ calls'[u].inst = slots'[j].inst
      BY DEF StoppingCalled
    <2>1. slots[j].state = "Stopping" /\ slots'[j].inst = slots[j].inst
      BY <1>u
    <2>2. \A u \in SvcThreads : calls[u].op \notin Closers
      BY ONLY <1>q, <1>o, th \in SvcThreads DEF ClosesAlone, Closers, Starters
    <2>3. PICK u \in SvcThreads : calls[u].op = "stopping" /\ calls[u].inst = slots[j].inst
      BY <1>q, <2>1, <2>2 DEF StoppingCalled
    <2>4. u # th
      BY <1>o, <2>3
    <2> QED BY <2>1, <2>3, <2>4, <1>c
  <1>6. StartsSound'
    BY ONLY <1>q, <1>o, <1>c, <1>u, th \in SvcThreads DEF StartsSound, Starters
  <1>7. StopsSound'
    BY ONLY <1>q, <1>o, <1>c, <1>u, th \in SvcThreads DEF StopsSound, Taken
  <1>8. CallsApart'
    BY ONLY <1>q, <1>o, <1>c, <1>u, th \in SvcThreads DEF CallsApart, Movers, Starters
  <1>9. ClosesAlone'
    BY ONLY <1>q, <1>o, <1>c, <1>u, th \in SvcThreads DEF ClosesAlone, Closers, Starters
  <1>10. DownIsEmpty'
    BY ONLY <1>q, <1>o, <1>c, <1>u, th \in SvcThreads DEF DownIsEmpty, Taken
  <1>11. Tracked'
    BY ONLY <1>q, <1>o, <1>c, <1>u, th \in SvcThreads DEF Tracked
  <1>12. ~bad_stop'
    BY <1>f DEF Quiet
  <1> QED BY <1>1, <1>2, <1>3, <1>4, <1>5, <1>6, <1>7, <1>8, <1>9, <1>10, <1>11, <1>12
     DEF Quiet

LEMMA StopReturnsQuiet ==
  ASSUME TypeInv, Quiet, NEW th \in SvcThreads, StopReturns(th)
  PROVE  Quiet'
  <1> DEFINE M == Matches(calls[th].id)
             i == First(M)
  <1>q. /\ IdsGiven /\ IdsApart /\ UpTold /\ StartingCalled /\ StoppingCalled
        /\ StartsSound /\ StopsSound
        /\ CallsApart /\ ClosesAlone /\ DownIsEmpty /\ Tracked
    BY DEF Quiet
  <1>t. slots \in [Slots -> SlotRecord] /\ calls \in [SvcThreads -> CallRecord]
    BY DEF TypeInv, TableOK
  <1>o. calls[th].op = "stopping"
    BY DEF StopReturns, CanLock
  <1>f. /\ calls' = [calls EXCEPT ![th] = SvcIdle] /\ up' = up \ {calls[th].inst}
        /\ slots' = IF M # {} THEN [slots EXCEPT ![i].state = "Stopped"] ELSE slots
        /\ bad_stop' = (bad_stop \/ calls[th].inst \notin up)
        /\ UNCHANGED <<next_id, svc_initialized, next_inst>>
    BY DEF StopReturns, SetState
  <1>i. M # {} => /\ i \in Slots /\ slots[i].id = calls[th].id
                  /\ slots[i].inst = calls[th].inst /\ slots[i].state = "Stopping"
    <2>1. M # {} => i \in Slots /\ slots[i].id = calls[th].id /\ slots[i].state # "Unregistered"
      BY MatchFound
    <2> HIDE DEF M, i
    <2> QED BY <2>1, <1>o, <1>q DEF StopsSound, Taken
  <1>m. \A j \in Slots : Taken(j) /\ slots[j].inst = calls[th].inst => M # {} /\ j = i
    <2> SUFFICES ASSUME NEW j \in Slots, Taken(j), slots[j].inst = calls[th].inst
                 PROVE  M # {} /\ j = i
      OBVIOUS
    <2>1. slots[j].id = calls[th].id
      BY <1>o, <1>q DEF StopsSound
    <2>2. j \in M
      BY <2>1 DEF Matches, Taken
    <2>3. i \in Slots /\ slots[i].inst = calls[th].inst /\ slots[i].state = "Stopping"
      BY <2>2, <1>i
    <2> HIDE DEF M, i
    <2>4. j = i
      BY ONLY <2>3, <1>q, j \in Slots, Taken(j), slots[j].inst = calls[th].inst DEF IdsApart, Taken
    <2> QED BY <2>2, <2>4
  <1>s. \A j \in Slots :
           /\ slots'[j].id = slots[j].id /\ slots'[j].inst = slots[j].inst
           /\ slots'[j].state = IF M # {} /\ j = i THEN "Stopped" ELSE slots[j].state
    <2> HIDE DEF M, i
    <2> QED BY <1>t, <1>f, <1>i DEF SlotRecord
  <1>c. /\ \A u \in SvcThreads : u # th => calls'[u] = calls[u]
        /\ calls'[th].op = "idle"
    BY <1>t, <1>f DEF SvcIdle, Call
  <1>u. UNCHANGED <<next_id, svc_initialized, next_inst>> /\ up' = up \ {calls[th].inst}
    BY <1>f
  <1> HIDE DEF i, M
  <1>1. IdsGiven'
    BY ONLY <1>q, <1>o, <1>i, <1>m, <1>s, <1>c, <1>u, th \in SvcThreads DEF IdsGiven, Movers, Starters, Taken
  <1>2. IdsApart'
    BY ONLY <1>q, <1>o, <1>i, <1>m, <1>s, <1>c, <1>u, th \in SvcThreads DEF IdsApart, Taken
  <1>3. UpTold'
    BY ONLY <1>q, <1>o, <1>i, <1>m, <1>s, <1>c, <1>u, th \in SvcThreads DEF UpTold, Taken
  <1>4. StartingCalled'
    BY ONLY <1>q, <1>o, <1>i, <1>m, <1>s, <1>c, <1>u, th \in SvcThreads DEF StartingCalled, Starters, Taken
  <1>5. StoppingCalled'
    <2> SUFFICES ASSUME NEW j \in Slots, slots'[j].state = "Stopping"
                 PROVE  \E u \in SvcThreads : calls'[u].op = "stopping" /\ calls'[u].inst = slots'[j].inst
      BY DEF StoppingCalled
    <2>1. slots[j].state = "Stopping" /\ slots'[j].inst = slots[j].inst
      BY <1>s
    <2>2. \A u \in SvcThreads : calls[u].op \notin Closers
      BY ONLY <1>q, <1>o, th \in SvcThreads DEF ClosesAlone, Closers, Starters
    <2>3. PICK u \in SvcThreads : calls[u].op = "stopping" /\ calls[u].inst = slots[j].inst
      BY <1>q, <2>1, <2>2 DEF StoppingCalled
    <2>4. u # th
      BY <1>m, <1>s, <2>1, <2>3 DEF Taken
    <2> QED BY <2>1, <2>3, <2>4, <1>c
  <1>6. StartsSound'
    BY ONLY <1>q, <1>o, <1>i, <1>m, <1>s, <1>c, <1>u, th \in SvcThreads DEF StartsSound, Starters
  <1>7. StopsSound'
    <2> SUFFICES ASSUME NEW u \in SvcThreads, calls'[u].op = "stopping"
                 PROVE  /\ calls'[u].inst \in up'
                        /\ \A j \in Slots :
                             Taken(j)' /\ (slots'[j].id = calls'[u].id \/ slots'[j].inst = calls'[u].inst) =>
                                /\ slots'[j].id = calls'[u].id /\ slots'[j].inst = calls'[u].inst
                                /\ slots'[j].state = "Stopping"
      BY DEF StopsSound
    <2>1. u # th /\ calls'[u] = calls[u] /\ calls[u].op = "stopping"
      BY <1>c
    <2>2. calls[u].inst # calls[th].inst /\ calls[u].inst \in up
      BY ONLY <2>1, <1>o, <1>q, u \in SvcThreads, th \in SvcThreads DEF CallsApart, Movers, StopsSound
    <2>3. ASSUME NEW j \in Slots, Taken(j)', slots'[j].id = calls[u].id \/ slots'[j].inst = calls[u].inst
          PROVE  /\ slots'[j].id = calls[u].id /\ slots'[j].inst = calls[u].inst
                 /\ slots'[j].state = "Stopping"
      <3>1. Taken(j)
        BY <2>3, <1>s, <1>i DEF Taken
      <3>2. slots[j].id = calls[u].id /\ slots[j].inst = calls[u].inst /\ slots[j].state = "Stopping"
        BY <2>1, <2>3, <3>1, <1>s, <1>q DEF StopsSound
      <3> QED BY <2>2, <3>2, <1>i, <1>s
    <2> QED BY <2>1, <2>2, <2>3, <1>u
  <1>8. CallsApart'
    BY ONLY <1>q, <1>o, <1>i, <1>m, <1>s, <1>c, <1>u, th \in SvcThreads DEF CallsApart, Movers, Starters
  <1>9. ClosesAlone'
    BY ONLY <1>q, <1>o, <1>i, <1>m, <1>s, <1>c, <1>u, th \in SvcThreads DEF ClosesAlone, Closers, Starters
  <1>10. DownIsEmpty'
    BY ONLY <1>q, <1>o, <1>i, <1>m, <1>s, <1>c, <1>u, th \in SvcThreads DEF DownIsEmpty, Taken
  <1>11. Tracked'
    BY ONLY <1>q, <1>o, <1>i, <1>m, <1>s, <1>c, <1>u, th \in SvcThreads DEF Tracked
  <1>12. ~bad_stop'
    BY <1>f, <1>o, <1>q DEF Quiet, StopsSound
  <1> QED BY <1>1, <1>2, <1>3, <1>4, <1>5, <1>6, <1>7, <1>8, <1>9, <1>10, <1>11, <1>12
     DEF Quiet

-----------------------------------------------------------------------------
(* A shutdown, which goes on with the table sl below slot top.  Nothing is    *)
(* starting or stopping, and what is up is Running below top: either it stops *)
(* the last of these, or there is none and nothing is up.                     *)
Scanned(sl, top, live) ==
    /\ live \subseteq 1..next_inst
    /\ \A i \in Slots : sl[i].state # "Unregistered" =>
          sl[i].id \in 1..(next_id - 1) /\ sl[i].inst \in 1..next_inst
    /\ \A i, j \in Slots : sl[i].state # "Unregistered" /\ sl[j].state # "Unregistered" /\ i # j =>
          sl[i].id # sl[j].id /\ sl[i].inst # sl[j].inst
    /\ \A i \in Slots : sl[i].state \notin {"Starting", "Stopping"}
    /\ \A i \in Slots : i >= top => sl[i].state # "Running"
    /\ \A i \in Slots : sl[i].state = "Running" => sl[i].inst \in live
    /\ \A i \in Slots : sl[i].state \in {"Registered", "Failed", "Stopped"} => sl[i].inst \notin live
    /\ \A x \in live : \E i \in Slots : sl[i].inst = x /\ sl[i].state = "Running"

LEMMA ScanQuiet ==
  ASSUME TypeInv, Quiet, NEW th \in SvcThreads, NEW sl \in [Slots -> SlotRecord],
         NEW top \in 1..(ServiceMax + 1), svc_initialized,
         \A u \in SvcThreads : u # th => calls[u].op = "idle",
         Scanned(sl, top, up'), Scan(th, sl, top), UNCHANGED <<next_id, next_inst, bad_stop>>
  PROVE  Quiet'
  <1> DEFINE busy == {i \in 1..(top - 1) : sl[i].state \in ToStop}
  <1>t. calls \in [SvcThreads -> CallRecord]
    BY DEF TypeInv
  <1>b. ~bad_stop'
    BY DEF Quiet
  <1>n. UNCHANGED <<next_id, next_inst>>
    OBVIOUS
  <1>1. CASE busy # {}
    <2> DEFINE i == Last(busy)
    <2>1. busy \in SUBSET (0..ServiceMax) /\ busy \subseteq Slots
      BY RegistryAssumption DEF Slots
    <2>2. i \in busy /\ \A j \in busy : i >= j
      BY <1>1, <2>1, LastIn, RegistryAssumption
    <2>3. i \in Slots /\ i < top /\ sl[i].state = "Running"
      BY <2>1, <2>2, RegistryAssumption DEF ToStop, Scanned
    <2>4. \A j \in Slots : j > i => sl[j].state # "Running"
      <3> SUFFICES ASSUME NEW j \in Slots, j > i, sl[j].state = "Running" PROVE FALSE
        OBVIOUS
      <3>1. j < top
        BY RegistryAssumption DEF Scanned, Slots
      <3>2. j \in busy
        BY <3>1, RegistryAssumption DEF Slots, ToStop
      <3>3. i >= j /\ i \in Int /\ j \in Int
        BY <2>2, <2>3, <3>2 DEF Slots
      <3> QED BY <3>3
    <2>f. /\ slots' = [sl EXCEPT ![i].state = "Stopping"] /\ svc_initialized' = svc_initialized
          /\ calls' = [calls EXCEPT ![th] = Call("shutdown", 0, 0, 0, i)]
      BY <1>1 DEF Scan
    <2>s. \A j \in Slots :
             /\ slots'[j].id = sl[j].id /\ slots'[j].inst = sl[j].inst
             /\ slots'[j].state = IF j = i THEN "Stopping" ELSE sl[j].state
      BY <2>f, <2>3 DEF SlotRecord
    <2>c. /\ \A u \in SvcThreads : u # th => calls'[u].op = "idle"
          /\ calls'[th].op = "shutdown" /\ calls'[th].slot = i
      BY <1>t, <2>f DEF Call
    <2>u. svc_initialized'
      BY <2>f
    <2>z. Scanned(sl, top, up')
      OBVIOUS
    <2> HIDE DEF i, busy
    <2>m. \A u \in SvcThreads : calls'[u].op \notin Movers
      BY ONLY <2>c DEF Movers
    <2>k. \A u \in SvcThreads : calls'[u].op \in Closers => u = th
      BY ONLY <2>c DEF Closers
    <2>5. IdsGiven'
      BY ONLY <2>z, <2>s, <2>m, <2>3, <1>n DEF Scanned, IdsGiven, Taken
    <2>6. IdsApart'
      BY ONLY <2>z, <2>s, <2>3 DEF Scanned, IdsApart, Taken
    <2>7. UpTold'
      BY ONLY <2>z, <2>s, <2>3 DEF Scanned, UpTold
    <2>8. StartingCalled'
      BY ONLY <2>z, <2>s DEF Scanned, StartingCalled
    <2>w. \A j \in Slots : /\ sl[j].state \notin {"Starting", "Stopping"}
                           /\ j > i => sl[j].state \notin {"Running", "Starting", "Stopping"}
      BY ONLY <2>z, <2>4 DEF Scanned
    <2>9. StoppingCalled'
      <3>1. \A j \in Slots : slots'[j].state = "Stopping" => j = i
        BY ONLY <2>w, <2>s
      <3>2. calls'[th].op \in Closers /\ calls'[th].slot = i
        BY <2>c DEF Closers
      <3> QED BY ONLY <3>1, <3>2, th \in SvcThreads DEF StoppingCalled
    <2>10. StartsSound' /\ StopsSound' /\ CallsApart'
      BY ONLY <2>m DEF StartsSound, StopsSound, CallsApart, Movers, Starters
    <2>11. ClosesAlone'
      <3>1. /\ slots'[i].state = "Stopping"
            /\ \A j \in Slots : j > i => slots'[j].state \notin {"Running", "Starting", "Stopping"}
        <4>1. ~(i > i)
          BY <2>3 DEF Slots
        <4> QED BY ONLY <2>w, <2>s, <2>3, <4>1
      <3>2. calls'[th].op # "shutdown stopping"
        BY <2>c
      <3> QED BY ONLY <3>1, <3>2, <2>c, <2>k, <2>u DEF ClosesAlone
    <2>12. DownIsEmpty'
      BY ONLY <2>u DEF DownIsEmpty
    <2>13. Tracked'
      <3> SUFFICES ASSUME NEW x \in up'
                   PROVE  \E j \in Slots : slots'[j].inst = x /\ slots'[j].state \in {"Running", "Stopping"}
        BY DEF Tracked
      <3>1. PICK j \in Slots : sl[j].inst = x /\ sl[j].state = "Running"
        BY <2>z DEF Scanned
      <3> QED BY <3>1, <2>s
    <2> QED BY <1>b, <2>5, <2>6, <2>7, <2>8, <2>9, <2>10, <2>11, <2>12, <2>13 DEF Quiet
  <1>2. CASE busy = {}
    <2>f. slots' = [i \in Slots |-> Cleared] /\ calls' = [calls EXCEPT ![th] = SvcIdle] /\ svc_initialized' = FALSE
      BY <1>2 DEF Scan
    <2>1. \A j \in Slots : slots'[j].state = "Unregistered"
      BY <2>f DEF Cleared
    <2>2. \A u \in SvcThreads : calls'[u].op = "idle"
      BY <1>t, <2>f DEF SvcIdle, Call
    <2>3. up' = {}
      <3> SUFFICES ASSUME NEW x \in up' PROVE FALSE
        OBVIOUS
      <3>1. PICK j \in Slots : sl[j].inst = x /\ sl[j].state = "Running"
        BY DEF Scanned
      <3>2. j < top
        BY <3>1, RegistryAssumption DEF Scanned, Slots
      <3>3. j \in busy
        BY <3>1, <3>2, RegistryAssumption DEF Slots, ToStop
      <3> QED BY <3>3, <1>2
    <2>4. \A u \in SvcThreads : calls'[u].op \notin Movers /\ calls'[u].op \notin Closers
      BY ONLY <2>2 DEF Movers, Closers
    <2>5. IdsGiven' /\ IdsApart'
      BY ONLY <2>1, <2>3, <2>4 DEF IdsGiven, IdsApart, Taken
    <2>6. UpTold' /\ StartingCalled' /\ StoppingCalled'
      BY ONLY <2>1 DEF UpTold, StartingCalled, StoppingCalled
    <2>7. StartsSound' /\ StopsSound' /\ CallsApart' /\ ClosesAlone'
      BY ONLY <2>4 DEF StartsSound, StopsSound, CallsApart, ClosesAlone, Movers, Starters
    <2>8. DownIsEmpty' /\ Tracked'
      BY ONLY <2>1, <2>2, <2>3 DEF DownIsEmpty, Tracked, Taken
    <2> QED BY <1>b, <2>5, <2>6, <2>7, <2>8 DEF Quiet
  <1> QED BY <1>1, <1>2

LEMMA ShutdownQuiet ==
  ASSUME TypeInv, Quiet, NEW th \in SvcThreads, Shutdown(th), ~overlapped'
  PROVE  Quiet'
  <1>1. \A u \in SvcThreads : calls[u].op = "idle"
    <2>1. \A u \in SvcThreads : calls[u] = SvcIdle
      BY DEF Shutdown
    <2> QED BY <2>1 DEF SvcIdle, Call
  <1>2. /\ svc_initialized /\ Scan(th, slots, ServiceMax + 1)
        /\ UNCHANGED <<next_id, next_inst, up, bad_stop>>
    BY DEF Shutdown
  <1>3. slots \in [Slots -> SlotRecord]
    BY DEF TypeInv, TableOK
  <1>4. \A i \in Slots : slots[i].state \notin {"Starting", "Stopping"}
    BY <1>1 DEF Quiet, StartingCalled, StoppingCalled, Starters, Closers
  <1>5. Scanned(slots, ServiceMax + 1, up')
    <2>1. IdsGiven /\ IdsApart /\ UpTold /\ Tracked
      BY DEF Quiet
    <2>2. \A i \in Slots : ~(i >= ServiceMax + 1)
      BY RegistryAssumption DEF Slots
    <2>3. up' = up
      BY <1>2
    <2>4. \A x \in up : \E i \in Slots : slots[i].inst = x /\ slots[i].state = "Running"
      BY ONLY <2>1, <1>1, <1>4 DEF Tracked
    <2>5. /\ \A i \in Slots : slots[i].state = "Running" => slots[i].inst \in up
          /\ \A i \in Slots : slots[i].state \in {"Registered", "Failed", "Stopped"} => slots[i].inst \notin up
      BY ONLY <2>1 DEF UpTold
    <2> QED BY ONLY <2>1, <2>2, <2>3, <2>4, <2>5, <1>4 DEF Scanned, IdsGiven, IdsApart, Taken
  <1>6. ServiceMax + 1 \in 1..(ServiceMax + 1)
    BY RegistryAssumption
  <1>7. UNCHANGED <<next_id, next_inst, bad_stop>>
    BY <1>2
  <1> QED BY <1>1, <1>2, <1>3, <1>5, <1>6, <1>7, ScanQuiet

LEMMA ShutdownReturnsQuiet ==
  ASSUME TypeInv, Quiet, NEW th \in SvcThreads, ShutdownReturns(th)
  PROVE  Quiet'
  <1> DEFINE k == calls[th].slot
             sl == [slots EXCEPT ![k].state = "Stopped"]
  <1>1. calls[th].op = "shutdown stopping" /\ calls[th].op \in Closers
    BY DEF ShutdownReturns, CanLock, Closers
  <1>2. /\ svc_initialized /\ \A u \in SvcThreads : u # th => calls[u].op = "idle"
        /\ slots[k].state = "Stopping" /\ calls[th].inst = slots[k].inst
        /\ \A j \in Slots : j > k => slots[j].state \notin {"Running", "Starting", "Stopping"}
    BY <1>1 DEF Quiet, ClosesAlone
  <1>3. k \in Slots /\ slots \in [Slots -> SlotRecord]
    BY <1>1 DEF TypeInv, CallOK, TableOK
  <1>4. \A i \in Slots : slots[i].state # "Starting" /\ (slots[i].state = "Stopping" => i = k)
    <2>1. \A u \in SvcThreads : calls[u].op \notin Starters /\ calls[u].op # "stopping"
      BY <1>1, <1>2 DEF Starters
    <2>2. \A u \in SvcThreads : calls[u].op \in Closers => u = th
      BY <1>2 DEF Closers
    <2>3. StartingCalled /\ StoppingCalled
      BY DEF Quiet
    <2> QED BY ONLY <2>1, <2>2, <2>3 DEF StartingCalled, StoppingCalled
  <1>5. /\ Scan(th, sl, k) /\ up' = up \ {slots[k].inst}
        /\ UNCHANGED <<next_id, next_inst, bad_stop>>
    BY <1>2 DEF ShutdownReturns
  <1>6. \A j \in Slots :
           /\ sl[j].id = slots[j].id /\ sl[j].inst = slots[j].inst
           /\ sl[j].state = IF j = k THEN "Stopped" ELSE slots[j].state
    BY <1>3 DEF SlotRecord
  <1>7. sl \in [Slots -> SlotRecord]
    <2>1. "Stopped" \in SvcState /\ slots[k] \in SlotRecord
      BY <1>3 DEF SvcState
    <2>2. [slots[k] EXCEPT !.state = "Stopped"] \in SlotRecord
      BY <2>1, StateSet
    <2> QED BY <1>3, <2>2
  <1>8. k \in 1..(ServiceMax + 1)
    BY <1>3, RegistryAssumption DEF Slots
  <1>9. \A i \in Slots : i >= k /\ i # k => i > k
    BY <1>3 DEF Slots
  <1>v. UNCHANGED <<next_id, next_inst, bad_stop>>
    BY <1>5
  <1>w. up' = up \ {slots[k].inst} /\ Scan(th, sl, k)
    BY <1>5
  <1> HIDE DEF k, sl
  <1>10. Scanned(sl, k, up')
    <2>1. IdsGiven /\ IdsApart /\ UpTold /\ Tracked
      BY DEF Quiet
    <2>2. \A x \in up' : \E i \in Slots : sl[i].inst = x /\ sl[i].state = "Running"
      <3> SUFFICES ASSUME NEW x \in up' PROVE \E i \in Slots : sl[i].inst = x /\ sl[i].state = "Running"
        OBVIOUS
      <3>1. x \in up /\ x # slots[k].inst
        BY <1>w
      <3>2. \A u \in SvcThreads : calls[u].op # "stopping"
        BY <1>1, <1>2
      <3>3. PICK i \in Slots : slots[i].inst = x /\ slots[i].state \in {"Running", "Stopping"}
        BY ONLY <2>1, <3>1, <3>2 DEF Tracked
      <3> QED BY <3>1, <3>3, <1>4, <1>6
    <2>3. \A i \in Slots : sl[i].state = "Running" => sl[i].inst \in up'
      BY ONLY <2>1, <1>2, <1>3, <1>6, <1>w DEF UpTold, IdsApart, Taken
    <2>4. \A i \in Slots : sl[i].state \in {"Registered", "Failed", "Stopped"} => sl[i].inst \notin up'
      BY ONLY <2>1, <1>6, <1>w DEF UpTold
    <2>5. /\ \A i \in Slots : sl[i].state \notin {"Starting", "Stopping"}
          /\ \A i \in Slots : i >= k => sl[i].state # "Running"
      BY ONLY <1>2, <1>4, <1>6, <1>9
    <2>6. /\ \A i \in Slots : sl[i].state # "Unregistered" =>
                sl[i].id \in 1..(next_id - 1) /\ sl[i].inst \in 1..next_inst
          /\ up' \subseteq 1..next_inst
      BY ONLY <2>1, <1>2, <1>3, <1>6, <1>w DEF IdsGiven, Taken
    <2>7. \A i, j \in Slots : sl[i].state # "Unregistered" /\ sl[j].state # "Unregistered" /\ i # j =>
             sl[i].id # sl[j].id /\ sl[i].inst # sl[j].inst
      BY ONLY <2>1, <1>2, <1>3, <1>6 DEF IdsApart, Taken
    <2> QED BY <2>2, <2>3, <2>4, <2>5, <2>6, <2>7 DEF Scanned
  <1> QED BY <1>2, <1>7, <1>8, <1>10, <1>v, <1>w, ScanQuiet

LEMMA ShutdownCallsQuiet ==
  ASSUME TypeInv, Quiet, NEW th \in SvcThreads, ShutdownCalls(th)
  PROVE  Quiet'
  <1> DEFINE k == calls[th].slot
  <1>1. calls[th].op = "shutdown" /\ calls[th].op \in Closers
    BY DEF ShutdownCalls, Closers
  <1>2. k \in Slots /\ calls \in [SvcThreads -> CallRecord]
    BY <1>1 DEF TypeInv, CallOK
  <1>3. slots[k].state = "Stopping" /\ \A u \in SvcThreads : u # th => calls[u].op = "idle"
    BY <1>1 DEF Quiet, ClosesAlone
  <1>4. slots[k].inst \in up
    BY <1>2, <1>3 DEF Quiet, UpTold
  <1>5. /\ calls' = [calls EXCEPT ![th].op = "shutdown stopping", ![th].inst = slots[k].inst]
        /\ bad_stop' = (bad_stop \/ slots[k].inst \notin up)
        /\ UNCHANGED <<slots, next_id, svc_initialized, next_inst, up>>
    BY DEF ShutdownCalls
  <1>6. /\ \A u \in SvcThreads : u # th => calls'[u] = calls[u]
        /\ calls'[th].op = "shutdown stopping" /\ calls'[th].inst = slots[k].inst
        /\ calls'[th].slot = k
    BY <1>2, <1>5 DEF CallRecord
  <1>7. ~bad_stop'
    BY <1>4, <1>5 DEF Quiet
  <1>8. UNCHANGED <<slots, next_id, svc_initialized, next_inst, up>>
    BY <1>5
  <1>9. /\ IdsGiven /\ IdsApart /\ UpTold /\ StartingCalled /\ StoppingCalled
        /\ ClosesAlone /\ DownIsEmpty /\ Tracked
    BY DEF Quiet
  <1>10. calls[th].slot = k
    OBVIOUS
  <1> HIDE DEF k
  <1>11. \A u \in SvcThreads : calls'[u].op \notin Movers /\ calls[u].op \notin Movers
    BY ONLY <1>1, <1>3, <1>6 DEF Movers
  <1>12. IdsGiven' /\ IdsApart' /\ UpTold'
    BY ONLY <1>8, <1>9, <1>11 DEF IdsGiven, IdsApart, UpTold, Taken
  <1>13. StartingCalled'
    BY ONLY <1>8, <1>9, <1>11 DEF StartingCalled, Starters, Movers
  <1>14. StoppingCalled'
    <2>1. calls'[th].op \in Closers
      BY <1>6 DEF Closers
    <2>2. \A j \in Slots : slots[j].state = "Stopping" => j = k
      <3>1. \A u \in SvcThreads : calls[u].op # "stopping" /\ (calls[u].op \in Closers => u = th)
        BY ONLY <1>1, <1>3 DEF Closers
      <3> QED BY ONLY <3>1, <1>9, <1>10 DEF StoppingCalled
    <2> QED BY ONLY <2>1, <2>2, <1>6, <1>8, th \in SvcThreads DEF StoppingCalled
  <1>15. StartsSound' /\ StopsSound' /\ CallsApart'
    BY ONLY <1>11 DEF StartsSound, StopsSound, CallsApart, Movers, Starters
  <1>16. ClosesAlone'
    <2>1. \A u \in SvcThreads : calls'[u].op \in Closers => u = th
      BY ONLY <1>3, <1>6 DEF Closers
    <2> QED BY ONLY <2>1, <1>1, <1>3, <1>6, <1>8, <1>9, <1>10 DEF ClosesAlone
  <1>17. DownIsEmpty'
    BY ONLY <1>1, <1>8, <1>9, th \in SvcThreads DEF DownIsEmpty, ClosesAlone
  <1>18. Tracked'
    BY ONLY <1>8, <1>9, <1>11 DEF Tracked, Movers
  <1> QED BY <1>7, <1>12, <1>13, <1>14, <1>15, <1>16, <1>17, <1>18 DEF Quiet

LEMMA RegistryInitQuiet ==
  ASSUME Quiet, NEW th \in SvcThreads, RegistryInit(th)
  PROVE  Quiet'
  <1>1. up = {} /\ \A u \in SvcThreads : calls[u].op = "idle"
    BY DEF Quiet, DownIsEmpty, RegistryInit
  <1>2. /\ slots' = [i \in Slots |-> Cleared] /\ svc_initialized' = TRUE
        /\ UNCHANGED <<calls, next_inst, up, bad_stop>>
    BY DEF RegistryInit
  <1>3. \A j \in Slots : slots'[j].state = "Unregistered"
    BY <1>2 DEF Cleared
  <1>4. \A u \in SvcThreads : calls'[u].op \notin Movers /\ calls'[u].op \notin Closers
    BY <1>1, <1>2 DEF Movers, Closers
  <1>5. up' = {} /\ svc_initialized'
    BY <1>1, <1>2
  <1>6. IdsGiven' /\ IdsApart'
    BY ONLY <1>3, <1>4, <1>5 DEF IdsGiven, IdsApart, Taken
  <1>7. UpTold' /\ StartingCalled' /\ StoppingCalled'
    BY ONLY <1>3 DEF UpTold, StartingCalled, StoppingCalled
  <1>8. StartsSound' /\ StopsSound' /\ CallsApart' /\ ClosesAlone'
    BY ONLY <1>4 DEF StartsSound, StopsSound, CallsApart, ClosesAlone, Movers, Starters
  <1>9. DownIsEmpty' /\ Tracked'
    BY ONLY <1>5 DEF DownIsEmpty, Tracked
  <1> QED BY <1>2, <1>6, <1>7, <1>8, <1>9 DEF Quiet

-----------------------------------------------------------------------------
LEMMA OverlapStays ==
  ASSUME TypeInv, SvcNext, ~overlapped'
  PROVE  ~overlapped
  BY DEF SvcNext, RegistryInit, Register, Unregister, Start, Stop, Client, StartSucceeds, StartFails,
         StartWakes, ReturnHoldingLock, StopReturns, Shutdown, ShutdownCalls, ShutdownReturns

LEMMA InvInit == SvcInit => RegistryInv
  <1> SUFFICES ASSUME SvcInit PROVE RegistryInv
    OBVIOUS
  <1>1. TypeInv
    <2>1. TableOK(slots)
      BY BlankOK DEF SvcInit
    <2>2. calls \in [SvcThreads -> CallRecord] /\ \A th \in SvcThreads : CallOK(calls[th])
      BY BlankOK DEF SvcInit, CallOK
    <2>3. /\ next_id = 1 /\ next_inst = 0 /\ svc_initialized = TRUE /\ lock_leaked = FALSE
          /\ up = {} /\ bad_stop = FALSE /\ overlapped = FALSE
      BY DEF SvcInit
    <2>4. next_id \in Nat /\ 1 <= next_id /\ next_id <= next_inst + 1 /\ next_inst \in Nat
          /\ next_inst <= MaxRegistrations
      BY <2>3, RegistryAssumption
    <2> QED BY <2>1, <2>2, <2>3, <2>4 DEF TypeInv
  <1>2. \A j \in Slots : slots[j].state = "Unregistered"
    BY DEF SvcInit, Cleared
  <1>3. \A u \in SvcThreads : calls[u].op \notin Movers /\ calls[u].op \notin Closers
    BY DEF SvcInit, SvcIdle, Call, Movers, Closers
  <1>4. up = {} /\ svc_initialized /\ ~bad_stop
    BY DEF SvcInit
  <1>5. IdsGiven /\ IdsApart
    BY ONLY <1>2, <1>3, <1>4 DEF IdsGiven, IdsApart, Taken
  <1>6. UpTold /\ StartingCalled /\ StoppingCalled
    BY ONLY <1>2 DEF UpTold, StartingCalled, StoppingCalled
  <1>7. StartsSound /\ StopsSound /\ CallsApart /\ ClosesAlone
    BY ONLY <1>3 DEF StartsSound, StopsSound, CallsApart, ClosesAlone, Movers, Starters
  <1>8. DownIsEmpty /\ Tracked
    BY ONLY <1>4 DEF DownIsEmpty, Tracked
  <1> QED BY <1>1, <1>4, <1>5, <1>6, <1>7, <1>8 DEF RegistryInv, Quiet

LEMMA InvStep == RegistryInv /\ [SvcNext]_svc_vars => RegistryInv'
  <1> SUFFICES ASSUME RegistryInv, [SvcNext]_svc_vars PROVE RegistryInv'
    OBVIOUS
  <1>1. TypeInv
    BY DEF RegistryInv
  <1>2. CASE UNCHANGED svc_vars
    <2>1. TypeInv'
      BY <1>1, <1>2 DEF svc_vars, TypeInv
    <2>2. ASSUME ~overlapped' PROVE Quiet'
      <3>1. Quiet
        BY <1>2, <2>2 DEF RegistryInv, svc_vars
      <3>2. UNCHANGED <<slots, next_id, svc_initialized, calls, next_inst, up, bad_stop>>
        BY <1>2 DEF svc_vars
      <3>3. IdsGiven' /\ IdsApart' /\ UpTold'
        BY ONLY <3>1, <3>2 DEF Quiet, IdsGiven, IdsApart, UpTold, Taken
      <3>4. StartingCalled' /\ StoppingCalled' /\ StartsSound'
        BY ONLY <3>1, <3>2 DEF Quiet, StartingCalled, StoppingCalled, StartsSound
      <3>5. StopsSound' /\ CallsApart' /\ ClosesAlone'
        BY ONLY <3>1, <3>2 DEF Quiet, StopsSound, CallsApart, ClosesAlone, Taken
      <3>6. DownIsEmpty' /\ Tracked'
        BY ONLY <3>1, <3>2 DEF Quiet, DownIsEmpty, Tracked, Taken
      <3> QED BY <3>1, <3>2, <3>3, <3>4, <3>5, <3>6 DEF Quiet
    <2> QED BY <2>1, <2>2 DEF RegistryInv
  <1>3. CASE SvcNext
    <2>1. TypeInv'
      BY <1>1, <1>3, TypeStep
    <2>2. ASSUME ~overlapped' PROVE Quiet'
      <3>1. Quiet
        BY <1>1, <1>3, <2>2, OverlapStays DEF RegistryInv
      <3>2. PICK th \in SvcThreads :
               \/ RegistryInit(th)
               \/ \E name \in Names, r \in Restarts : Register(th, name, r)
               \/ \E id \in 1..MaxRegistrations : Unregister(th, id) \/ Start(th, id) \/ Stop(th, id)
               \/ StartSucceeds(th) \/ StartFails(th) \/ StartWakes(th) \/ StopReturns(th)
               \/ Shutdown(th) \/ ShutdownCalls(th) \/ ShutdownReturns(th)
        BY <1>3 DEF SvcNext
      <3> QED
        BY <1>1, <2>2, <3>1, <3>2, RegistryInitQuiet, RegisterQuiet, UnregisterQuiet, StartQuiet,
           StopQuiet, StartSucceedsQuiet, StartFailsQuiet, StartWakesQuiet, StopReturnsQuiet,
           ShutdownQuiet, ShutdownCallsQuiet, ShutdownReturnsQuiet
    <2> QED BY <2>1, <2>2 DEF RegistryInv
  <1> QED BY <1>2, <1>3

LEMMA InvImplies == RegistryInv => ServicesSound
  <1> SUFFICES ASSUME RegistryInv PROVE ServicesSound
    OBVIOUS
  <1>1. SvcTypeOK
    <2>1. TypeInv
      BY DEF RegistryInv
    <2>2. /\ slots \in [Slots -> SlotRecord]
          /\ \A i \in Slots : slots[i].state = "Unregistered" => slots[i] = Cleared
      BY <2>1 DEF TypeInv, TableOK
    <2>3. \A th \in SvcThreads :
             /\ calls[th].op \in {"idle", "starting", "sleeping", "stopping", "shutdown", "shutdown stopping"}
             /\ calls[th].inst \in 0..MaxRegistrations /\ calls[th].slot \in 0..ServiceMax
      BY <2>1 DEF TypeInv, CallRecord
    <2>4. next_id \in 1..(MaxRegistrations + 1) /\ next_inst \in 0..MaxRegistrations
      BY <2>1, RegistryAssumption DEF TypeInv
    <2> QED BY <2>1, <2>2, <2>3, <2>4 DEF SvcTypeOK, TypeInv, SlotRecord
  <1>2. ASSUME Quiet PROVE UpIsTracked /\ StopOncePerStart /\ OneStarter
    <2>1. UpIsTracked
      BY <1>2 DEF Quiet, UpIsTracked, Tracked, UpTold
    <2>2. StopOncePerStart
      BY <1>2 DEF Quiet, StopOncePerStart
    <2>3. OneStarter
      <3>1. \A th \in SvcThreads : calls[th].op \in Starters => calls[th].inst \notin up
        BY <1>2 DEF Quiet, StartsSound, UpTold
      <3>2. CallsApart
        BY <1>2 DEF Quiet
      <3> QED BY ONLY <3>1, <3>2 DEF OneStarter, CallsApart, Movers, Starters
    <2> QED BY <2>1, <2>2, <2>3
  <1>3. ASSUME overlapped PROVE UpIsTracked /\ StopOncePerStart /\ OneStarter
    BY <1>3 DEF UpIsTracked, StopOncePerStart, OneStarter
  <1> QED BY <1>1, <1>2, <1>3 DEF ServicesSound, RegistryInv

(* However many threads register, start, stop, restart and unregister         *)
(* services and shut the registry down and initialise it again, in whatever   *)
(* order their callbacks return: as long as no shutdown overlaps another      *)
(* call, what is up has a slot that says so, a stop callback is called once   *)
(* per start, and a service has one starter (service_registry.c).             *)
THEOREM ServicesAreSound == SvcSpec => []ServicesSound
  <1>1. SvcInit => RegistryInv
    BY InvInit
  <1>2. RegistryInv /\ [SvcNext]_svc_vars => RegistryInv'
    BY InvStep
  <1>3. RegistryInv => ServicesSound
    BY InvImplies
  <1> QED BY <1>1, <1>2, <1>3, PTL DEF SvcSpec

(* A shutdown that nothing has overlapped leaves nothing up                   *)
(* (ify_service_registry_shutdown()).                                         *)
THEOREM ShutdownIsComplete == SvcSpec => ShutdownStopsAll
  <1>1. SvcInit => RegistryInv
    BY InvInit
  <1>2. RegistryInv /\ [SvcNext]_svc_vars => RegistryInv'
    BY InvStep
  <1>3. RegistryInv' => (~svc_initialized' /\ ~overlapped' => up' = {})
    BY DEF RegistryInv, Quiet, DownIsEmpty
  <1>4. RegistryInv /\ RegistryInv' /\ [SvcNext]_svc_vars =>
           [svc_initialized /\ ~svc_initialized' /\ ~overlapped' => up' = {}]_svc_vars
    BY <1>3
  <1> QED BY <1>1, <1>2, <1>4, PTL DEF SvcSpec, ShutdownStopsAll
================================================================================
