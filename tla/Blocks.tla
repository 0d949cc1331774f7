-------------------------------- MODULE Blocks --------------------------------
(* Blocks of ify-controller: BlockRegistry (registry.rs) takes a block from    *)
(* its registration to a runtime binding in four stages, BlockController       *)
(* (controller.rs) walks through its lifecycle, and TaskAllocator              *)
(* (task_allocator.rs) hands out the task ids that both are made with.         *)
(*                                                                             *)
(* All three are shared by threads.  A stage or a transition is made and       *)
(* logged in one critical section, of the registry's lock or the controller's, *)
(* except register_block(), which logs after it has unlocked.  The change and  *)
(* the entry are two steps: the log is read by others.  Ids are naturals, each *)
(* new one the next; languages, contents, configurations and times are dropped.*)
EXTENDS Integers, Sequences, FiniteSets, TLC

CONSTANTS
    Threads, Dimensions,
    Names,         \* names that task ids are derived from
    MaxBlocks,     \* bound: blocks registered
    MaxControllers,\* bound: controllers created
    MaxTasks,      \* bound: task ids handed out
    None

VARIABLES
    blocks,        \* BlockRegistry::blocks
    controllers,   \* the controllers by id: what Inner holds, and their dimension
    last,          \* TaskAllocator::last
    tasks,         \* the ids new() has made so far, 1..tasks
    doing,         \* per thread: the entry it has still to append, or None
    log,           \* the entries of the action log, oldest first
    passed         \* ghost: what each block and controller has been through

vars == <<blocks, controllers, last, tasks, doing, log, passed>>

ControllerState == {"Created", "Linked", "Isolated", "Disposed"}

BlockController(dim, task) ==
    [state |-> "Created", peer_dimension |-> None, dimension_id |-> dim, task_id |-> task]

(* A registered block: the id of its editor, the editor its interpreter is     *)
(* attached to, and its runtime binding.  A block has one editor at most: the  *)
(* editor's id is modelled by the block's.                                     *)
RegisteredBlock(dim, task) ==
    [dimension_id |-> dim, task_id |-> task, editor |-> None, interpreter |-> None, binding |-> None]

RuntimeBinding(id) ==
    [block_id |-> id, editor_id |-> blocks[id].editor, dimension_id |-> blocks[id].dimension_id,
     task_id |-> blocks[id].task_id]

Init ==
    /\ blocks = <<>> /\ controllers = <<>> /\ last = <<>> /\ tasks = 0
    /\ doing = [t \in Threads |-> None] /\ log = <<>> /\ passed = <<>>

-------------------------------------------------------------------------------
(* TaskAllocator: a registered dimension starts with an id of its own; to      *)
(* register it again changes nothing.                                          *)

Fresh(n) == <<"v4", n>>

RegisterDimension(t, dim) ==
    /\ doing[t] = None /\ tasks < MaxTasks
    /\ dim \notin DOMAIN last
    /\ last' = last @@ (dim :> Fresh(tasks + 1))
    /\ tasks' = tasks + 1
    /\ UNCHANGED <<blocks, controllers, doing, log, passed>>

NextTask(t, dim) ==
    /\ doing[t] = None /\ tasks < MaxTasks
    /\ dim \in DOMAIN last
    /\ last' = [last EXCEPT ![dim] = Fresh(tasks + 1)]
    /\ tasks' = tasks + 1
    /\ UNCHANGED <<blocks, controllers, doing, log, passed>>

(* derive(): the same id for the same dimension and name.                      *)
Derive(dim, name) == <<"v5", dim, name>>

TaskIds(dim) ==
    {Derive(dim, n) : n \in Names} \cup {last[d] : d \in DOMAIN last \cap {dim}}

-------------------------------------------------------------------------------
(* The steps of a thread.  An entry names what it is about: <<"block", id>> or *)
(* <<"controller", id>>; the first has the registry's lock, the second its own.*)

NoLock(what) == TRUE

Free(what) ==
    ~\E t \in Threads :
        /\ doing[t] # None /\ doing[t].locked
        /\ IF what[1] = "block" THEN doing[t].what[1] = "block" ELSE doing[t].what = what

Passed(what, event) ==
    (what :> Append(IF what \in DOMAIN passed THEN passed[what] ELSE <<>>, event)) @@ passed

(* t makes a change of `what` and has its entry still to append.               *)
Change(t, what, event, locked) ==
    /\ doing[t] = None
    /\ Free(what)
    /\ doing' = [doing EXCEPT ![t] = [what |-> what, event |-> event, locked |-> locked]]
    /\ passed' = Passed(what, event)
    /\ UNCHANGED <<last, tasks, log>>

(* The entry is appended, the lock released and the call returns.              *)
AppendEntry(t) ==
    /\ doing[t] # None
    /\ log' = Append(log, [what |-> doing[t].what, event |-> doing[t].event])
    /\ doing' = [doing EXCEPT ![t] = None]
    /\ UNCHANGED <<blocks, controllers, last, tasks, passed>>

(* Clients know an id once the call that made it has returned.                 *)
Known(what) == ~\E t \in Threads : doing[t] # None /\ doing[t].what = what /\ ~doing[t].locked

RegisterBlock(t, dim) ==
    LET id == Cardinality(DOMAIN blocks) + 1
    IN  /\ id <= MaxBlocks
        /\ \E task \in TaskIds(dim) : blocks' = blocks @@ (id :> RegisteredBlock(dim, task))
        /\ Change(t, <<"block", id>>, "ControllerRegistered", FALSE)
        /\ UNCHANGED controllers

Stage(t, id, event, field, value) ==
    /\ Known(<<"block", id>>)
    /\ blocks[id][field] = None
    /\ blocks' = [blocks EXCEPT ![id][field] = value]
    /\ Change(t, <<"block", id>>, event, TRUE)
    /\ UNCHANGED controllers

CreateEditor(t, id) == Stage(t, id, "EditorCreated", "editor", id)

AttachInterpreter(t, id) ==
    /\ blocks[id].editor # None
    /\ Stage(t, id, "InterpreterAttached", "interpreter", blocks[id].editor)

BindRuntime(t, id) ==
    /\ blocks[id].editor # None
    /\ blocks[id].interpreter # None
    /\ Stage(t, id, "RuntimeBound", "binding", RuntimeBinding(id))

(* create() logs before there is a controller that others could use.           *)
CreateController(t, dim) ==
    LET id == Cardinality(DOMAIN controllers) + 1
    IN  /\ doing[t] = None /\ id <= MaxControllers
        /\ \E task \in TaskIds(dim) :
              controllers' = controllers @@ (id :> BlockController(dim, task))
        /\ log' = Append(log, [what |-> <<"controller", id>>, event |-> "ControllerRegistered"])
        /\ passed' = Passed(<<"controller", id>>, "ControllerRegistered")
        /\ UNCHANGED <<blocks, last, tasks, doing>>

Transition(t, id, event, after) ==
    /\ controllers' = [controllers EXCEPT ![id] = after]
    /\ Change(t, <<"controller", id>>, event, TRUE)
    /\ UNCHANGED blocks

(* link(): the peer may be of the controller's own dimension or of another.    *)
Link(t, id, peer) ==
    /\ controllers[id].state = "Created"
    /\ Transition(t, id, "ControllerLinked",
                  [controllers[id] EXCEPT !.state = "Linked", !.peer_dimension = peer])

Isolate(t, id) ==
    /\ controllers[id].state = "Linked"
    /\ Transition(t, id, "ControllerIsolated", [controllers[id] EXCEPT !.state = "Isolated"])

Dispose(t, id) ==
    /\ controllers[id].state # "Disposed"
    /\ Transition(t, id, "ControllerDisposed", [controllers[id] EXCEPT !.state = "Disposed"])

Next ==
    \E t \in Threads :
        \/ \E dim \in Dimensions :
              RegisterDimension(t, dim) \/ NextTask(t, dim) \/ RegisterBlock(t, dim)
              \/ CreateController(t, dim)
        \/ \E id \in DOMAIN blocks : CreateEditor(t, id) \/ AttachInterpreter(t, id) \/ BindRuntime(t, id)
        \/ \E id \in DOMAIN controllers :
              \/ \E peer \in Dimensions : Link(t, id, peer)
              \/ Isolate(t, id) \/ Dispose(t, id)
        \/ AppendEntry(t)

Spec == Init /\ [][Next]_vars

-------------------------------------------------------------------------------
BlockStages == <<"ControllerRegistered", "EditorCreated", "InterpreterAttached", "RuntimeBound">>

(* What the log tells about one block or controller, in the log's order.       *)
EntriesOf(what) ==
    LET about == SelectSeq(log, LAMBDA e : e.what = what) IN [i \in DOMAIN about |-> about[i].event]

Pending(what) == {t \in Threads : doing[t] # None /\ doing[t].what = what}

(* However threads interleave, the log tells of every block and controller     *)
(* what it went through, in that order, and lacks at most the last event while *)
(* the call is still running; and a block went through a prefix of its stages, *)
(* its binding naming the block's own editor, dimension and task.              *)
LogFollowsBlocks ==
    /\ \A what \in DOMAIN passed :
          passed[what] = EntriesOf(what) \o (IF Pending(what) = {} THEN <<>>
                                             ELSE <<passed[what][Len(passed[what])]>>)
    /\ \A id \in DOMAIN blocks :
          /\ passed[<<"block", id>>] = SubSeq(BlockStages, 1, Len(passed[<<"block", id>>]))
          /\ blocks[id].binding # None => blocks[id].binding = RuntimeBinding(id)
================================================================================
