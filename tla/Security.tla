------------------------------- MODULE Security -------------------------------
(* The services of ify-security that keep state: the policy engine             *)
(* (policy.rs), the sandbox (sandbox.rs), principals and what they may access  *)
(* (identity.rs), and the audit log of privileged actions (audit.rs).          *)
(*                                                                             *)
(* The first three are used through &mut or &; the audit log is shared by      *)
(* threads under a lock, and all append to one action log.  Resources and paths*)
(* are sequences of components.  Messages, timestamps and payloads are dropped;*)
(* a record's hash is modelled by what it is computed from, so that different  *)
(* records have different hashes.                                              *)
EXTENDS Integers, SequencesExt

CONSTANTS
    Threads,
    Rules,         \* the rules by id
    Requests,      \* the requests that are evaluated
    Profiles, Accesses, Tools,
    Principals,    \* the principals by id: [name, capabilities]
    MaxRecords,    \* bound: records made
    MaxEntries,    \* bound: entries of the action log
    None

VARIABLES
    rules,         \* PolicyEngine::rules, the ids in their order
    added,         \* ghost: the ids that were added and not removed since
    profiles,      \* SandboxPolicy::profiles
    principals,    \* IdentityRegistry::principals, by id
    records,       \* PrivilegedAuditLog::records
    recording,     \* per thread: the record it makes under the lock, or None
    made,          \* the ids of records made so far, 1..made
    log            \* the action log

vars == <<rules, added, profiles, principals, records, recording, made, log>>

policy_vars == <<rules, added>>

-------------------------------------------------------------------------------
(* Policies.                                                                   *)

Decision == {"Allow", "Deny"}

PolicyRule(conditions, decision, priority) ==
    [conditions |-> conditions, decision |-> decision, priority |-> priority]

PolicyRequest(id, kind, action, resource, context) ==
    [principal_id |-> id, principal_kind |-> kind, action |-> action, resource |-> resource,
     context |-> context]

ConditionMatches(c, req) ==
    CASE c.is = "PrincipalIs"        -> req.principal_id = c.value
      [] c.is = "PrincipalKindIs"    -> req.principal_kind = c.value
      [] c.is = "ActionIs"           -> req.action = c.value
      [] c.is = "ResourceStartsWith" -> IsPrefix(c.value, req.resource)
      [] c.is = "ResourceIs"         -> req.resource = c.value
      [] c.is = "ContextEquals"      -> c.key \in DOMAIN req.context /\ req.context[c.key] = c.value

RuleMatches(r, req) == \A c \in Rules[r].conditions : ConditionMatches(c, req)

(* sort_by_key() is stable: rules of one priority keep their order.            *)
SortByPriority(s) ==
    LET priorities == SetToSortSeq({Rules[r].priority : r \in ToSet(s)}, <)
        of(p) == SelectSeq(s, LAMBDA r : Rules[r].priority = p)
    IN  FlattenSeq([i \in DOMAIN priorities |-> of(priorities[i])])

InsertUnsorted(s, r) == Append(s, r)

Insert(s, r) == SortByPriority(Append(s, r))

AddRule(r) ==
    /\ ~\E i \in DOMAIN rules : rules[i] = r
    /\ rules' = Insert(rules, r)
    /\ added' = added \cup {r}
    /\ UNCHANGED <<profiles, principals, records, recording, made, log>>

RemoveRule(r) ==
    /\ \E i \in DOMAIN rules : rules[i] = r
    /\ rules' = SelectSeq(rules, LAMBDA q : q # r)
    /\ added' = added \ {r}
    /\ UNCHANGED <<profiles, principals, records, recording, made, log>>

(* The rule that decides a request, or None.                                   *)
Matching(req) == SelectSeq(rules, LAMBDA r : RuleMatches(r, req))

DecidedBy(req) == IF Matching(req) = <<>> THEN None ELSE Head(Matching(req))

DecisionOn(req) == IF DecidedBy(req) = None THEN "Deny" ELSE Rules[DecidedBy(req)].decision

Entry(is, about) == [is |-> is, about |-> about]

LogEntry(e) == Len(log) < MaxEntries /\ log' = Append(log, e)

(* evaluate(): a denial is logged, whether by a rule or by default.            *)
Evaluate(req) ==
    /\ IF DecisionOn(req) = "Deny" THEN LogEntry(Entry("AccessDenied", DecidedBy(req))) ELSE UNCHANGED log
    /\ UNCHANGED <<policy_vars, profiles, principals, records, recording, made>>

-------------------------------------------------------------------------------
(* The sandbox.                                                                *)

DenyAll ==
    [allowed_paths |-> {}, allowed_hosts |-> {}, allowed_models |-> {},
     allow_fs_write |-> FALSE, allow_network |-> FALSE]

WithPath(p, prefix) == [p EXCEPT !.allowed_paths = @ \cup {prefix}]

WithHost(p, host) == [p EXCEPT !.allow_network = TRUE, !.allowed_hosts = @ \cup {host}]

WithModel(p, model) == [p EXCEPT !.allowed_models = @ \cup {model}]

WithFsWrite(p) == [p EXCEPT !.allow_fs_write = TRUE]

RegisterProfile(tool, p) ==
    /\ profiles' = [profiles EXCEPT ![tool] = p]
    /\ UNCHANGED <<policy_vars, principals, records, recording, made, log>>

(* check_inner(): what a profile allows.                                       *)
Allowed(p, access) ==
    CASE access.is = "Path" ->
            /\ \E prefix \in p.allowed_paths : IsPrefix(prefix, access.path)
            /\ access.write => p.allow_fs_write
      [] access.is = "Host"  -> p.allow_network /\ access.host \in p.allowed_hosts
      [] access.is = "Model" -> access.model \in p.allowed_models

(* check(): a refusal is logged, the lack of a profile is not.                 *)
Check(tool, access) ==
    /\ IF profiles[tool] # None /\ ~Allowed(profiles[tool], access)
       THEN LogEntry(Entry("SandboxViolation", tool)) ELSE UNCHANGED log
    /\ UNCHANGED <<policy_vars, profiles, principals, records, recording, made>>

-------------------------------------------------------------------------------
(* Principals.  register() refuses a name that is taken.                       *)

RequiredByResource ==
    [Secret |-> "READ_SECRETS", Artifact |-> "READ_ARTIFACTS", Node |-> "READ_ARTIFACTS",
     Deployment |-> "DEPLOY", Model |-> "INVOKE_MODEL", Blockchain |-> "INVOKE_TOOLS",
     AdminConfig |-> "ADMIN"]

MayAccess(p, resource) == RequiredByResource[resource] \in Principals[p].capabilities

RegisterPrincipal(p) ==
    /\ ~\E q \in principals : Principals[q].name = Principals[p].name
    /\ principals' = principals \cup {p}
    /\ UNCHANGED <<policy_vars, profiles, records, recording, made, log>>

Deregister(p) ==
    /\ principals' = principals \ {p}
    /\ UNCHANGED <<policy_vars, profiles, records, recording, made, log>>

-------------------------------------------------------------------------------
(* The audit log.  record() checks the capability and makes the record's id    *)
(* before it locks; under the lock it reads the last hash, appends to the      *)
(* action log and then stores the record.                                      *)

RequiredByAction ==
    [ReadSecret |-> "READ_SECRETS", Deploy |-> "DEPLOY", CapabilityChange |-> "ADMIN",
     AdminChange |-> "ADMIN", MarketplacePublish |-> "PUBLISH_MARKETPLACE"]

EventOf ==
    [ReadSecret |-> "PrivilegedReadSecret", Deploy |-> "PrivilegedDeploy",
     CapabilityChange |-> "PrivilegedCapabilityChange", AdminChange |-> "PrivilegedAdminChange",
     MarketplacePublish |-> "PrivilegedMarketplacePublish"]

(* compute_hash() over the fields of a record.                                 *)
HashOf(record_id, kind, actor, prev) == [id |-> record_id, kind |-> kind, actor |-> actor, prev |-> prev]

AuditRecord(id, kind, actor, prev) ==
    [record_id |-> id, kind |-> kind, actor |-> actor, prev_hash |-> prev,
     hash |-> HashOf(id, kind, actor, prev)]

LastHash == IF records = <<>> THEN None ELSE records[Len(records)].hash

LockIgnored == TRUE

LockFree == \A t \in Threads : recording[t] = None

(* A principal is looked up and its capabilities are passed to record().       *)
BeginRecord(t, p, kind) ==
    /\ recording[t] = None /\ made < MaxRecords
    /\ p \in principals
    /\ RequiredByAction[kind] \in Principals[p].capabilities
    /\ LockFree
    /\ recording' = [recording EXCEPT
                        ![t] = [record |-> AuditRecord(made + 1, kind, p, LastHash), logged |-> FALSE]]
    /\ made' = made + 1
    /\ UNCHANGED <<policy_vars, profiles, principals, records, log>>

AppendEntry(t) ==
    /\ recording[t] # None /\ ~recording[t].logged
    /\ log' = Append(log, Entry(EventOf[recording[t].record.kind], recording[t].record.record_id))
    /\ recording' = [recording EXCEPT ![t].logged = TRUE]
    /\ UNCHANGED <<policy_vars, profiles, principals, records, made>>

StoreRecord(t) ==
    /\ recording[t] # None /\ recording[t].logged
    /\ records' = Append(records, recording[t].record)
    /\ recording' = [recording EXCEPT ![t] = None]
    /\ UNCHANGED <<policy_vars, profiles, principals, made, log>>

(* verify_chain().                                                             *)
VerifyChain ==
    \A i \in DOMAIN records :
        LET r == records[i]
        IN  /\ r.hash = HashOf(r.record_id, r.kind, r.actor, r.prev_hash)
            /\ r.prev_hash = IF i = 1 THEN None ELSE records[i - 1].hash

-------------------------------------------------------------------------------
Init ==
    /\ rules = <<>> /\ added = {} /\ profiles = [t \in Tools |-> None] /\ principals = {}
    /\ records = <<>> /\ recording = [t \in Threads |-> None] /\ made = 0 /\ log = <<>>

PolicyNext ==
    \/ \E r \in DOMAIN Rules : AddRule(r) \/ RemoveRule(r)
    \/ \E req \in Requests : Evaluate(req)

SandboxNext ==
    \E tool \in Tools :
        \/ \E p \in Profiles : RegisterProfile(tool, p)
        \/ \E access \in Accesses : Check(tool, access)

AuditNext ==
    \/ \E p \in DOMAIN Principals : RegisterPrincipal(p) \/ Deregister(p)
    \/ \E t \in Threads :
          \/ \E p \in DOMAIN Principals, kind \in DOMAIN RequiredByAction : BeginRecord(t, p, kind)
          \/ AppendEntry(t) \/ StoreRecord(t)

Next == PolicyNext \/ SandboxNext \/ AuditNext

Spec == Init /\ [][Next]_vars

-------------------------------------------------------------------------------
(* After any additions and removals of rules, evaluate() follows a rule that   *)
(* was added, still stands and matches, and none of those has a lower          *)
(* priority; and it denies a request that none of them matches.  Which of      *)
(* several rules of that priority it follows is left open, as policy.rs does.  *)
LeastPriorityDecides ==
    \A req \in Requests :
        LET matching == {r \in added : RuleMatches(r, req)}
            least == {r \in matching : \A q \in matching : Rules[r].priority <= Rules[q].priority}
        IN  IF matching = {} THEN DecidedBy(req) = None /\ DecisionOn(req) = "Deny"
            ELSE DecidedBy(req) \in least /\ DecisionOn(req) = Rules[DecidedBy(req)].decision

(* However threads interleave, the chain of records verifies, and the action   *)
(* log tells of privileged actions in the order of the chain: the one record   *)
(* that is logged and not yet stored is the next of the chain.                 *)
ChainHolds ==
    LET logged == SelectSeq(log, LAMBDA e : e.is \in Range(EventOf))
        ids == [i \in DOMAIN logged |-> logged[i].about]
        stored == [i \in DOMAIN records |-> records[i].record_id]
        open == {t \in Threads : recording[t] # None /\ recording[t].logged}
    IN  /\ VerifyChain
        /\ IF open = {} THEN ids = stored
           ELSE \E t \in open : ids = Append(stored, recording[t].record.record_id)

(* No two registered principals have the same name.                            *)
NamesUnique ==
    \A p, q \in principals : Principals[p].name = Principals[q].name => p = q
================================================================================
