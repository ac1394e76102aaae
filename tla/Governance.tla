----------------------------- MODULE Governance -----------------------------
(* DeadManSwitch (agents/core/dead_man_switch.py): container panics in a sliding
   window; more than max_panics of them trip the switch, once, until it is armed
   again. The switch counts panics while it is disarmed or has tripped, too. *)
EXTENDS Naturals, Sequences, FiniteSets, FiniteSetsExt, SequencesExt, Functions

CONSTANTS MaxPanics,      \* max_panics
          Window,         \* window_minutes, in ticks
          MaxTime,        \* bound on the clock
          MaxRecorded     \* bound on the panics recorded

ASSUME SwitchAssumption == MaxPanics \in Nat /\ Window \in Nat

VARIABLES dmNow,       \* the clock
          dmPanics,    \* _panics: the times of the panics kept, oldest first
          dmArmed, dmTriggered,
          dmTriggers,  \* the last of _triggers, if any: its time and the times of its panics
          dmArmedAt,   \* history: when arm() was last called, the start at first
          dmLog        \* history: the times of all panics since then
dmVars == <<dmNow, dmPanics, dmArmed, dmTriggered, dmTriggers, dmArmedAt, dmLog>>

DeadManInit ==
  /\ dmNow = 0 /\ dmPanics = <<>> /\ dmArmed = TRUE /\ dmTriggered = FALSE
  /\ dmTriggers = {} /\ dmArmedAt = 0 /\ dmLog = <<>>

\* _prune_old: from the left, up to the first that is not too old.
TooOld(t) == t + Window < dmNow
FirstKept(panics) ==
  CHOOSE i \in 1 .. Len(panics) + 1 :
    (\A j \in 1 .. i - 1 : TooOld(panics[j])) /\ (i \in DOMAIN panics => ~TooOld(panics[i]))
Pruned(panics) == SubSeq(panics, FirstKept(panics), Len(panics))

\* The threshold of record_panic.
Trips(panics) == dmArmed /\ ~dmTriggered /\ Len(panics) > MaxPanics

\* record_panic, with _prune_old and _fire.
RecordPanic ==
  /\ Len(dmLog) < MaxRecorded
  /\ dmLog' = Append(dmLog, dmNow)
  /\ LET panics == Pruned(Append(dmPanics, dmNow)) IN
       /\ dmPanics' = panics
       /\ dmTriggered' = (dmTriggered \/ Trips(panics))
       /\ dmTriggers' = IF Trips(panics)
                        THEN {[at |-> dmNow, panics |-> panics]}
                        ELSE dmTriggers
  /\ UNCHANGED <<dmNow, dmArmed, dmArmedAt>>

\* panic_count, get_recent_panics and get_status prune as well.
ReadStatus ==
  /\ dmPanics' = Pruned(dmPanics)
  /\ UNCHANGED <<dmNow, dmArmed, dmTriggered, dmTriggers, dmArmedAt, dmLog>>

\* Mutant: the panics of before are kept.
ArmKeepsPanics == dmPanics
ArmedPanics == <<>>
Arm ==
  /\ dmArmed' = TRUE /\ dmTriggered' = FALSE /\ dmPanics' = ArmedPanics
  /\ dmArmedAt' = dmNow /\ dmLog' = <<>>
  /\ UNCHANGED <<dmNow, dmTriggers>>

Disarm ==
  /\ dmArmed' = FALSE
  /\ UNCHANGED <<dmNow, dmPanics, dmTriggered, dmTriggers, dmArmedAt, dmLog>>

DeadManTick ==
  /\ dmNow < MaxTime
  /\ dmNow' = dmNow + 1
  /\ UNCHANGED <<dmPanics, dmArmed, dmTriggered, dmTriggers, dmArmedAt, dmLog>>

DeadManNext == RecordPanic \/ ReadStatus \/ Arm \/ Disarm \/ DeadManTick
DeadManSpec == DeadManInit /\ [][DeadManNext]_dmVars

-----------------------------------------------------------------------------
\* Every trigger stands on more than max_panics panics that all lie in the window
\* before it (record_panic, _prune_old).
TriggerIsJustified ==
  \A trigger \in dmTriggers :
    /\ Len(trigger.panics) > MaxPanics
    /\ \A t \in ToSet(trigger.panics) : t + Window >= trigger.at

\* One trigger per arming, and no panic from before the arming, a maintenance
\* window say, counts towards it (arm, disarm).
OneTriggerPerArming ==
  [][dmTriggers' # dmTriggers =>
       /\ dmTriggered = FALSE
       /\ \A trigger \in dmTriggers' :
            IsSuffix(trigger.panics, dmLog') /\ \A t \in ToSet(trigger.panics) : t >= dmArmedAt]_dmVars

\* While the switch is armed and has not tripped, no burst has gone unnoticed: at
\* most max_panics of the panics since the arming lie within any one window.
\* (A burst that fell into disarmed time is forgotten by the arm() that ends it.)
NoBurstUnnoticed ==
  dmArmed /\ ~dmTriggered =>
    \A i \in DOMAIN dmLog : i + MaxPanics \in DOMAIN dmLog =>
      dmLog[i + MaxPanics] - dmLog[i] > Window

-----------------------------------------------------------------------------
(* SoftVetoGate (governance/soft_veto.py): intents near an ALIGN boundary wait
   for a human verdict until a sweep, which only the client calls, expires them.
   The level that the confidences of the rule matches add up to is an input. *)
CONSTANTS AutoExpire,     \* _auto_expire, in ticks
          MaxVetoTime,    \* bound on the clock
          MaxDecisions    \* bound on the decisions

ASSUME VetoAssumption == AutoExpire \in Nat

VARIABLES svNow,        \* the clock
          svDecisions,  \* _history: level, time, escalated, resolution
          svPending,    \* _pending: indices into svDecisions
          svSwept       \* history: when expire_stale was last called
svVars == <<svNow, svDecisions, svPending, svSwept>>

SoftVetoInit == svNow = 0 /\ svDecisions = <<>> /\ svPending = {} /\ svSwept = 0

\* evaluate
Evaluate(level) ==
  /\ Len(svDecisions) < MaxDecisions
  /\ svDecisions' = Append(svDecisions,
       [level |-> level, at |-> svNow, escalated |-> FALSE, resolution |-> ""])
  /\ svPending' = IF level = "soft_veto" THEN svPending \cup {Len(svDecisions) + 1} ELSE svPending
  /\ UNCHANGED <<svNow, svSwept>>

\* escalate: whoever holds the decision may call it, after the verdict as well.
Escalate(i) ==
  /\ svDecisions[i].level = "soft_veto"
  /\ svDecisions' = [svDecisions EXCEPT ![i].escalated = TRUE]
  /\ UNCHANGED <<svNow, svPending, svSwept>>

\* resolve: only a pending decision, however old.
Resolve(i, verdict) ==
  /\ i \in svPending
  /\ svDecisions' = [svDecisions EXCEPT ![i].resolution = verdict]
  /\ svPending' = svPending \ {i}
  /\ UNCHANGED <<svNow, svSwept>>

Stale(i) == svNow - svDecisions[i].at > AutoExpire
Swept == {i \in svPending : Stale(i)}
\* expire_stale
ExpireStale ==
  /\ svDecisions' = [i \in DOMAIN svDecisions |->
       IF i \in Swept THEN [svDecisions[i] EXCEPT !.resolution = "expired"]
       ELSE svDecisions[i]]
  /\ svPending' = svPending \ Swept
  /\ svSwept' = svNow
  /\ UNCHANGED svNow

SoftVetoTick ==
  /\ svNow < MaxVetoTime /\ svNow' = svNow + 1
  /\ UNCHANGED <<svDecisions, svPending, svSwept>>

SoftVetoNext ==
  \/ \E level \in {"pass", "soft_veto", "hard_block"} : Evaluate(level)
  \/ \E i \in DOMAIN svDecisions : Escalate(i)
  \/ \E i \in DOMAIN svDecisions, verdict \in {"approved", "denied"} : Resolve(i, verdict)
  \/ ExpireStale \/ SoftVetoTick
SoftVetoSpec == SoftVetoInit /\ [][SoftVetoNext]_svVars

-----------------------------------------------------------------------------
\* A verdict is final: a human's is never turned into "expired" by a later sweep,
\* nor an expired veto approved afterwards (resolve, expire_stale).
VerdictIsFinal ==
  [][\A i \in DOMAIN svDecisions : svDecisions[i].resolution # "" =>
       svDecisions'[i].resolution = svDecisions[i].resolution]_svVars

\* A veto is approved or denied after its deadline only if nobody swept since the
\* deadline passed: resolve() itself does not look at the age.
LateVerdictOnlyUnswept ==
  \A i \in DOMAIN svDecisions :
    i \in svPending /\ Stale(i) => svSwept - svDecisions[i].at <= AutoExpire

\* The two gates that stop agents act in time, once, and for good: the dead man's switch
\* on a burst of panics, the soft veto on a human's verdict or its own deadline.
GatesActInTime ==
  /\ [](TriggerIsJustified /\ NoBurstUnnoticed /\ LateVerdictOnlyUnswept)
  /\ OneTriggerPerArming /\ VerdictIsFinal

-----------------------------------------------------------------------------
(* ALSLogger.log (agents/core/logger.py): every entry hashes the hash of the
   entry before it, kept in one file that all threads and processes read and
   write without a lock.  A hash is modelled by what it commits to: the payloads
   from the seed on. *)
CONSTANTS Writers,     \* threads and processes that log
          Payloads,    \* event and data
          MaxEntries   \* bound on the entries

Seed == <<>>           \* _SEED_HASH
Idle == [at |-> "idle", parent |-> Seed, payload |-> "", disturbed |-> FALSE]

VARIABLES alsFile,     \* last_hash.txt
          alsCall,     \* per writer: the call it is in
          alsEntries   \* the entries in ring order, with a history flag
alsVars == <<alsFile, alsCall, alsEntries>>

AlsInit == alsFile = Seed /\ alsCall = [w \in Writers |-> Idle] /\ alsEntries = <<>>

Calls == {w \in Writers : alsCall[w].at # "idle"}
\* Every writer between its read and its append notes that the file changed.
Disturbing(w, at) ==
  [v \in Writers |-> IF v = w THEN [alsCall[w] EXCEPT !.at = at]
                     ELSE [alsCall[v] EXCEPT !.disturbed = @ \/ alsCall[v].at # "idle"]]

\* log, first part: _read_last_hash; an empty or unreadable file gives the seed.
ReadLastHash(w, payload, denied) ==
  /\ alsCall[w].at = "idle" /\ Len(alsEntries) + Cardinality(Calls) < MaxEntries
  /\ alsCall' = [alsCall EXCEPT ![w] =
       [at |-> "read", parent |-> IF denied THEN Seed ELSE alsFile, payload |-> payload,
        disturbed |-> denied \/ \E v \in Calls : alsCall[v].at # "appending"]]
  /\ UNCHANGED <<alsFile, alsEntries>>

\* _compute_trace_id
TraceId(parent, payload) == Append(parent, payload)

\* _write_last_hash: write_text truncates the file ...
Truncate(w) ==
  /\ alsCall[w].at = "read" /\ alsFile' = Seed
  /\ alsCall' = Disturbing(w, "writing") /\ UNCHANGED alsEntries
Written(w) == TraceId(alsCall[w].parent, alsCall[w].payload)
\* ... and then fills it.
Fill(w) ==
  /\ alsCall[w].at = "writing"
  /\ alsFile' = Written(w)
  /\ alsCall' = Disturbing(w, "appending") /\ UNCHANGED alsEntries
\* A write that fails is ignored: the chain goes on from the older entry.
WriteDenied(w) ==
  /\ alsCall[w].at = "read"
  /\ alsCall' = [alsCall EXCEPT ![w].at = "appending", ![w].disturbed = TRUE]
  /\ UNCHANGED <<alsFile, alsEntries>>

\* log, last part: the entry goes to the ring buffer (maxlen is out of reach here).
AppendEntry(w) ==
  /\ alsCall[w].at = "appending"
  /\ alsEntries' = Append(alsEntries,
       [id |-> TraceId(alsCall[w].parent, alsCall[w].payload),
        parent |-> alsCall[w].parent, disturbed |-> alsCall[w].disturbed])
  /\ alsCall' = [alsCall EXCEPT ![w] = Idle] /\ UNCHANGED alsFile

AlsNext ==
  \E w \in Writers :
    \/ \E payload \in Payloads, denied \in BOOLEAN : ReadLastHash(w, payload, denied)
    \/ Truncate(w) \/ Fill(w) \/ WriteDenied(w) \/ AppendEntry(w)
AlsSpec == AlsInit /\ [][AlsNext]_alsVars

-----------------------------------------------------------------------------
Pending == {w \in Writers : alsCall[w].at = "appending"}
PendingId(w) == TraceId(alsCall[w].parent, alsCall[w].payload)
DisturbedIds ==
  {e.id : e \in {f \in Range(alsEntries) : f.disturbed}}
    \cup {PendingId(w) : w \in {v \in Pending : alsCall[v].disturbed}}

\* Two entries with one parent hash are a fork: one of the two calls overlapped
\* another or met a file error, or such a call started the stretch of chain that
\* both repeat.  Sequential logging with a working file is one chain.
ForksAreExplained ==
  \A i, j \in DOMAIN alsEntries :
    i # j /\ alsEntries[i].parent = alsEntries[j].parent =>
      \/ alsEntries[i].disturbed \/ alsEntries[j].disturbed
      \/ \E id \in DisturbedIds : IsPrefix(id, alsEntries[i].parent)

\* An entry never names a parent that no call has computed: what the file holds
\* is the seed or the hash of an entry that is, or is about to be, in the ring.
NoDanglingParent ==
  \A e \in Range(alsEntries) :
    \/ e.parent = Seed
    \/ \E f \in Range(alsEntries) : f.id = e.parent
    \/ \E w \in Pending : PendingId(w) = e.parent

-----------------------------------------------------------------------------
(* AlignLedger (governance/align_ledger.py): safety rules, proposals that wait for
   a human, and the audit trail, kept in memory and saved to a file. *)
CONSTANTS RuleIds,        \* the rules that may be added
          LedgerChanges,  \* changes dicts: sequences of <<field, value>>
          MaxProposals,   \* bound on the proposals
          MaxAudit,       \* bound on the audit trail
          MaxVersion      \* bound on the versions of a rule

VARIABLES ldRules,      \* _rules: id -> enforcement, active, version
          ldProposals,  \* _proposals
          ldAudit,      \* _audit_trail
          ldFile        \* the saved rules, or none
ldVars == <<ldRules, ldProposals, ldAudit, ldFile>>

LedgerInit == ldRules = <<>> /\ ldProposals = <<>> /\ ldAudit = <<>> /\ ldFile = <<>>

Put(r, rule) == [q \in DOMAIN ldRules \cup {r} |-> IF q = r THEN rule ELSE ldRules[q]]
Without(r) == [q \in DOMAIN ldRules \ {r} |-> ldRules[q]]
\* Mutant: enabling a rule leaves no entry.
AuditedButEnabling(what, r) ==
  IF what = "enabled" THEN UNCHANGED ldAudit ELSE ldAudit' = Append(ldAudit, [action |-> what, rule |-> r])
Audited(what, r) == ldAudit' = Append(ldAudit, [action |-> what, rule |-> r])

\* add_rule: directly, whoever calls it.
AddRule(r, mode) ==
  /\ r \notin DOMAIN ldRules
  /\ ldRules' = Put(r, [enforcement |-> mode, active |-> TRUE, version |-> 1])
  /\ Audited("created", r) /\ UNCHANGED <<ldProposals, ldFile>>

Disabled(rule) == [rule EXCEPT !.active = FALSE, !.enforcement = "disabled"]
\* disable_rule
DisableRule(r) ==
  /\ r \in DOMAIN ldRules /\ ldRules' = Put(r, Disabled(ldRules[r]))
  /\ Audited("disabled", r) /\ UNCHANGED <<ldProposals, ldFile>>
\* enable_rule: the rule comes back as BLOCK, whatever it was.
EnableRule(r) ==
  /\ r \in DOMAIN ldRules
  /\ ldRules' = Put(r, [ldRules[r] EXCEPT !.active = TRUE, !.enforcement = "block"])
  /\ Audited("enabled", r) /\ UNCHANGED <<ldProposals, ldFile>>

\* propose_change: "create" is accepted for a rule that does not exist.
Propose(r, action, changes) ==
  /\ Len(ldProposals) < MaxProposals /\ (action # "create" => r \in DOMAIN ldRules)
  /\ ldProposals' = Append(ldProposals,
       [rule |-> r, action |-> action, changes |-> changes, status |-> "pending", raised |-> FALSE])
  /\ Audited("proposed", r) /\ UNCHANGED <<ldRules, ldFile>>

\* The changes are made one after the other, a field that the rule does not have is passed
\* over, and the first value that no Enum has raises.
Bad(change) == change[1] \in {"enforcement", "severity"} /\ change[2] = "no such value"
Fails(changes) == \E k \in DOMAIN changes : Bad(changes[k])
Made(changes, field) ==
  {k \in DOMAIN changes : changes[k][1] = field /\ \A j \in 1 .. k : ~Bad(changes[j])}
Changed(rule, changes) ==
  [field \in DOMAIN rule |->
     LET made == Made(changes, field) IN IF made = {} THEN rule[field] ELSE changes[Max(made)][2]]

\* _apply_proposal: does it raise, and the rules it leaves.  A delete of a rule
\* that is gone, and a create, change nothing and do not raise.
Raises(p) == /\ p.action \in {"update", "disable"}
             /\ p.rule \notin DOMAIN ldRules \/ (p.action = "update" /\ Fails(p.changes))
Applied(p) ==
  IF p.action = "create" \/ p.rule \notin DOMAIN ldRules THEN ldRules
  ELSE CASE p.action = "delete" -> Without(p.rule)
         [] p.action = "disable" -> Put(p.rule, Disabled(ldRules[p.rule]))
         [] OTHER -> LET rule == Changed(ldRules[p.rule], p.changes)
                     IN Put(p.rule, IF Raises(p) THEN rule
                                    ELSE [rule EXCEPT !.version = @ + 1])

\* disable_rule makes an entry of its own.
Approval(p) ==
  IF Raises(p) THEN <<>>
  ELSE (IF p.action = "disable" THEN <<[action |-> "disabled", rule |-> p.rule]>> ELSE <<>>)
       \o <<[action |-> "approved", rule |-> p.rule]>>
\* approve_proposal: the status is set before the change is tried.
Approve(i) ==
  LET p == ldProposals[i] IN
  /\ p.status = "pending"
  /\ p.rule \in DOMAIN ldRules => ldRules[p.rule].version < MaxVersion
  /\ ldProposals' = [ldProposals EXCEPT ![i].status = "approved", ![i].raised = Raises(p)]
  /\ ldRules' = Applied(p)
  /\ ldAudit' = ldAudit \o Approval(p)
  /\ UNCHANGED ldFile

\* reject_proposal
Reject(i) ==
  /\ ldProposals[i].status = "pending"
  /\ ldProposals' = [ldProposals EXCEPT ![i].status = "rejected"]
  /\ Audited("rejected", ldProposals[i].rule) /\ UNCHANGED <<ldRules, ldFile>>

\* save
SaveLedger == ldFile' = <<ldRules>> /\ UNCHANGED <<ldRules, ldProposals, ldAudit>>
\* load, in a process that starts: proposals and audit trail are not read back.
LoadLedger ==
  /\ ldFile # <<>> /\ ldRules' = ldFile[1]
  /\ ldProposals' = <<>> /\ ldAudit' = <<>> /\ UNCHANGED ldFile

LedgerNext ==
  /\ Len(ldAudit) < MaxAudit
  /\ \/ \E r \in RuleIds : (\E m \in {"block", "warn"} : AddRule(r, m)) \/ DisableRule(r) \/ EnableRule(r)
     \/ \E r \in RuleIds, a \in {"update", "disable", "delete", "create"}, c \in LedgerChanges :
          (a = "update" \/ c = <<>>) /\ Propose(r, a, c)
     \/ \E i \in DOMAIN ldProposals : Approve(i) \/ Reject(i)
     \/ SaveLedger \/ LoadLedger
LedgerSpec == LedgerInit /\ [][LedgerNext]_ldVars

-----------------------------------------------------------------------------
\* No rule changes without a new entry about it in the trail ("every rule change is
\* logged"), except an approved update that raises half-way: the fields before the bad value
\* are changed, the trail is not, nor the version, unless it is such a field; and a reload.
RaisedHalfWay(p, q) == ~p.raised /\ q.raised
NoSilentChange ==
  [][\A r \in RuleIds :
       (r \in DOMAIN ldRules) # (r \in DOMAIN ldRules') \/ (r \in DOMAIN ldRules /\ ldRules[r] # ldRules'[r]) =>
         \/ LoadLedger
         \/ Len(ldAudit') > Len(ldAudit) /\ Last(ldAudit').rule = r
         \/ \E i \in DOMAIN ldProposals :
              /\ ldProposals[i].rule = r /\ RaisedHalfWay(ldProposals[i], ldProposals'[i])
              /\ r \in DOMAIN ldRules'
              /\ \/ ldRules'[r].version = ldRules[r].version
                 \/ Made(ldProposals[i].changes, "version") # {}]_ldVars

\* A proposal stays APPROVED without its entry in the trail only when applying it
\* raised; such a proposal can be neither approved again nor rejected.
ApprovalsAreAudited ==
  \A r \in RuleIds :
    Cardinality({i \in DOMAIN ldProposals : /\ ldProposals[i].rule = r /\ ldProposals[i].status = "approved"
                                            /\ ~ldProposals[i].raised})
      = Cardinality({i \in DOMAIN ldAudit : ldAudit[i] = [action |-> "approved", rule |-> r]})

\* Both audit trails are complete: whatever forks the hash chain or hides a parent is a
\* race of two writers, and no rule of the ledger changes without an entry.
AuditIsComplete ==
  [](ForksAreExplained /\ NoDanglingParent /\ ApprovalsAreAudited) /\ NoSilentChange
=============================================================================
