------------------------- MODULE SubscriptionSwitch -------------------------
(***************************************************************************)
(* The rule that moves a key of an account along a chain of subscriptions  *)
(* (src-tauri/src/application/subscription_switch_service.rs, its caller   *)
(* subscription_snapshot_service.rs, the key update of keys_service.rs).   *)
(*                                                                         *)
(* The position of the key is the group it has at the site, which nobody   *)
(* but the site keeps; the rule in the database says where the evaluator   *)
(* believes it to be.  Evaluations, edits and deletions of an account take *)
(* turns at its gate; who clears the data of the program, or removes the   *)
(* account, takes its rules away without it.  An evaluation of the         *)
(* scheduler brings the snapshot of the subscriptions it was started for   *)
(* and reads the keys from the cache, one that a user asks for (or the     *)
(* start of the program) reads both at the site.  The evaluator takes the  *)
(* rules of an account one after the other, each for itself: here there is *)
(* one.                                                                    *)
(*                                                                         *)
(* Of a subscription only the verdict of resolve_node_trigger_reason and   *)
(* has_evaluable_threshold_window is kept, of the rule what they decide    *)
(* on.  A group that is gone is a candidate like one whose subscription    *)
(* is, and fails an evaluation at the source like a key that has left the  *)
(* chain.                                                                  *)
(***************************************************************************)
EXTENDS Naturals, Sequences, SequencesExt

CONSTANTS Actors,      \* the callers of the service
          Groups,      \* the subscription groups of the account
          Settings,    \* bound: what users may save as the settings of the rule
          Quotas,      \* bound: what the subscriptions may be like at first
          MaxSaves,    \* bound: edits and deletions of the rule
          MaxChanges,  \* bound: changes at the site that the program does not make
          MaxFailures, \* bound: failures, lost answers, dropped callers, restarts, and rules that
                       \* are taken away without the gate
          Nothing, Elsewhere

Chain == {c \in SeqOf(Groups, 3) : Len(c) >= 2 /\ IsInjective(c)}

Setting == [chain : Chain, enabled : BOOLEAN, strict : BOOLEAN, restore : BOOLEAN]

Verdict == {"good", "triggered", "unknown"}

ASSUME SettingsType == Settings \subseteq Setting
ASSUME QuotasType == Quotas \subseteq [Groups -> Verdict]
ASSUME NothingIsNeither == Nothing \notin Groups \cup Actors /\ Elsewhere \notin Groups \cup {Nothing}

VARIABLES
  position,    \* site: the group of the key, or Elsewhere
  quota,       \* site: the verdict on the subscription of a group
  late,        \* site: the group that a request nobody waits for any more may still set, or Nothing
  registered,  \* database: the account is there
  rule,        \* database: the rule, or Nothing
  cache,       \* memory: the group of the key in the cached keys, or Nothing
  gate,        \* memory: who holds the account's gate, or Nothing
  actor,       \* memory: where an actor is
  chosen,      \* history: the settings that were saved last, or Nothing
  cleared,     \* history: those an evaluation knew as the rule was taken away under it, or Nothing
  saves, changes, failures

memory == <<cache, gate, actor>>
switchVars == <<position, quota, late, registered, rule, memory, chosen, cleared, saves, changes, failures>>

Place == Groups \cup {Elsewhere}

Optional(S) == S \cup {Nothing}

SwitchRule == [set : Setting, state : {"idle", "switched", "failed"}, active : Optional(Groups)]

Phase ==
  {"idle", "waiting", "reading", "moving", "moved", "saving", "failing", "refreshing", "editing"}

\* "forced" reads at the site; "next" is the rule that is to be saved after the move.
Actor == [phase : Phase, forced : BOOLEAN, copy : Optional(SwitchRule), next : Optional(SwitchRule),
          snapshot : Optional([Groups -> Verdict]), seen : Optional(Place)]

ASSUME NothingIsNoState ==
  Nothing \notin Setting /\ Nothing \notin SwitchRule /\ Nothing \notin [Groups -> Verdict]

SwitchTypeOK ==
  /\ position \in Place
  /\ quota \in [Groups -> Verdict]
  /\ late \in Optional(Groups)
  /\ registered \in BOOLEAN
  /\ rule \in Optional(SwitchRule)
  /\ cache \in Optional(Place)
  /\ gate \in Optional(Actors)
  /\ actor \in [Actors -> Actor]
  /\ chosen \in Optional(Setting) /\ cleared \in Optional(Setting)

Idle == [phase |-> "idle", forced |-> FALSE, copy |-> Nothing, next |-> Nothing, snapshot |-> Nothing, seen |-> Nothing]

\* resolve_runtime_position: what a rule says of a key that is in a group of its chain.
Told(set, group) ==
  IF group = set.chain[1] THEN [set |-> set, state |-> "idle", active |-> Nothing]
                          ELSE [set |-> set, state |-> "switched", active |-> group]

SwitchInit ==
  /\ chosen \in Settings
  /\ position = chosen.chain[1]
  /\ rule = Told(chosen, position) /\ registered = TRUE
  /\ cleared = Nothing
  /\ quota \in Quotas
  /\ late = Nothing
  /\ cache = Nothing /\ gate = Nothing
  /\ actor = [a \in Actors |-> Idle]
  /\ saves = 0 /\ changes = 0 /\ failures = 0

SiteStands == UNCHANGED <<position, quota, late, changes>>
Database == <<registered, rule, chosen, cleared, saves>>
OnlyTheRule == UNCHANGED <<registered, chosen, cleared, saves>>

\* What still runs for an account that is gone may fail wherever it is.
Failure ==
  IF registered THEN failures < MaxFailures /\ failures' = failures + 1 ELSE UNCHANGED failures

-----------------------------------------------------------------------------
(* The decision                                                             *)

At(chain, group) == CHOOSE n \in DOMAIN chain : chain[n] = group

\* find_first_eligible_chain_node: a candidate must be known to be good.
FirstEligible(candidates, verdicts) ==
  LET good == {n \in DOMAIN candidates : verdicts[candidates[n]] = "good"}
  IN IF good = {} THEN Nothing ELSE candidates[Min(good)]

\* Mutant: the scan ends at the end of the chain.
AfterOnly(chain, n) == SubSeq(chain, n + 1, Len(chain))

\* The other nodes, from the one after the current to the one before it.
Others(chain, n) == SubSeq(chain, n + 1, Len(chain)) \o SubSeq(chain, 1, n - 1)

\* The node the key is to move to, or Nothing.
Target(set, group, verdicts) ==
  LET chain == set.chain
      n == At(chain, group)
      earlier == IF set.strict THEN FirstEligible(SubSeq(chain, 1, n - 1), verdicts) ELSE Nothing
  IN CASE earlier # Nothing -> earlier
       [] n > 1 /\ ~set.strict /\ set.restore /\ verdicts[chain[1]] = "good" -> chain[1]
       [] OTHER -> IF verdicts[group] = "triggered"
                   THEN FirstEligible(Others(chain, n), verdicts)
                   ELSE Nothing

\* Mutant: a rule that has not failed is taken to be right.
UnmovedUnlessFailed(r, group, verdicts) ==
  CASE verdicts[group] = "unknown" \/ (verdicts[group] = "good" /\ r.state # "failed") -> r
    [] verdicts[group] = "good" -> Told(r.set, group)
    [] OTHER -> [Told(r.set, group) EXCEPT !.state = "failed"]

\* The rule after an evaluation that does not move the key.
Unmoved(r, group, verdicts) ==
  CASE verdicts[group] = "unknown" -> r
    [] verdicts[group] = "good" -> Told(r.set, group)
    [] OTHER -> [Told(r.set, group) EXCEPT !.state = "failed"]

-----------------------------------------------------------------------------
(* Actors                                                                   *)

Goes(a, phase) == actor' = [actor EXCEPT ![a].phase = phase]

\* The actor is done, well or badly, and lets go of the gate.
Leaves(a) ==
  /\ actor' = [actor EXCEPT ![a] = Idle]
  /\ gate' = IF gate = a THEN Nothing ELSE gate

Switching == rule # Nothing /\ rule.set.enabled

\* process_successful_snapshot: somebody has read the subscriptions ...
TakeSnapshot(a) ==
  /\ actor[a].phase = "idle" /\ Switching
  /\ actor' = [actor EXCEPT ![a].phase = "waiting", ![a].snapshot = quota]
  /\ SiteStands
  /\ UNCHANGED <<Database, cache, gate, failures>>

\* ... or a user, or the start of the program, asks for an evaluation.  Of an account that is
\* gone there is nothing to evaluate nor to edit.
Ask(a) ==
  /\ registered
  /\ actor[a].phase = "idle"
  /\ actor' = [actor EXCEPT ![a].phase = "waiting", ![a].forced = TRUE]
  /\ SiteStands
  /\ UNCHANGED <<Database, cache, gate, failures>>

\* Mutant: nobody waits for the gate.
EnterAtOnce(a) ==
  /\ actor[a].phase = "waiting"
  /\ IF rule = Nothing
     THEN Leaves(a)
     ELSE actor' = [actor EXCEPT ![a].phase = "reading", ![a].copy = rule] /\ gate' = a
  /\ SiteStands
  /\ UNCHANGED <<Database, cache, failures>>

\* The rules are read under the gate, before anything is read at the site.
Enter(a) ==
  /\ actor[a].phase = "waiting" /\ gate = Nothing
  /\ IF rule = Nothing
     THEN Leaves(a)
     ELSE actor' = [actor EXCEPT ![a].phase = "reading", ![a].copy = rule] /\ gate' = a
  /\ SiteStands
  /\ UNCHANGED <<Database, cache, failures>>

ReadSubscriptions(a) ==
  /\ actor[a].phase = "reading" /\ actor[a].snapshot = Nothing
  /\ actor' = [actor EXCEPT ![a].snapshot = quota]
  /\ SiteStands
  /\ UNCHANGED <<Database, cache, gate, failures>>

ReadKeys(a) ==
  /\ actor[a].phase \in {"reading", "editing"} /\ actor[a].seen = Nothing
  /\ LET keys == IF cache = Nothing \/ actor[a].forced THEN position ELSE cache
     IN actor' = [actor EXCEPT ![a].seen = keys] /\ cache' = keys
  /\ SiteStands
  /\ UNCHANGED <<Database, gate, failures>>

ReadFails(a) ==
  /\ Failure
  /\ actor[a].phase \in {"reading", "editing"}
  /\ Leaves(a)
  /\ SiteStands
  /\ UNCHANGED <<Database, cache>>

\* evaluate_single_rule, up to its first write.
Decide(a) ==
  LET r == actor[a].copy
      group == actor[a].seen
      verdicts == actor[a].snapshot
      target == Target(r.set, group, verdicts)
  IN
  /\ actor[a].phase = "reading" /\ group # Nothing /\ verdicts # Nothing
  /\ CASE ~r.set.enabled -> Leaves(a)
       [] r.set.enabled /\ group \notin Range(r.set.chain) -> Goes(a, "failing") /\ UNCHANGED gate
       [] OTHER ->
            IF target # Nothing
            THEN /\ actor' = [actor EXCEPT ![a].phase = "moving", ![a].next = Told(r.set, target)]
                 /\ UNCHANGED gate
            ELSE IF Unmoved(r, group, verdicts) = r
            THEN Leaves(a)
            ELSE /\ actor' = [actor EXCEPT ![a].phase = "saving", ![a].next = Unmoved(r, group, verdicts)]
                 /\ UNCHANGED gate
  /\ SiteStands
  /\ UNCHANGED <<Database, cache, failures>>

-----------------------------------------------------------------------------
(* The writes of an evaluation                                              *)

TargetOf(r) == IF r.active = Nothing THEN r.set.chain[1] ELSE r.active

\* The key is updated at the site, and the cached keys are invalidated.
Move(a) ==
  /\ actor[a].phase = "moving"
  /\ position' = TargetOf(actor[a].next)
  /\ cache' = Nothing
  /\ Goes(a, "moved")
  /\ UNCHANGED <<quota, late, changes, Database, gate, failures>>

\* What a request whose answer is not awaited any more may still do at the site.
Leftover(a) ==
  late' \in IF actor[a].phase = "moving" THEN {late, TargetOf(actor[a].next)} ELSE {late}

\* The site refuses, or carries it out and the answer is lost: nothing is invalidated.
MoveFails(a) ==
  /\ Failure
  /\ actor[a].phase = "moving"
  /\ Leftover(a)
  /\ Goes(a, "failing")
  /\ UNCHANGED <<position, quota, changes, Database, cache, gate>>

\* The row is inserted if it is not there any more, which a foreign key refuses for an account
\* that is gone.
Save(a) ==
  /\ registered
  /\ actor[a].phase \in {"moved", "saving"}
  /\ rule' = actor[a].next
  /\ IF actor[a].phase = "moved" THEN Goes(a, "refreshing") /\ UNCHANGED gate ELSE Leaves(a)
  /\ SiteStands /\ OnlyTheRule
  /\ UNCHANGED <<cache, failures>>

SaveFails(a) ==
  /\ Failure
  /\ actor[a].phase \in {"moved", "saving"}
  /\ Goes(a, "failing")
  /\ SiteStands
  /\ UNCHANGED <<Database, cache, gate>>

\* mark_rule_failed: the rule as it was read, wherever the key is by now.
MarkRuleFailed(a) ==
  /\ registered
  /\ actor[a].phase = "failing"
  /\ rule' = [actor[a].copy EXCEPT !.state = "failed"]
  /\ Leaves(a)
  /\ SiteStands /\ OnlyTheRule
  /\ UNCHANGED <<cache, failures>>

MarkRuleFails(a) ==
  /\ Failure
  /\ actor[a].phase = "failing"
  /\ Leaves(a)
  /\ SiteStands
  /\ UNCHANGED <<Database, cache>>

\* The keys are read again, if the site answers.
Refresh(a) ==
  /\ actor[a].phase = "refreshing"
  /\ cache' \in {cache, position}
  /\ Leaves(a)
  /\ SiteStands
  /\ UNCHANGED <<Database, failures>>

-----------------------------------------------------------------------------
(* Users                                                                    *)

BeginEdit(a) ==
  /\ registered
  /\ actor[a].phase = "idle" /\ gate = Nothing /\ saves < MaxSaves
  /\ saves' = saves + 1
  /\ actor' = [actor EXCEPT ![a].phase = "editing", ![a].forced = TRUE]
  /\ gate' = a
  /\ SiteStands
  /\ UNCHANGED <<registered, rule, chosen, cleared, cache, failures>>

\* upsert_subscription_switch_rule: the key has to be in the chain, and the rule begins
\* where the key is.
SaveSettings(a, set) ==
  /\ registered
  /\ actor[a].phase = "editing" /\ actor[a].seen \in Range(set.chain)
  /\ rule' = Told(set, actor[a].seen)
  /\ chosen' = set /\ cleared' = Nothing
  /\ Leaves(a)
  /\ SiteStands
  /\ UNCHANGED <<registered, saves, cache, failures>>

EditIsRefused(a) ==
  /\ actor[a].phase = "editing" /\ actor[a].seen # Nothing
  /\ Leaves(a)
  /\ SiteStands
  /\ UNCHANGED <<Database, cache, failures>>

EndEdit(a) == EditIsRefused(a) \/ \E set \in Settings : SaveSettings(a, set)

Delete(a) ==
  /\ registered
  /\ actor[a].phase = "idle" /\ gate = Nothing /\ saves < MaxSaves
  /\ saves' = saves + 1
  /\ rule' = Nothing /\ chosen' = Nothing /\ cleared' = Nothing
  /\ SiteStands
  /\ UNCHANGED <<registered, memory, failures>>

\* The settings of the rule that the holder of the gate has read.
Copied == IF gate = Nothing \/ actor[gate].copy = Nothing THEN Nothing ELSE actor[gate].copy.set

\* The rule is deleted whatever an evaluation is doing with it.
TakenAway ==
  /\ rule' = Nothing /\ chosen' = Nothing /\ cleared' = Copied
  /\ SiteStands
  /\ UNCHANGED <<memory, saves>>

\* clear_runtime_data, without the accounts: their rules are deleted.
ClearRules == Failure /\ TakenAway /\ UNCHANGED registered

\* The account is removed, or its site, or clear_runtime_data removes all of them: the rows of
\* the account are deleted with it.
AccountGoes == Failure /\ TakenAway /\ registered /\ registered' = FALSE

-----------------------------------------------------------------------------
(* The rest of the world                                                    *)

\* The caller hangs up: its future, and the gate with it, is dropped where it waits.
Drop(a) ==
  /\ Failure
  /\ actor[a].phase \in {"waiting", "reading", "moving", "refreshing", "editing"}
  /\ Leftover(a)
  /\ Leaves(a)
  /\ UNCHANGED <<position, quota, changes, Database, cache>>

Restart ==
  /\ Failure
  /\ \E a \in Actors : Leftover(a) /\ (gate # Nothing => a = gate)
  /\ actor' = [a \in Actors |-> Idle]
  /\ gate' = Nothing /\ cache' = Nothing
  /\ UNCHANGED <<position, quota, changes, Database>>

LateMove ==
  /\ late # Nothing
  /\ position' = late /\ late' = Nothing
  /\ UNCHANGED <<quota, changes, Database, memory, failures>>

Change == changes < MaxChanges /\ changes' = changes + 1

QuotaChanges ==
  /\ Change
  /\ \E g \in Groups, v \in Verdict : quota' = [quota EXCEPT ![g] = v]
  /\ UNCHANGED <<position, late, Database, memory, failures>>

\* Somebody moves the key on the pages of the site, to any group or to none.
KeyIsMoved ==
  /\ Change
  /\ position' \in Place
  /\ UNCHANGED <<quota, late, Database, memory, failures>>

CacheExpires ==
  /\ cache # Nothing
  /\ cache' = Nothing
  /\ SiteStands
  /\ UNCHANGED <<Database, gate, actor, failures>>

-----------------------------------------------------------------------------

Evaluate(a) ==
  \/ ReadSubscriptions(a) \/ ReadKeys(a) \/ Decide(a) \/ Move(a) \/ Save(a) \/ MarkRuleFailed(a) \/ Refresh(a)
  \/ EndEdit(a)

Fail(a) == ReadFails(a) \/ MoveFails(a) \/ SaveFails(a) \/ MarkRuleFails(a) \/ Drop(a)

SwitchNext ==
  \/ \E a \in Actors :
       \/ TakeSnapshot(a) \/ Ask(a) \/ Enter(a) \/ Evaluate(a) \/ Fail(a) \/ BeginEdit(a) \/ Delete(a)
  \/ ClearRules \/ AccountGoes \/ Restart \/ LateMove \/ QuotaChanges \/ KeyIsMoved \/ CacheExpires

SwitchSpec == SwitchInit /\ [][SwitchNext]_switchVars

\* The scheduler reads the subscriptions again and again, the gate lets its waiters in one
\* after the other, requests end and the cached keys expire.
SwitchFairness ==
  /\ \A a \in Actors : WF_switchVars(TakeSnapshot(a)) /\ SF_switchVars(Enter(a)) /\ WF_switchVars(Evaluate(a))
  /\ WF_switchVars(LateMove) /\ WF_switchVars(CacheExpires)

SwitchFairSpec == SwitchSpec /\ SwitchFairness

-----------------------------------------------------------------------------
(* Properties                                                               *)

InForce == IF chosen # Nothing THEN chosen ELSE cleared

\* An evaluation writes the whole rule it has read a while ago: it never brings back the
\* settings that a user has changed since, nor a rule that a user has deleted, nor one of an
\* account that is gone.  Only a rule that was cleared while an evaluation was at work may come
\* back, with the settings that it had, and be there until a user changes or deletes it.
SettingsAreTheUsers ==
  IF rule = Nothing THEN chosen = Nothing ELSE registered /\ rule.set = InForce

InChain == Switching /\ position \in Range(rule.set.chain)

AtSource == position = rule.set.chain[1]

\* Once the site and the users leave it alone, and whatever was lost, refused or stale
\* before, the key comes to rest where its rule wants it: it has not run out unless every
\* other subscription has, or may have; and nothing that the rule prefers is good.
KeyComesToRest ==
  <>[](InChain =>
         /\ quota[position] = "triggered" => \A g \in Range(rule.set.chain) : quota[g] # "good"
         /\ rule.set.strict =>
              \A n \in 1..At(rule.set.chain, position) - 1 : quota[rule.set.chain[n]] # "good"
         /\ rule.set.restore /\ ~rule.set.strict => AtSource \/ quota[rule.set.chain[1]] # "good")

\* ... and, unless the site does not tell the quota of the key's subscription, the rule then
\* says where the key is, though the two are written one after the other.
RuleTellsTheKey ==
  <>[](InChain /\ quota[position] # "unknown" =>
         /\ rule.active = IF AtSource THEN Nothing ELSE position
         /\ rule.state = IF quota[position] = "triggered" THEN "failed"
                         ELSE IF AtSource THEN "idle" ELSE "switched")

=============================================================================
