----------------------------- MODULE TenantGate -----------------------------
(***************************************************************************)
(* The check every OAuth grant makes of its tenant's state                 *)
(* (tenant_state.py): TenantStateGate.admits over the row that             *)
(* PostgresTenantState reads.  One gate object serves every request and    *)
(* its cache has no lock, so a verdict read long ago may be stored over a  *)
(* newer one.  One tenant; of the states that do not admit, suspended      *)
(* stands for all.                                                         *)
(***************************************************************************)
EXTENDS Integers

CONSTANTS
    AdmitTtl,    \* ADMIT_TTL_S
    RefuseTtl,   \* REFUSE_TTL_S
    MaxTime,     \* bound on the clock
    Worker,      \* threads that serve requests
    NoVerdict

State == {"live", "suspended"}
Reason == State \cup {"unknown"}

ASSUME TtlAssumption ==
    /\ AdmitTtl \in Nat /\ RefuseTtl \in Nat /\ MaxTime \in Nat
    /\ NoVerdict \notin [why : Reason, until : Nat]

VARIABLES
    state,     \* the tenant's state in public.tenants
    since,     \* when it last changed
    now,       \* the clock
    verdict,   \* the cached verdict
    ask,       \* ask[w]: what the gate does for worker w, or its last answer to it
    asked,     \* asked[w]: the now of its call
    why        \* why[w]: what its lookup found, or the reason of the answer

registry == <<state, since>>
call == <<ask, asked, why>>
gate == <<registry, now, verdict, call>>

Ask == {"none", "enter", "lookup", "store", "admit", "refuse"}
Verdict == [why : Reason, until : Nat]

\* admits: an allowlist of one.
Admits(s) == s = "live"

GateInit ==
    /\ state = "live"
    /\ since = 0
    /\ now = 0
    /\ verdict = NoVerdict
    /\ ask = [w \in Worker |-> "none"]
    /\ asked = [w \in Worker |-> 0]
    /\ why = [w \in Worker |-> "unknown"]

Tick ==
    /\ now < MaxTime
    /\ now' = now + 1
    /\ UNCHANGED <<registry, verdict, call>>

\* The operator suspends the tenant, or resumes it.
Switch ==
    /\ state' \in State \ {state}
    /\ since' = now
    /\ UNCHANGED <<now, verdict, call>>

Conclude(w, reason) ==
    /\ ask' = [ask EXCEPT ![w] = IF Admits(reason) THEN "admit" ELSE "refuse"]
    /\ why' = [why EXCEPT ![w] = reason]

\* Deliberately wrong: a cached verdict is believed whatever its age.
EnterUnaged(w) ==
    /\ ask[w] = "enter"
    /\ asked' = [asked EXCEPT ![w] = now]
    /\ IF verdict # NoVerdict
       THEN Conclude(w, verdict.why)
       ELSE ask' = [ask EXCEPT ![w] = "lookup"] /\ UNCHANGED why
    /\ UNCHANGED <<registry, now, verdict>>

\* The clock and the cache are read; a verdict in its time is the answer.
Enter(w) ==
    /\ ask[w] = "enter"
    /\ asked' = [asked EXCEPT ![w] = now]
    /\ IF verdict # NoVerdict /\ now < verdict.until
       THEN Conclude(w, verdict.why)
       ELSE ask' = [ask EXCEPT ![w] = "lookup"] /\ UNCHANGED why
    /\ UNCHANGED <<registry, now, verdict>>

\* Deliberately wrong: a lookup that fails is told as a suspension.
LookupBlaming(w) ==
    /\ ask[w] = "lookup"
    /\ why' \in {[why EXCEPT ![w] = state], [why EXCEPT ![w] = "suspended"]}
    /\ ask' = [ask EXCEPT ![w] = "store"]
    /\ UNCHANGED <<registry, now, verdict, asked>>

\* The SELECT, or its failure.
Lookup(w) ==
    /\ ask[w] = "lookup"
    /\ why' \in {[why EXCEPT ![w] = state], [why EXCEPT ![w] = "unknown"]}
    /\ ask' = [ask EXCEPT ![w] = "store"]
    /\ UNCHANGED <<registry, now, verdict, asked>>

\* The verdict is kept from the time of the call on, and longer if it admits.
StoreVerdict(w) ==
    /\ ask[w] = "store"
    /\ verdict' = [why |-> why[w],
                   until |-> asked[w] + IF Admits(why[w]) THEN AdmitTtl ELSE RefuseTtl]
    /\ Conclude(w, why[w])
    /\ UNCHANGED <<registry, now, asked>>

GateStep(w) == Enter(w) \/ Lookup(w) \/ StoreVerdict(w)

HangUp(w) ==
    /\ ask' = [ask EXCEPT ![w] = "none"]
    /\ asked' = [asked EXCEPT ![w] = 0]
    /\ why' = [why EXCEPT ![w] = "unknown"]

-----------------------------------------------------------------------------
GateTypeOK ==
    /\ state \in State
    /\ since \in Nat /\ now \in Nat
    /\ verdict \in Verdict \cup {NoVerdict}
    /\ ask \in [Worker -> Ask]
    /\ asked \in [Worker -> Nat]
    /\ why \in [Worker -> Reason]

\* What the time to live of an admission promises: a call made AdmitTtl after a
\* suspension, or later, does not admit, whichever verdicts overwrite each other.
SuspensionBites ==
    state = "suspended" => \A w \in Worker :
        ask[w] = "admit" => asked[w] <= since \/ asked[w] < since + AdmitTtl

\* A resumed tenant is told that it is suspended for RefuseTtl at most; a lookup that
\* failed is never told so (the docstring of refusal_reason).
ResumptionBites ==
    state = "live" => \A w \in Worker :
        ask[w] = "refuse" /\ why[w] = "suspended" =>
            asked[w] <= since \/ asked[w] < since + RefuseTtl
=============================================================================
