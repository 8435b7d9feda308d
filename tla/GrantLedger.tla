---------------------------- MODULE GrantLedger ----------------------------
(***************************************************************************)
(* What the token endpoint promises about authorization codes and refresh  *)
(* tokens, whatever requests, expiries and suspensions overlap: a grant is *)
(* issued for scopes its user has approved, claimed by one request, and    *)
(* answered at most once; what replaces it belongs to the same client and  *)
(* has no scope that it had not.  (The docstrings of consume_code and      *)
(* consume_refresh in oauth_codes.py and the narrowing in                  *)
(* routers/oauth.py.)                                                      *)
(***************************************************************************)
EXTENDS Naturals

CONSTANTS
    Client,       \* registered clients
    Trusted,      \* those that need no approval
    Scope,        \* the scopes they may ask for
    Grant,        \* codes and refresh tokens
    NoClient      \* the owner of a grant that has not been issued

VARIABLES
    status,       \* status[g]: how far grant g has come
    owner,        \* owner[g]: the client it was issued to
    allowed,      \* allowed[g]: its scopes
    approved,     \* approved[c]: every scope the user has approved for c
    answered      \* answered[g]: token responses made for g

Status == {"fresh", "live", "claimed", "over"}

Init ==
    /\ status = [g \in Grant |-> "fresh"]
    /\ owner = [g \in Grant |-> NoClient]
    /\ allowed = [g \in Grant |-> {}]
    /\ approved = [c \in Client |-> {}]
    /\ answered = [g \in Grant |-> 0]

\* Grant g is bound to client c and the scopes s.
Bind(g, c, s) ==
    /\ owner' = [owner EXCEPT ![g] = c]
    /\ allowed' = [allowed EXCEPT ![g] = s]

\* A code, for scopes approved before or by this very step.
Issue(g) ==
    /\ status[g] = "fresh"
    /\ status' = [status EXCEPT ![g] = "live"]
    /\ \E c \in Client, s \in SUBSET Scope :
        /\ Bind(g, c, s)
        /\ approved' \in {approved, [approved EXCEPT ![c] = @ \cup s]}
        /\ c \in Trusted \/ s \subseteq approved'[c]
    /\ UNCHANGED answered

Claim(g) ==
    /\ status[g] = "live"
    /\ status' = [status EXCEPT ![g] = "claimed"]
    /\ UNCHANGED <<owner, allowed, approved, answered>>

\* It expires, or the request that presents it is refused.
Void(g) ==
    /\ status[g] \in {"live", "claimed"}
    /\ status' = [status EXCEPT ![g] = "over"]
    /\ UNCHANGED <<owner, allowed, approved, answered>>

\* The one answer, with or without a refresh token that takes the place of g.
Redeem(g) ==
    LET over == [status EXCEPT ![g] = "over"]
    IN  /\ status[g] = "claimed"
        /\ answered' = [answered EXCEPT ![g] = @ + 1]
        /\ \/ status' = over /\ UNCHANGED <<owner, allowed>>
           \/ \E f \in Grant :
                /\ status[f] = "fresh"
                /\ status' = [over EXCEPT ![f] = "live"]
                /\ \E s \in SUBSET allowed[g] : Bind(f, owner[g], s)
        /\ UNCHANGED approved

Next == \E g \in Grant : Issue(g) \/ Claim(g) \/ Void(g) \/ Redeem(g)

Spec == Init /\ [][Next]_<<status, owner, allowed, approved, answered>>

\* No grant is answered twice, and whatever chain of codes and refresh tokens a grant
\* ends, its client was allowed all its scopes by the user.
Sound ==
    \A g \in Grant :
        /\ answered[g] <= 1
        /\ status[g] # "fresh" => owner[g] \in Trusted \/ allowed[g] \subseteq approved[owner[g]]
=============================================================================
