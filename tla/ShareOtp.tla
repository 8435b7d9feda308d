------------------------------ MODULE ShareOtp ------------------------------
(***************************************************************************)
(* The one-time codes that open a share link to an outside recipient       *)
(* (routers/share_otp.py), for one link and one address: the challenge     *)
(* that mints a code and mails it, and the verification that charges the   *)
(* attempt budget, compares the code and mints a recipient token.          *)
(*                                                                         *)
(* A request makes one Redis call at a time (tokens.py), and so do the     *)
(* requests beside it.  rate_ok is two calls, INCR and, for the first one  *)
(* of a window, EXPIRE; consume_code is two, GET and DELETE.               *)
(*                                                                         *)
(* A Tick is the unit in which the windows and the life of a code run out. *)
(* The two timing markers, the sent one and the last attempt's, decide     *)
(* only how much a submission is charged: the model takes either charge,   *)
(* whatever the times were.                                                *)
(***************************************************************************)
EXTENDS Naturals

CONSTANTS
    Worker,       \* threads that serve these requests
    Codes,        \* how many codes are ever drawn (bound); each is a new one
    Limit,        \* Limit[b]: share_otp_send_per_window, share_otp_max_attempts
    Window,       \* Window[b]: their windows, in ticks
    CodeLife,     \* share_otp_ttl_s, in ticks
    Weight        \* share_otp_timing_weight

Bucket == {"send", "attempt"}

ASSUME ConstantsAssumption ==
    /\ Codes \in Nat
    /\ Limit \in [Bucket -> Nat \ {0}]
    /\ Window \in [Bucket -> Nat \ {0}]
    /\ CodeLife \in Nat \ {0}
    /\ Weight \in Nat \ {0}

\* The n-th code drawn is n.  None is no code; as a submission, one never drawn.
None == 0
Code == 1 .. Codes

Stage == {"idle",
          "send",     \* challenge: rate_ok of the address
          "issue",    \* challenge: rate_ok of the link's day and issue_code
          "mail",     \* challenge: set_marker and mailer.send
          "attempt",  \* verify: rate_ok of the attempts, Weight times or once
          "compare",  \* verify: consume_code, GET
          "burn",     \* verify: consume_code, DELETE
          "token"}    \* verify: issue, the recipient token

VARIABLES
    count,        \* Redis: the counter of each bucket; exact up to Limit[b] + 1
    ttl,          \* Redis: ticks until the counter goes; 0: no key, or no expiry set
    stored,       \* Redis: the live code, or None
    life,         \* Redis: ticks until it expires
    stage, carried,   \* each request: its next call, the code it minted or was given
    left,         \* left[w]: calls of rate_ok that w's submission still has to make
    due,          \* workers whose INCR returned 1 and who have EXPIRE to call
    admitted,     \* history: submissions let through in this window of attempts
    drawn,        \* history: how many codes have been drawn
    newest,       \* history: the code of the last mail that left, or None
    excused       \* history: codes that were used, that expired, or that were stored
                  \* beside a mail or a DELETE under way

redis == <<count, ttl, stored, life>>
codes == <<drawn, newest, excused>>
request == <<stage, carried, left, due>>
vars == <<redis, request, admitted, codes>>

Init ==
    /\ count = [b \in Bucket |-> 0]
    /\ ttl = [b \in Bucket |-> 0]
    /\ stored = None /\ life = 0
    /\ stage = [w \in Worker |-> "idle"]
    /\ carried = [w \in Worker |-> None]
    /\ left = [w \in Worker |-> 0]
    /\ due = {}
    /\ admitted = 0
    /\ drawn = 0 /\ newest = None /\ excused = {}

Go(w, s) == stage' = [stage EXCEPT ![w] = s]

\* Deliberately wrong: a request that ends keeps owing the EXPIRE.
FinishOwing(w) ==
    /\ Go(w, "idle")
    /\ carried' = [carried EXCEPT ![w] = None]
    /\ left' = [left EXCEPT ![w] = 0]
    /\ UNCHANGED due

Finish(w) ==
    /\ Go(w, "idle")
    /\ carried' = [carried EXCEPT ![w] = None]
    /\ left' = [left EXCEPT ![w] = 0]
    /\ due' = due \ {w}

-----------------------------------------------------------------------------
Challenge(w) ==
    /\ stage[w] = "idle"
    /\ Go(w, "send")
    /\ UNCHANGED <<redis, admitted, codes, carried, left, due>>

\* Somebody submits a code that has been drawn, known or guessed, or a wrong one.
\* The timing verdict, too_soon_after_send or submit_interval, makes a submission
\* cost Weight attempts instead of one.
Verify(w, c) ==
    /\ stage[w] = "idle"
    /\ c <= drawn
    /\ Go(w, "attempt")
    /\ carried' = [carried EXCEPT ![w] = c]
    /\ left' \in {[left EXCEPT ![w] = 1], [left EXCEPT ![w] = Weight]}
    /\ UNCHANGED <<redis, admitted, codes, due>>

-----------------------------------------------------------------------------
\* The answer n <= limit of the last rate_ok decides; the earlier ones of a weighted
\* submission are dropped.
Decide(w, b, allowed) ==
    \/ /\ left[w] > 1
       /\ left' = [left EXCEPT ![w] = @ - 1]
       /\ due' = due \ {w}
       /\ UNCHANGED <<stage, carried>>
    \/ /\ left[w] <= 1 /\ allowed
       /\ Go(w, IF b = "send" THEN "issue" ELSE "compare")
       /\ left' = [left EXCEPT ![w] = 0]
       /\ due' = due \ {w}
       /\ UNCHANGED carried
    \/ /\ left[w] <= 1 /\ ~allowed
       /\ Finish(w)

\* INCR admits the submission when it is the last of its calls and within the limit.
Admits(w, b) == b = "attempt" /\ left[w] = 1 /\ count[b] < Limit[b]

\* Deliberately wrong: a rolling window, which every attempt pushes out.
IncrRolling(w, b) ==
    /\ stage[w] = b /\ w \notin due
    /\ count' = [count EXCEPT ![b] = IF @ > Limit[b] THEN @ ELSE @ + 1]
    /\ ttl' = [ttl EXCEPT ![b] = IF count[b] = 0 THEN @ ELSE Window[b]]
    /\ admitted' = IF Admits(w, b) THEN admitted + 1 ELSE admitted
    /\ \/ /\ count[b] = 0
          /\ due' = due \cup {w}
          /\ UNCHANGED <<stage, carried, left>>
       \/ /\ count[b] > 0
          /\ Decide(w, b, count[b] < Limit[b])
    /\ UNCHANGED <<stored, life, codes>>

\* rate_ok, INCR: the first of a window goes on to EXPIRE.
Incr(w, b) ==
    /\ stage[w] = b /\ w \notin due
    /\ count' = [count EXCEPT ![b] = IF @ > Limit[b] THEN @ ELSE @ + 1]
    /\ admitted' = IF Admits(w, b) THEN admitted + 1 ELSE admitted
    /\ \/ /\ count[b] = 0
          /\ due' = due \cup {w}
          /\ UNCHANGED <<stage, carried, left>>
       \/ /\ count[b] > 0
          /\ Decide(w, b, count[b] < Limit[b])
    /\ UNCHANGED <<ttl, stored, life, codes>>

\* rate_ok, EXPIRE.  The count was 1, which every limit allows.
SetExpiry(w, b) ==
    /\ stage[w] = b /\ w \in due
    /\ ttl' = [ttl EXCEPT ![b] = Window[b]]
    /\ Decide(w, b, TRUE)
    /\ UNCHANGED <<count, stored, life, admitted, codes>>

\* The second rate_ok of a challenge, the cap of the link's day, is shared with every
\* other recipient of the link: it may refuse.
LinkCapped(w) ==
    /\ stage[w] = "issue"
    /\ Finish(w)
    /\ UNCHANGED <<redis, admitted, codes>>

-----------------------------------------------------------------------------
\* Challenges whose code is stored and not yet mailed, and comparisons that have
\* matched and not yet deleted: a code stored beside them may not be the one that
\* the last mail names, or may be deleted for another.
Unmailed == {w \in Worker : stage[w] = "mail"}
Burning == {w \in Worker : stage[w] = "burn"}

Crossing(c) == IF Unmailed \cup Burning = {} THEN {}
               ELSE {c} \cup {carried[v] : v \in Unmailed}

\* issue_code: SETEX replaces the code before it.
Store(w, c) ==
    /\ c \in Code
    /\ stored' = c
    /\ life' = CodeLife
    /\ drawn' = c
    /\ carried' = [carried EXCEPT ![w] = c]
    /\ excused' = excused \cup Crossing(c)
    /\ Go(w, "mail")

\* Deliberately wrong: a new code gives the attempts back.
IssueRefilling(w) ==
    /\ stage[w] = "issue"
    /\ Store(w, drawn + 1)
    /\ count' = [count EXCEPT !["attempt"] = 0]
    /\ ttl' = [ttl EXCEPT !["attempt"] = 0]
    /\ UNCHANGED <<left, due, admitted, newest>>

Issue(w) ==
    /\ stage[w] = "issue"
    /\ Store(w, drawn + 1)
    /\ UNCHANGED <<count, ttl, left, due, admitted, newest>>

Mail(w) ==
    /\ stage[w] = "mail"
    /\ newest' = carried[w]
    /\ Finish(w)
    /\ UNCHANGED <<redis, admitted, drawn, excused>>

\* Deliberately wrong: the code is deleted whether it matches or not.
CompareBurning(w) ==
    /\ stage[w] = "compare"
    /\ \/ carried[w] # None /\ stored # None
          /\ Go(w, "burn")
          /\ UNCHANGED <<carried, left, due>>
       \/ (carried[w] = None \/ stored = None) /\ Finish(w)
    /\ UNCHANGED <<redis, admitted, codes>>

\* consume_code, GET: a code that does not match is not deleted.
Compare(w) ==
    /\ stage[w] = "compare"
    /\ \/ carried[w] # None /\ carried[w] = stored
          /\ Go(w, "burn")
          /\ UNCHANGED <<carried, left, due>>
       \/ (carried[w] = None \/ carried[w] # stored) /\ Finish(w)
    /\ UNCHANGED <<redis, admitted, codes>>

\* consume_code, DELETE: of whatever code is stored by now.
Burn(w) ==
    /\ stage[w] = "burn"
    /\ stored' = None /\ life' = 0
    /\ excused' = excused \cup {carried[w]}
    /\ Go(w, "token")
    /\ UNCHANGED <<count, ttl, carried, left, due, admitted, drawn, newest>>

\* The recipient token goes under a key of its own, which token_check only reads.
MintToken(w) ==
    /\ stage[w] = "token"
    /\ Finish(w)
    /\ UNCHANGED <<redis, admitted, codes>>

\* A call fails or its reply is lost, or the process dies: the request ends.  After
\* its code is stored, no mail vouches for what is stored then.
Fail(w) ==
    /\ stage[w] # "idle"
    /\ newest' = IF w \in Unmailed THEN None ELSE newest
    /\ Finish(w)
    /\ UNCHANGED <<redis, admitted, drawn, excused>>

\* A counter whose last tick passes is gone, and so is a code.
Tick ==
    /\ count' = [b \in Bucket |-> IF ttl[b] = 1 THEN 0 ELSE count[b]]
    /\ ttl' = [b \in Bucket |-> IF ttl[b] = 0 THEN 0 ELSE ttl[b] - 1]
    /\ admitted' = IF ttl["attempt"] = 1 THEN 0 ELSE admitted
    /\ life' = IF life = 0 THEN 0 ELSE life - 1
    /\ stored' = IF life = 1 THEN None ELSE stored
    /\ excused' = IF life = 1 THEN excused \cup {stored} ELSE excused
    /\ UNCHANGED <<request, drawn, newest>>

\* What a request does once it is under way.
Step(w) ==
    \/ \E b \in Bucket : Incr(w, b) \/ SetExpiry(w, b)
    \/ LinkCapped(w) \/ Issue(w) \/ Mail(w)
    \/ Compare(w) \/ Burn(w) \/ MintToken(w)

Next ==
    \/ \E w \in Worker :
        \/ Challenge(w)
        \/ \E c \in Code \cup {None} : Verify(w, c)
        \/ Step(w)
        \/ Fail(w)
    \/ Tick

\* A thread of the server's pool that has begun a request goes on with it, and time
\* passes.  Nothing makes anybody send one.
Fairness == WF_vars(Tick) /\ \A w \in Worker : WF_vars(Step(w))

Spec == Init /\ [][Next]_vars

FairSpec == Spec /\ Fairness

-----------------------------------------------------------------------------
TypeOK ==
    /\ count \in [Bucket -> Nat] /\ ttl \in [Bucket -> Nat]
    /\ \A b \in Bucket : count[b] <= Limit[b] + 1 /\ ttl[b] <= Window[b]
    /\ stored \in Code \cup {None}
    /\ life \in 0 .. CodeLife
    /\ stage \in [Worker -> Stage]
    /\ carried \in [Worker -> Code \cup {None}]
    /\ left \in [Worker -> 0 .. Weight]
    /\ due \in SUBSET Worker
    /\ admitted \in Nat
    /\ drawn \in 0 .. Codes
    /\ newest \in Code \cup {None}
    /\ excused \in SUBSET Code
    /\ stored = None <=> life = 0
    /\ \A w \in due : stage[w] \in Bucket /\ count[stage[w]] > 0 /\ ttl[stage[w]] = 0
    /\ \A w \in Worker : left[w] > 0 <=> stage[w] = "attempt"
    /\ \A w \in Worker : stage[w] \in {"mail", "burn", "token"} => carried[w] # None

\* The comment at lines 213-215 of routers/share_otp.py: attempts are charged before
\* the compare, "so the budget cannot be replenished by requesting a fresh code".
\* The routes implement a budget that only the end of its window gives back.
Budget == INSTANCE AttemptBudget WITH
    Limit <- Limit["attempt"],
    spent <- IF count["attempt"] > Limit["attempt"] THEN Limit["attempt"]
             ELSE count["attempt"],
    admitted <- admitted
ImplementsBudget == Budget!Spec

\* The template tells the recipient to use the newest code (lines 145-148): the code of
\* the last mail works until it is used or expires, whatever wrong codes are submitted
\* and whichever later challenges are refused; and a code that has matched is dead
\* before its token is minted.  Only a code stored beside another challenge's mail, or
\* beside a DELETE, may fail so.
NewestCodeWorks ==
    /\ Unmailed = {} /\ newest # None => stored = newest \/ newest \in excused
    /\ \A w \in Worker : stage[w] = "token" => stored # carried[w]

\* A counter that nothing will ever end: its request died between INCR and EXPIRE.
Orphaned(b) == count[b] > 0 /\ ttl[b] = 0 /\ \A w \in due : stage[w] # b

\* An address that has been refused is let in again in the end, however often it is
\* tried meanwhile, unless the request that opened the window died before its EXPIRE.
LockoutEnds ==
    \A b \in Bucket : count[b] > Limit[b] ~> count[b] = 0 \/ Orphaned(b)
=============================================================================
