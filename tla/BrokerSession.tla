--------------------------- MODULE BrokerSession ---------------------------
(***************************************************************************)
(* One GrowwAdapter over its RestClient: the daily token, the sliding-     *)
(* window limiter and the retries of reads.  Time is counted in slots; a   *)
(* token the broker issued is good until the next 06:00, which comes every *)
(* TokenLife slots.  At most one request is under way: the loop is the     *)
(* adapter's only caller.                                                  *)
(***************************************************************************)
EXTENDS Integers, Sequences, FiniteSets, SequencesExt

CONSTANTS
    AuthModes,    \* GROWW_AUTH_MODE: "token", or "login" for approval and totp
    TokenLife,    \* slots from one 06:00 to the next
    PerSecond,    \* requests in one slot
    PerMinute,    \* requests in Minute slots
    Minute,
    MaxRetries,
    LastSlot      \* bound: slots the model runs for

ASSUME SessionAssumption ==
    /\ AuthModes \subseteq {"token", "login"}
    /\ {TokenLife, PerSecond, PerMinute, Minute, MaxRetries, LastSlot} \subseteq Nat \ {0}

VARIABLES
    slot,      \* now
    authMode,
    issued,    \* the 06:00 after which the token in use was issued, or NoToken
    expiry,    \* _token_expiry
    sends,     \* the limiter's _events: slots of the requests let through
    request,   \* the request under way, or NoRequest
    spansRenewal    \* history: the last 06:00 came while a request was under way

sessionVars == <<slot, authMode, issued, expiry, sends, request, spansRenewal>>

NoToken == -1
NoRequest == [stage |-> "none"]

DayOf(t) == t \div TokenLife

\* _next_0600_ist: from 06:00 on it is tomorrow's.
NextExpiry(t) == (DayOf(t) + 1) * TokenLife

\* Mutant: at 06:00 sharp the old token still counts.
IsAuthenticatedAtExpiry == issued # NoToken /\ slot <= expiry

IsAuthenticated == issued # NoToken /\ slot < expiry

\* RateLimiter.acquire: from the left, events older than a minute are dropped.
Old == {k \in DOMAIN sends : \A j \in 1..k : slot - sends[j] > Minute}
Recent == SubSeq(sends, Cardinality(Old) + 1, Len(sends))

MayProceed ==
    /\ Cardinality({k \in DOMAIN Recent : slot - Recent[k] <= 0}) < PerSecond
    /\ Len(Recent) < PerMinute

-----------------------------------------------------------------------------
SessionInit ==
    /\ slot = 0 /\ authMode \in AuthModes
    /\ issued = NoToken /\ expiry = 0
    /\ sends = <<>> /\ request = NoRequest /\ spansRenewal = FALSE

\* Waiting for the limiter, backing off and waiting for an answer all take time.
Elapse ==
    /\ slot < LastSlot
    /\ slot' = slot + 1
    /\ spansRenewal' = IF DayOf(slot + 1) = DayOf(slot) THEN spansRenewal ELSE request # NoRequest
    /\ UNCHANGED <<authMode, issued, expiry, sends, request>>

\* _ensure_auth, then the request.  The token of the environment, pasted on the
\* first day, is set again with a new expiry: there is no other to set.
Call(kind) ==
    /\ request = NoRequest
    /\ \/ /\ IsAuthenticated
          /\ request' = [stage |-> "waiting", kind |-> kind, attempt |-> 1, next |-> "none"]
          /\ UNCHANGED <<issued, expiry>>
       \/ /\ ~IsAuthenticated /\ authMode = "token"
          /\ issued' = 0 /\ expiry' = NextExpiry(slot)
          /\ request' = [stage |-> "waiting", kind |-> kind, attempt |-> 1, next |-> "none"]
       \/ /\ ~IsAuthenticated /\ authMode = "login"
          /\ request' = [stage |-> "waiting", kind |-> "login", attempt |-> 1, next |-> kind]
          /\ UNCHANGED <<issued, expiry>>
    /\ UNCHANGED <<slot, authMode, sends, spansRenewal>>

\* acquire: the request is let through, and is an event itself.
Acquire ==
    /\ request.stage = "waiting"
    /\ MayProceed
    /\ sends' = Append(Recent, slot)
    /\ request' = [request EXCEPT !.stage = "sent"]
    /\ UNCHANGED <<slot, authMode, issued, expiry, spansRenewal>>

\* The token endpoint issues at some time since the request was let through; the
\* expiry is reckoned when the answer is read.
LoginAnswered ==
    /\ request.stage = "sent" /\ request.kind = "login"
    /\ issued' \in DayOf(Last(sends))..DayOf(slot)
    /\ expiry' = NextExpiry(slot)
    /\ spansRenewal' = (spansRenewal /\ issued' # DayOf(slot))
    /\ request' = [stage |-> "waiting", kind |-> request.next, attempt |-> 1, next |-> "none"]
    /\ UNCHANGED <<slot, authMode, sends>>

Valid == request.kind = "login" \/ issued = DayOf(slot)

Answered ==
    /\ request.stage = "sent" /\ request.kind # "login" /\ Valid
    /\ request' = NoRequest
    /\ UNCHANGED <<slot, authMode, issued, expiry, sends, spansRenewal>>

\* 401 and 403 raise at once; the token is kept.
Unauthorized ==
    /\ request.stage = "sent" /\ ~Valid
    /\ request' = [request EXCEPT !.stage = "refused"]
    /\ UNCHANGED <<slot, authMode, issued, expiry, sends, spansRenewal>>

\* A timeout, a network error, 429 or 5xx: a read or a login is tried again through
\* the limiter, an order never is.
Attempts(kind) == IF kind = "order" THEN 1 ELSE MaxRetries

TransientFailure ==
    /\ request.stage = "sent"
    /\ request' = IF request.attempt < Attempts(request.kind)
                    THEN [request EXCEPT !.stage = "waiting", !.attempt = @ + 1]
                    ELSE NoRequest
    /\ UNCHANGED <<slot, authMode, issued, expiry, sends, spansRenewal>>

\* Every other refusal is final.
DefiniteFailure ==
    /\ request.stage = "sent" /\ Valid
    /\ request' = NoRequest
    /\ UNCHANGED <<slot, authMode, issued, expiry, sends, spansRenewal>>

RefusalRaised ==
    /\ request.stage = "refused"
    /\ request' = NoRequest
    /\ UNCHANGED <<slot, authMode, issued, expiry, sends, spansRenewal>>

\* RuntimeSupervisor._reconnect authenticates whatever the expiry says.
Reauthenticate ==
    /\ request = NoRequest
    /\ \/ /\ authMode = "token"
          /\ issued' = 0 /\ expiry' = NextExpiry(slot)
          /\ UNCHANGED request
       \/ /\ authMode = "login"
          /\ request' = [stage |-> "waiting", kind |-> "login", attempt |-> 1, next |-> "read"]
          /\ UNCHANGED <<issued, expiry>>
    /\ UNCHANGED <<slot, authMode, sends, spansRenewal>>

SessionNext ==
    \/ Elapse \/ Acquire \/ LoginAnswered \/ Answered \/ Unauthorized
    \/ TransientFailure \/ DefiniteFailure \/ RefusalRaised \/ Reauthenticate
    \/ \E kind \in {"read", "order"} : Call(kind)

SessionSpec == SessionInit /\ [][SessionNext]_sessionVars

-----------------------------------------------------------------------------
SessionTypeOK ==
    /\ slot \in 0..LastSlot /\ authMode \in AuthModes
    /\ issued \in {NoToken} \union 0..DayOf(LastSlot)
    /\ expiry \in 0..NextExpiry(LastSlot)
    /\ sends \in Seq(0..LastSlot) /\ Len(sends) <= PerMinute
    /\ request # NoRequest =>
         request \in [stage : {"waiting", "sent", "refused"},
                      kind : {"read", "order", "login"}, attempt : 1..MaxRetries,
                      next : {"none", "read", "order"}]
    /\ spansRenewal \in BOOLEAN

\* The broker refuses a token only when the pasted token has outlived its day, or the
\* last 06:00 came between a check of the token, or the issue of it, and the next look
\* at the clock: while a request or a login waited for the limiter, for its next
\* attempt or for its answer.
RefusalsExplained == request.stage = "refused" => (authMode = "token" \/ spansRenewal)

=============================================================================
