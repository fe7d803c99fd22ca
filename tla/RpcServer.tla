----------------------------- MODULE RpcServer -----------------------------
(***************************************************************************)
(* rpc-read-provider: handle_request() of server.rs, the method handlers   *)
(* of methods.rs and the RateLimiter of middleware.rs.  Every connection   *)
(* is a task of its own; a request is handled up to the await of its body, *)
(* which the limiter comes before, and from there to its response.         *)
(*                                                                         *)
(* Time is in ticks, Second of them a second; allow() reads the clock      *)
(* under the limiter's lock, so its times never go back.  A window's list  *)
(* of times is the set of its entries, each with the number of the request *)
(* it stands for, since only their count matters.  The handlers do not     *)
(* reach the rest of the system yet: an account is always null.  clear()   *)
(* has no caller.                                                          *)
(***************************************************************************)
EXTENDS Integers, FiniteSets, Maps, Jobs

CONSTANTS Clients,    \* IP addresses
          limit,      \* rate_limit_per_ip
          Second,     \* ticks of window_duration
          BatchLimit, \* pubkeys of one getMultipleAccounts (1000)
          MaxClock    \* bound: ticks

ASSUME RpcAssumption ==
    limit \in Nat /\ Second \in Nat \ {0} /\ BatchLimit \in Nat /\ MaxClock \in Nat

VARIABLES clock,
          ip_windows,    \* client -> [timestamps, window_start]
          response,      \* per task: the last response
          allowed,       \* history: client -> the requests let through, <<number, time>>
          refused        \* history: pairs of client and time of a refusal

rpcState == <<clock, ip_windows, response, allowed, refused>>
rpcVars == <<rpcState, job, jobs>>

RpcInit ==
    /\ clock = 0 /\ ip_windows = EmptyMap
    /\ response = [t \in Workers |-> "none"]
    /\ allowed = [c \in Clients |-> {}] /\ refused = {}
    /\ JobsInit

Statuses == {"none", "ok", "zero_requests", "not_found", "not_allowed", "rate_limited", "parse_error",
             "method_not_found", "invalid_params", "closed"}

RpcTypeOK ==
    /\ clock \in 0 .. MaxClock
    /\ DOMAIN ip_windows \subseteq Clients
    /\ \A c \in DOMAIN ip_windows : ip_windows[c].window_start \in 0 .. clock
    /\ response \in [Workers -> Statuses]

ClockTick ==
    /\ clock < MaxClock /\ clock' = clock + 1
    /\ UNCHANGED <<ip_windows, response, allowed, refused, job, jobs>>

-----------------------------------------------------------------------------
(* RateLimiter::allow() *)

Kept(times) == {x \in times : clock - x[2] < Second}

\* The client's window, made anew if there is none or it has expired, without
\* the times that are a second old.
Window(c) ==
    LET w == IF c \in DOMAIN ip_windows THEN ip_windows[c]
             ELSE [timestamps |-> {}, window_start |-> clock]
        v == IF clock - w.window_start > Second
               THEN [timestamps |-> {}, window_start |-> clock] ELSE w
    IN  [v EXCEPT !.timestamps = Kept(@)]

Request(c) == <<Cardinality(allowed[c]) + 1, clock>>

\* Mutant of Allow: one request more is let through.
AllowOneMore(c) ==
    /\ Cardinality(Window(c).timestamps) <= limit
    /\ ip_windows' = Put(ip_windows, c, [Window(c) EXCEPT !.timestamps = @ \cup {Request(c)}])
    /\ allowed' = [allowed EXCEPT ![c] = @ \cup {Request(c)}]
    /\ UNCHANGED refused

Allow(c) ==
    /\ Cardinality(Window(c).timestamps) < limit
    /\ ip_windows' = Put(ip_windows, c, [Window(c) EXCEPT !.timestamps = @ \cup {Request(c)}])
    /\ allowed' = [allowed EXCEPT ![c] = @ \cup {Request(c)}]
    /\ UNCHANGED refused

Refuse(c) ==
    /\ Cardinality(Window(c).timestamps) >= limit
    /\ ip_windows' = Put(ip_windows, c, Window(c))
    /\ refused' = refused \cup {<<c, clock>>}
    /\ UNCHANGED allowed

\* get_count(): the requests of the last second that are still in the window.
get_count(c) ==
    IF c \in DOMAIN ip_windows THEN Cardinality(Kept(ip_windows[c].timestamps)) ELSE 0

-----------------------------------------------------------------------------
(* methods.rs *)

\* The two endpoints; nothing counts the requests that /metrics reports.
handle_health == "ok"
handle_metrics == "zero_requests"

\* Parameters: no array, an empty one, or one whose first item is a number, a
\* string, "bad" if it is no pubkey, or a list of strings, "bad" if one is none.
Params == [first : {"no_array", "empty", "number", "key", "list"},
           keys : 0 .. BatchLimit + 1, bad : BOOLEAN]

handle_get_account_info(p) ==
    IF p.first = "key" /\ ~p.bad THEN "ok" ELSE "invalid_params"

\* The pubkeys are parsed before they are counted.
handle_get_multiple_accounts(p) ==
    IF p.first = "list" /\ ~p.bad /\ p.keys <= BatchLimit THEN "ok" ELSE "invalid_params"

Dispatch(method, p) ==
    CASE method = "getAccountInfo" -> handle_get_account_info(p)
      [] method = "getMultipleAccounts" -> handle_get_multiple_accounts(p)
      [] OTHER -> "method_not_found"

Outcomes == {Dispatch(m, p) : m \in {"getAccountInfo", "getMultipleAccounts", "other"},
                              p \in Params}

-----------------------------------------------------------------------------
(* handle_request() *)

Respond(t, status) == response' = [response EXCEPT ![t] = status]

\* GET and the methods other than POST are answered before the limiter.
Plain(t) ==
    /\ job[t].op = "idle" /\ jobs < MaxJobs /\ jobs' = jobs + 1
    /\ \E s \in {handle_health, handle_metrics, "not_found", "not_allowed"} : Respond(t, s)
    /\ UNCHANGED <<clock, ip_windows, allowed, refused, job>>

Post(t, c) ==
    \/ /\ Allow(c)
       /\ Begin(t, [op |-> "post", pc |-> "body", client |-> c])
       /\ UNCHANGED <<clock, response>>
    \/ /\ Refuse(c)
       /\ job[t].op = "idle" /\ jobs < MaxJobs /\ jobs' = jobs + 1
       /\ Respond(t, "rate_limited")
       /\ UNCHANGED <<clock, job>>

\* The body arrives, is not JSON, or never ends.
Body(t) ==
    /\ At(t, "post", "body")
    /\ \E s \in Outcomes \cup {"parse_error", "closed"} : Respond(t, s)
    /\ Finish(t)
    /\ UNCHANGED <<clock, ip_windows, allowed, refused>>

RpcNext ==
    \/ ClockTick
    \/ \E t \in Workers : Plain(t) \/ Body(t) \/ \E c \in Clients : Post(t, c)

RpcSpec == RpcInit /\ [][RpcNext]_rpcVars

-----------------------------------------------------------------------------
Within(c, from) == Cardinality({x \in allowed[c] : from <= x[2] /\ x[2] < from + Second})

\* Since a client's window was last emptied the limiter is the sliding window its doc
\* says: no second holds more requests of the client that were let through than the
\* limit.  (Of a second into which the emptying falls nothing is promised.)  A request
\* is refused only to a client that used up the limit within the last second, and
\* get_count() reports no more than the limit nor than were let through in that second
\* (allow(), get_count()).
RateBounded ==
    /\ \A c \in DOMAIN ip_windows : \A from \in ip_windows[c].window_start .. clock :
          Within(c, from) <= limit
    /\ \A r \in refused : Within(r[1], r[2] - Second + 1) >= limit
    /\ \A c \in Clients : get_count(c) <= limit /\ get_count(c) <= Within(c, clock - Second + 1)
=============================================================================
