---------------------------- MODULE RequestAuth ----------------------------
(***************************************************************************)
(* middleware.Auth: a request carries a token of BasaltPass, which is      *)
(* introspected and remembered for a while, or an API key, which is looked *)
(* up every time.  Time passes between any two steps.                      *)
(***************************************************************************)
EXTENDS Integers

CONSTANTS
  Requests,
  TokenTTL,        \* how long an answer of BasaltPass is remembered
  AuthTimeout,     \* bound on the time that one introspection or one query takes
  MaxTime          \* bound on time

ASSUME AuthAssumption == TokenTTL \in Nat \ {0} /\ AuthTimeout \in Nat /\ MaxTime \in Nat \ {0}

\* A moment that never comes.
Never == MaxTime + 1

VARIABLES
  time,
  tokenEnds,    \* exp of the token, or Never when it carries none
  tokenRevoked, \* when BasaltPass stopped to accept the token
  entry,        \* the entry of the cache: until when it is good, 0 for no entry
  keyEnds,      \* expires_at of the key, or Never
  keyRevoked,   \* revoked_at of the key, or Never
  request,      \* request[r]: where the request is, and since when
  accepted      \* the last request that passed: what it carried, and when

authVars == <<time, tokenEnds, tokenRevoked, entry, keyEnds, keyRevoked, request, accepted>>

IdleRequest == [pc |-> "idle", since |-> 0]

AuthInit ==
  /\ time = 1 /\ entry = 0 /\ tokenRevoked = Never /\ keyRevoked = Never
  /\ tokenEnds \in 2..Never /\ keyEnds \in 2..Never
  /\ request = [r \in Requests |-> IdleRequest]
  /\ accepted = [with |-> "nothing", at |-> 0]

Accept(what) == accepted' = [with |-> what, at |-> time]
Waits(r, pc) == request' = [request EXCEPT ![r] = [pc |-> pc, since |-> time]]
Ends(r) == request' = [request EXCEPT ![r] = IdleRequest]

\* A token that the cache knows passes at once.
CachedToken(r) ==
  /\ request[r].pc = "idle" /\ time < entry
  /\ Accept("token")
  /\ UNCHANGED <<time, tokenEnds, tokenRevoked, entry, keyEnds, keyRevoked, request>>

AskBasaltPass(r) ==
  /\ request[r].pc = "idle" /\ time >= entry
  /\ Waits(r, "asked")
  /\ UNCHANGED <<time, tokenEnds, tokenRevoked, entry, keyEnds, keyRevoked, accepted>>

\* BasaltPass: a token is active until it is revoked or has expired.  An error is
\* taken for a token that is not.
BasaltPassAnswers(r) ==
  /\ request[r].pc = "asked"
  /\ \E answer \in {"active", "inactive"} :
       /\ answer = "active" => time < tokenEnds /\ time < tokenRevoked
       /\ request' = [request EXCEPT ![r].pc = answer]
  /\ UNCHANGED <<time, tokenEnds, tokenRevoked, entry, keyEnds, keyRevoked, accepted>>

Earlier(a, b) == IF a < b THEN a ELSE b

\* Variant: the end of the token does not bound the entry.
EntryOfTTL == time + TokenTTL

\* Until when the answer is good.
EntryEnd == Earlier(time + TokenTTL, tokenEnds)

\* The answer is there: the token has not expired on the way, it is remembered
\* and passes.
AcceptToken(r) ==
  /\ request[r].pc = "active" /\ time < tokenEnds
  /\ entry' = EntryEnd
  /\ Accept("token") /\ Ends(r)
  /\ UNCHANGED <<time, tokenEnds, tokenRevoked, keyEnds, keyRevoked>>

RefuseToken(r) ==
  /\ request[r].pc = "inactive" \/ (request[r].pc = "active" /\ time >= tokenEnds)
  /\ Ends(r)
  /\ UNCHANGED <<time, tokenEnds, tokenRevoked, entry, keyEnds, keyRevoked, accepted>>

\* Authenticate: the row of the key, unless it is revoked; then its expiry.
ReadKey(r) ==
  /\ request[r].pc = "idle" /\ keyRevoked = Never
  /\ Waits(r, "key")
  /\ UNCHANGED <<time, tokenEnds, tokenRevoked, entry, keyEnds, keyRevoked, accepted>>

AcceptKey(r) ==
  /\ request[r].pc = "key" /\ time < keyEnds
  /\ Accept("key") /\ Ends(r)
  /\ UNCHANGED <<time, tokenEnds, tokenRevoked, entry, keyEnds, keyRevoked>>

RefuseKey(r) ==
  /\ request[r].pc = "key" /\ time >= keyEnds
  /\ Ends(r)
  /\ UNCHANGED <<time, tokenEnds, tokenRevoked, entry, keyEnds, keyRevoked, accepted>>

\* APIKeyService.Revoke.
RevokeKey ==
  /\ keyRevoked = Never /\ keyRevoked' = time
  /\ UNCHANGED <<time, tokenEnds, tokenRevoked, entry, keyEnds, request, accepted>>

\* BasaltPass revokes the token; the controller is not told.
RevokeToken ==
  /\ tokenRevoked = Never /\ tokenRevoked' = time
  /\ UNCHANGED <<time, tokenEnds, entry, keyEnds, keyRevoked, request, accepted>>

\* A request to BasaltPass and a query end within their time.
AuthTick ==
  /\ time < MaxTime
  /\ \A r \in Requests : request[r].pc = "idle" \/ time < request[r].since + AuthTimeout
  /\ time' = time + 1
  /\ UNCHANGED <<tokenEnds, tokenRevoked, entry, keyEnds, keyRevoked, request, accepted>>

AuthNext ==
  \/ RevokeKey \/ RevokeToken \/ AuthTick
  \/ \E r \in Requests :
       \/ CachedToken(r) \/ AskBasaltPass(r) \/ BasaltPassAnswers(r)
       \/ AcceptToken(r) \/ RefuseToken(r)
       \/ ReadKey(r) \/ AcceptKey(r) \/ RefuseKey(r)

AuthSpec == AuthInit /\ [][AuthNext]_authVars
-----------------------------------------------------------------------------
AuthTypeOK ==
  /\ time \in 1..MaxTime /\ entry \in 0..Never
  /\ {tokenEnds, tokenRevoked, keyEnds, keyRevoked} \subseteq 1..Never
  /\ request \in [Requests ->
       [pc : {"idle", "asked", "active", "inactive", "key"}, since : 0..MaxTime]]
  /\ accepted \in [with : {"nothing", "token", "key"}, at : 0..MaxTime]

\* No request passes with something that has expired, and none long after a
\* revocation: a key for the duration of a query, a token for as long as an
\* answer of BasaltPass is on its way and then remembered.
AcceptedWasValid ==
  /\ accepted.with = "token" =>
       accepted.at < tokenEnds /\ accepted.at < tokenRevoked + AuthTimeout + TokenTTL
  /\ accepted.with = "key" =>
       accepted.at < keyEnds /\ accepted.at <= keyRevoked + AuthTimeout
=============================================================================
