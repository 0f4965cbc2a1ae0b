---------------------------- MODULE AuthSessions ----------------------------
(***************************************************************************)
(* Sign-in sessions and refresh tokens of one active user: AuthService and *)
(* its routes.  A request is one database session; a commit is one action, *)
(* and a refresh, which reads its token first and writes at commit without *)
(* locking what it read, is two.  revoke_session updates the session row   *)
(* before the tokens and a refresh's flush does the same, so the row lock  *)
(* puts the two commits one after the other.                               *)
(*                                                                         *)
(* A token expires when its session does (it copies expires_at), so time   *)
(* is the set of sessions whose expiry has passed.  An access token is the *)
(* name of its session: a client of a session that was ever opened has     *)
(* one.  Passwords, hashes, JWTs, cookies' attributes and registration are *)
(* left out.  A refresh token not yet issued and a client's missing cookie *)
(* are None.                                                               *)
(***************************************************************************)
CONSTANTS Sessions,   \* primary keys for auth_sessions
          Tokens,     \* refresh tokens that may be generated
          Calls,      \* concurrent login, refresh and revocation requests
          None

ASSUME NoneIsNothing == None \notin Sessions /\ None \notin Tokens

VARIABLES sessions,   \* auth_sessions: unused, open, revoked or deleted
          lapsed,     \* sessions whose expires_at has passed
          tokens,     \* refresh_tokens, by token
          calls,      \* the requests being served
          held,       \* the token the client of each session holds
          dropped     \* sessions whose client lost an answer with a token

authVars == <<sessions, lapsed, tokens, calls, held, dropped>>

Token == [status : {"unused", "live", "revoked", "deleted"},
          session : Sessions \cup {None}]

Gone == [status |-> "deleted", session |-> None]

(* loaded: the token and its session were read; allowed is what they said. *)
(* signedIn: get_auth_context has accepted an access token of the session. *)
Call == [pc : {"idle", "login", "sent", "loaded", "answered", "signedIn"},
         session : Sessions \cup {None},
         token : Tokens \cup {None},
         allowed : BOOLEAN]

Idle == [pc |-> "idle", session |-> None, token |-> None, allowed |-> FALSE]

Kept(s) == sessions[s] \in {"open", "revoked"}

(* What resolve_access_token and list_sessions call a live session.        *)
Open(s) == sessions[s] = "open" /\ s \notin lapsed

TokensOf(s) == {t \in Tokens : tokens[t].session = s}

Revoked(some) ==
  [t \in Tokens |-> IF t \in some THEN [tokens[t] EXCEPT !.status = "revoked"]
                                  ELSE tokens[t]]

(* _issue_refresh_token, added to a table in which others may be revoked.  *)
Issue(table, t, s) == [table EXCEPT ![t] = [status |-> "live", session |-> s]]

-----------------------------------------------------------------------------
(***************************************************************************)
(* Mutants: plausible mistakes in the code below; no part of the           *)
(* specification.                                                          *)
(***************************************************************************)

(* prune_expired also takes sessions one of whose tokens was rotated out.  *)
DeadSessionsByToken ==
  {s \in Sessions : Kept(s) /\ (~Open(s) \/
     \E t \in TokensOf(s) : tokens[t].status = "revoked")}

(* prune_expired without the tokens that go with their session.            *)
DeadTokensOnly(dead) == {t \in Tokens : tokens[t].status = "revoked"}

(* refresh that trusts a loaded token without looking at its session.      *)
LoadTokenOnly(c) ==
  /\ calls[c].pc = "sent"
  /\ tokens[calls[c].token].status = "live"
  /\ calls[c].session \notin lapsed
  /\ calls' = [calls EXCEPT ![c].pc = "loaded", ![c].allowed = TRUE]
  /\ UNCHANGED <<sessions, lapsed, tokens, held, dropped>>

(* refresh that writes the session row back as it was read.                *)
CommitRefreshWholeRow(c, t) ==
  /\ calls[c].pc = "loaded" /\ calls[c].allowed
  /\ tokens[calls[c].token].status # "deleted"
  /\ sessions[calls[c].session] # "deleted"
  /\ tokens[t].status = "unused"
  /\ sessions' = [sessions EXCEPT ![calls[c].session] = "open"]
  /\ tokens' = Issue(Revoked({calls[c].token}), t, calls[c].session)
  /\ calls' = [calls EXCEPT ![c].pc = "answered", ![c].token = t]
  /\ UNCHANGED <<lapsed, held, dropped>>

(* refresh that rotates out every token of the session.                    *)
RotatedOutAll(c) ==
  {t \in TokensOf(calls[c].session) : tokens[t].status = "live"}

(* start_session without the flush that gives the session its key.         *)
StartSessionUnflushed(c, s, t) ==
  /\ calls[c].pc = "login"
  /\ sessions[s] = "unused"
  /\ tokens[t].status = "unused"
  /\ sessions' = [sessions EXCEPT ![s] = "open"]
  /\ tokens' = Issue(tokens, t, None)
  /\ calls' = [calls EXCEPT ![c] = [pc |-> "answered", session |-> s,
                                    token |-> t, allowed |-> TRUE]]
  /\ UNCHANGED <<lapsed, held, dropped>>

-----------------------------------------------------------------------------

Init ==
  /\ sessions = [s \in Sessions |-> "unused"]
  /\ lapsed = {}
  /\ tokens = [t \in Tokens |-> [status |-> "unused", session |-> None]]
  /\ calls = [c \in Calls |-> Idle]
  /\ held = [s \in Sessions |-> None]
  /\ dropped = {}

(* Both deletes of prune_expired and the cascade from a deleted session.   *)
DeadSessions == {s \in Sessions : Kept(s) /\ ~Open(s)}

DeadTokens(dead) ==
  {t \in Tokens : \/ tokens[t].status = "revoked"
                  \/ tokens[t].status = "live" /\ tokens[t].session \in dead}

(* login, up to the commit in prune_expired.                               *)
PruneExpired(c) ==
  /\ calls[c].pc = "idle"
  /\ sessions' = [s \in Sessions |-> IF s \in DeadSessions THEN "deleted"
                                                           ELSE sessions[s]]
  /\ tokens' = [t \in Tokens |-> IF t \in DeadTokens(DeadSessions) THEN Gone ELSE tokens[t]]
  /\ calls' = [calls EXCEPT ![c].pc = "login"]
  /\ UNCHANGED <<lapsed, held, dropped>>

(* login, from there to its answer.                                        *)
StartSession(c, s, t) ==
  /\ calls[c].pc = "login"
  /\ sessions[s] = "unused"
  /\ tokens[t].status = "unused"
  /\ sessions' = [sessions EXCEPT ![s] = "open"]
  /\ tokens' = Issue(tokens, t, s)
  /\ calls' = [calls EXCEPT ![c] = [pc |-> "answered", session |-> s,
                                    token |-> t, allowed |-> TRUE]]
  /\ UNCHANGED <<lapsed, held, dropped>>

(* The client of a session presents the token it holds; several of its     *)
(* requests may do so at once.                                             *)
SendRefresh(c, s) ==
  /\ calls[c].pc = "idle"
  /\ held[s] # None
  /\ calls' = [calls EXCEPT ![c] = [pc |-> "sent", session |-> s,
                                    token |-> held[s], allowed |-> FALSE]]
  /\ UNCHANGED <<sessions, lapsed, tokens, held, dropped>>

Exchangeable(c) ==
  tokens[calls[c].token].status = "live" /\ calls[c].session \notin lapsed

(* refresh up to its commit: the token is read together with its session.  *)
LoadToken(c) ==
  /\ calls[c].pc = "sent"
  /\ Exchangeable(c)
  /\ calls' = [calls EXCEPT ![c].pc = "loaded",
                            ![c].allowed = Open(calls[c].session)]
  /\ UNCHANGED <<sessions, lapsed, tokens, held, dropped>>

(* An unknown, revoked or expired token is refused.                        *)
RefuseToken(c) ==
  /\ calls[c].pc = "sent"
  /\ ~Exchangeable(c)
  /\ calls' = [calls EXCEPT ![c] = Idle]
  /\ UNCHANGED <<sessions, lapsed, tokens, held, dropped>>

(* What the flush marks as rotated out.                                    *)
RotatedOut(c) == {calls[c].token}

(* The flush updates the rows as they are now; a row that is gone makes it *)
(* fail.  Only last_used_at of the session row is written.                 *)
CommitRefresh(c, t) ==
  /\ calls[c].pc = "loaded" /\ calls[c].allowed
  /\ tokens[calls[c].token].status # "deleted"
  /\ sessions[calls[c].session] # "deleted"
  /\ tokens[t].status = "unused"
  /\ tokens' = Issue(Revoked(RotatedOut(c)), t, calls[c].session)
  /\ calls' = [calls EXCEPT ![c].pc = "answered", ![c].token = t]
  /\ UNCHANGED <<sessions, lapsed, held, dropped>>

(* The session was over when it was read: the token is spent all the same. *)
CommitRefusal(c) ==
  /\ calls[c].pc = "loaded" /\ ~calls[c].allowed
  /\ tokens[calls[c].token].status # "deleted"
  /\ tokens' = Revoked({calls[c].token})
  /\ calls' = [calls EXCEPT ![c] = Idle]
  /\ UNCHANGED <<sessions, lapsed, held, dropped>>

(* A request that fails before its commit leaves the tables alone.         *)
RollBack(c) ==
  /\ calls[c].pc \in {"login", "loaded", "signedIn"}
  /\ calls' = [calls EXCEPT ![c] = Idle]
  /\ UNCHANGED <<sessions, lapsed, tokens, held, dropped>>

Receive(c) ==
  /\ calls[c].pc = "answered"
  /\ held' = [held EXCEPT ![calls[c].session] = calls[c].token]
  /\ calls' = [calls EXCEPT ![c] = Idle]
  /\ UNCHANGED <<sessions, lapsed, tokens, dropped>>

LoseAnswer(c) ==
  /\ calls[c].pc = "answered"
  /\ dropped' = dropped \cup {calls[c].session}
  /\ calls' = [calls EXCEPT ![c] = Idle]
  /\ UNCHANGED <<sessions, lapsed, tokens, held>>

(* revoke_session.                                                         *)
EndSession(s) ==
  /\ sessions' = [sessions EXCEPT ![s] = "revoked"]
  /\ tokens' = Revoked({t \in TokensOf(s) : tokens[t].status = "live"})

(* The answer clears the cookie of the session's client, if it arrives.    *)
ClearCookie(s) == held' \in {held, [held EXCEPT ![s] = None]}

(* A token the table still knows ends its session, used up or not.         *)
Logout(t) ==
  /\ tokens[t].status \in {"live", "revoked"}
  /\ EndSession(tokens[t].session)
  /\ ClearCookie(tokens[t].session)
  /\ UNCHANGED <<lapsed, calls, dropped>>

(* To a client with a token the table does not know the answer is the same.*)
LogoutUnknown(s) ==
  /\ held[s] # None /\ tokens[held[s]].status = "deleted"
  /\ ClearCookie(s)
  /\ UNCHANGED <<sessions, lapsed, tokens, calls, dropped>>

(* get_auth_context of a request that carries an access token of s, up to  *)
(* which the session is looked at, and not again.                          *)
Authenticate(c, s) ==
  /\ calls[c].pc = "idle"
  /\ Open(s)
  /\ calls' = [calls EXCEPT ![c] = [Idle EXCEPT !.pc = "signedIn", !.session = s]]
  /\ UNCHANGED <<sessions, lapsed, tokens, held, dropped>>

(* The user, signed in by then, ends one of the sessions.                  *)
RevokeSession(c, s) ==
  /\ calls[c].pc = "signedIn"
  /\ Kept(s)
  /\ EndSession(s)
  /\ IF s = calls[c].session THEN ClearCookie(s) ELSE UNCHANGED held
  /\ calls' = [calls EXCEPT ![c] = Idle]
  /\ UNCHANGED <<lapsed, dropped>>

(* Time passes a session's expires_at.                                     *)
Lapse(s) ==
  /\ Kept(s) /\ s \notin lapsed
  /\ lapsed' = lapsed \cup {s}
  /\ UNCHANGED <<sessions, tokens, calls, held, dropped>>

Next ==
  \/ \E c \in Calls :
       \/ PruneExpired(c)
       \/ \E s \in Sessions, t \in Tokens : StartSession(c, s, t)
       \/ \E s \in Sessions : SendRefresh(c, s)
       \/ LoadToken(c) \/ RefuseToken(c)
       \/ \E t \in Tokens : CommitRefresh(c, t)
       \/ CommitRefusal(c) \/ RollBack(c)
       \/ Receive(c) \/ LoseAnswer(c)
       \/ \E s \in Sessions : Authenticate(c, s) \/ RevokeSession(c, s)
  \/ \E t \in Tokens : Logout(t)
  \/ \E s \in Sessions : LogoutUnknown(s) \/ Lapse(s)

AuthSpec == Init /\ [][Next]_authVars

-----------------------------------------------------------------------------

AuthTypeOK ==
  /\ sessions \in [Sessions -> {"unused", "open", "revoked", "deleted"}]
  /\ lapsed \in SUBSET Sessions
  /\ tokens \in [Tokens -> Token]
  /\ \A t \in Tokens :
       tokens[t].session = None <=> tokens[t].status \in {"unused", "deleted"}
  /\ calls \in [Calls -> Call]
  /\ held \in [Sessions -> Tokens \cup {None}]
  /\ dropped \in SUBSET Sessions

(* No token row outlives its session's row, even one that a refresh adds   *)
(* after a login has pruned what the refresh had read.                     *)
TokensHaveTheirSession ==
  \A t \in Tokens : tokens[t].status \in {"live", "revoked"} => Kept(tokens[t].session)

(* A client that lost no answer keeps its place: while its session is open *)
(* and no answer is on its way, the token it holds can be exchanged, in    *)
(* whatever order overlapping refreshes, logins and failures came.         *)
ClientKeepsItsPlace ==
  \A s \in Sessions :
    /\ Open(s)
    /\ held[s] # None
    /\ s \notin dropped
    /\ \A c \in Calls : calls[c].pc = "answered" => calls[c].session # s
    => tokens[held[s]].status = "live"

(* Signing out, revoking and expiring are final: no refresh that is under  *)
(* way reopens the session.                                                *)
EndedStaysEnded ==
  [][\A s \in Sessions : sessions[s] # "unused" /\ ~Open(s) => ~Open(s)']_authVars

(* A session that is over gives out no more tokens once the refreshes that *)
(* had read it open are through, although one of those may have left a     *)
(* live token behind.                                                      *)
NoTokenAfterTheEnd ==
  [][\A s \in Sessions :
       /\ sessions[s] # "unused" /\ ~Open(s)
       /\ \A c \in Calls : calls[c].pc = "loaded" /\ calls[c].session = s =>
            ~calls[c].allowed
       => /\ TokensOf(s)' \subseteq TokensOf(s)
          /\ \A c \in Calls : calls'[c].pc = "loaded" /\ calls'[c].session = s =>
               ~calls'[c].allowed
    ]_authVars

(* The housekeeping at login deletes nothing that is live.                 *)
PruneSparesTheLiving ==
  [][\A s \in Sessions : Open(s) =>
       /\ sessions'[s] # "deleted"
       /\ \A t \in TokensOf(s) : tokens[t].status = "live" => tokens'[t].status # "deleted"
    ]_authVars

(* The repository's notes on refreshing: a token is used once, so of the   *)
(* requests of a client that present the same one the first commit makes   *)
(* the others fail.                                                        *)
OverlappingRefreshesFail ==
  [][\A c \in Calls :
       /\ calls[c].pc = "loaded" /\ calls'[c].pc = "answered"
       /\ Open(calls[c].session)
       => tokens[calls[c].token].status = "live"
    ]_authVars
=============================================================================
