------------------------- MODULE AuthSessionsProofs -------------------------
(***************************************************************************)
(* Proofs about AuthSessions, for any number of sessions, tokens and       *)
(* requests.  The inductive invariant adds to the types and to             *)
(* TokensHaveTheirSession that the token a request or a client has in hand *)
(* was issued, and, unless its row is gone, for the session it is used     *)
(* for: what a refresh read under one session it writes under that one.    *)
(***************************************************************************)
EXTENDS AuthSessions, TLAPS

Issued(t, s) ==
  /\ t \in Tokens
  /\ tokens[t].status # "unused"
  /\ tokens[t].status # "deleted" => tokens[t].session = s

(* The same of the next state, for a token that is already in hand.        *)
IssuedNext(t, s) ==
  /\ t \in Tokens
  /\ tokens'[t].status # "unused"
  /\ tokens'[t].status # "deleted" => tokens'[t].session = s

CallsAreWired ==
  \A c \in Calls :
    /\ calls[c].pc \in {"sent", "loaded", "answered"} =>
         calls[c].session \in Sessions /\ Issued(calls[c].token, calls[c].session)
    /\ calls[c].pc = "signedIn" => calls[c].session \in Sessions

HeldAreWired == \A s \in Sessions : held[s] # None => Issued(held[s], s)

AuthInv ==
  /\ AuthTypeOK
  /\ TokensHaveTheirSession
  /\ CallsAreWired
  /\ HeldAreWired

LEMMA InitAuthInv == Init => AuthInv
<1> SUFFICES ASSUME Init PROVE AuthInv
  OBVIOUS
<1>1. AuthTypeOK
  BY DEF Init, AuthTypeOK, Token, Call, Idle
<1>2. TokensHaveTheirSession /\ HeldAreWired
  BY DEF Init, TokensHaveTheirSession, HeldAreWired
<1>3. CallsAreWired
  BY DEF Init, CallsAreWired, Idle
<1> QED
  BY <1>1, <1>2, <1>3 DEF AuthInv

-----------------------------------------------------------------------------
(* What the steps do to the two tables.  An issued token is never taken    *)
(* back to unused, never moved to another session, and a row that is gone  *)
(* stays gone.                                                             *)
TablesMove ==
  /\ sessions' \in [Sessions -> {"unused", "open", "revoked", "deleted"}]
  /\ tokens' \in [Tokens -> Token]
  /\ (\A t \in Tokens :
        tokens[t].session = None <=> tokens[t].status \in {"unused", "deleted"})'
  /\ TokensHaveTheirSession'
  /\ \A t \in Tokens :
       /\ tokens[t].status # "unused" => tokens'[t].status # "unused"
       /\ tokens[t].status = "deleted" => tokens'[t].status = "deleted"
       /\ tokens[t].status # "unused" /\ tokens'[t].status # "deleted" =>
            tokens'[t].session = tokens[t].session

LEMMA TablesStay ==
  ASSUME AuthInv, UNCHANGED <<sessions, tokens>>
  PROVE  TablesMove
BY DEF AuthInv, AuthTypeOK, TokensHaveTheirSession, TablesMove, Kept

LEMMA IssuedStays ==
  ASSUME TablesMove, NEW t, NEW s, Issued(t, s)
  PROVE  IssuedNext(t, s)
BY DEF TablesMove, Issued, IssuedNext

LEMMA RevokedTokens ==
  ASSUME AuthTypeOK, NEW some \in SUBSET Tokens,
         \A t \in some : tokens[t].status \in {"live", "revoked"}
  PROVE  /\ Revoked(some) \in [Tokens -> Token]
         /\ \A t \in Tokens :
              /\ Revoked(some)[t].session = tokens[t].session
              /\ Revoked(some)[t].status =
                   IF t \in some THEN "revoked" ELSE tokens[t].status
BY DEF AuthTypeOK, Token, Revoked

LEMMA PruneMoves ==
  ASSUME AuthInv, NEW c \in Calls, PruneExpired(c)
  PROVE  TablesMove
<1>1. /\ sessions' = [s \in Sessions |-> IF s \in DeadSessions THEN "deleted"
                                                              ELSE sessions[s]]
      /\ tokens' = [t \in Tokens |-> IF t \in DeadTokens(DeadSessions) THEN Gone
                                                                       ELSE tokens[t]]
      /\ AuthTypeOK
  BY DEF PruneExpired, AuthInv
<1>2. Gone \in Token /\ Gone.status = "deleted" /\ Gone.session = None
  BY DEF Gone, Token
<1> HIDE DEF Gone
<1>3. /\ sessions' \in [Sessions -> {"unused", "open", "revoked", "deleted"}]
      /\ tokens' \in [Tokens -> Token]
  BY <1>1, <1>2 DEF AuthTypeOK
<1>4. ASSUME NEW t \in Tokens
      PROVE  \/ tokens'[t] = Gone /\ tokens[t].status \in {"live", "revoked"}
             \/ tokens'[t] = tokens[t] /\ t \notin DeadTokens(DeadSessions)
  BY <1>1 DEF DeadTokens
<1>5. ASSUME NEW t \in Tokens, tokens'[t].status \in {"live", "revoked"}
      PROVE  Kept(tokens[t].session)'
  <2>1. tokens'[t] = tokens[t] /\ t \notin DeadTokens(DeadSessions)
    BY <1>2, <1>4, <1>5
  <2>2. tokens[t].status = "live" /\ tokens[t].session \notin DeadSessions
    BY <1>5, <2>1 DEF DeadTokens
  <2>3. tokens[t].session \in Sessions /\ Kept(tokens[t].session)
    BY <1>1, <2>2 DEF AuthInv, TokensHaveTheirSession, AuthTypeOK, Token
  <2>4. sessions'[tokens[t].session] = sessions[tokens[t].session]
    BY <1>1, <2>2, <2>3
  <2>5. tokens'[t].session = tokens[t].session
    BY <2>1
  <2> QED
    BY <2>3, <2>4, <2>5 DEF Kept
<1>6. TokensHaveTheirSession'
  <2> SUFFICES ASSUME NEW t \in Tokens, tokens'[t].status \in {"live", "revoked"}
               PROVE  Kept(tokens[t].session)'
    BY DEF TokensHaveTheirSession
  <2> QED
    BY <1>5
<1>7. \A t \in Tokens :
        tokens'[t].session = None <=> tokens'[t].status \in {"unused", "deleted"}
  BY <1>1, <1>2, <1>4 DEF AuthTypeOK
<1> QED
  BY <1>2, <1>3, <1>4, <1>6, <1>7 DEF TablesMove

(* A session that is there gets a token nobody has, while others may be    *)
(* rotated out.                                                            *)
LEMMA IssueMoves ==
  ASSUME AuthInv, NEW s \in Sessions, NEW t \in Tokens, NEW some \in SUBSET Tokens,
         \A u \in some : tokens[u].status \in {"live", "revoked"},
         tokens[t].status = "unused",
         sessions' \in [Sessions -> {"unused", "open", "revoked", "deleted"}],
         \A v \in Sessions : Kept(v) => Kept(v)',
         Kept(s)',
         tokens' = Issue(Revoked(some), t, s)
  PROVE  TablesMove
<1>1. /\ Revoked(some) \in [Tokens -> Token]
      /\ \A u \in Tokens :
           /\ Revoked(some)[u].session = tokens[u].session
           /\ Revoked(some)[u].status =
                IF u \in some THEN "revoked" ELSE tokens[u].status
  BY RevokedTokens DEF AuthInv
<1>2. [status |-> "live", session |-> s] \in Token
  BY DEF Token
<1>3. /\ tokens' \in [Tokens -> Token]
      /\ tokens'[t] = [status |-> "live", session |-> s]
      /\ \A u \in Tokens \ {t} : tokens'[u] = Revoked(some)[u]
  BY <1>1, <1>2 DEF Issue
<1>4. /\ tokens'[t].status = "live" /\ tokens'[t].session = s
      /\ \A u \in Tokens \ {t} :
           /\ tokens'[u].session = tokens[u].session
           /\ tokens'[u].status = IF u \in some THEN "revoked" ELSE tokens[u].status
  BY <1>1, <1>3
<1>5. \A u \in Tokens :
        tokens'[u].session = None <=> tokens'[u].status \in {"unused", "deleted"}
  BY <1>4, NoneIsNothing DEF AuthInv, AuthTypeOK
<1>6. ASSUME NEW u \in Tokens, tokens'[u].status \in {"live", "revoked"}
      PROVE  Kept(tokens[u].session)'
  <2>1. CASE u = t
    BY <1>4, <2>1 DEF Kept
  <2>2. CASE u # t
    <3>1. tokens[u].status \in {"live", "revoked"} /\ tokens'[u].session = tokens[u].session
      BY <1>4, <1>6, <2>2
    <3>2. tokens[u].session \in Sessions /\ Kept(tokens[u].session)
      BY <3>1 DEF AuthInv, AuthTypeOK, Token, TokensHaveTheirSession
    <3> QED
      BY <3>1, <3>2 DEF Kept
  <2> QED
    BY <2>1, <2>2
<1>7. TokensHaveTheirSession'
  BY <1>6 DEF TokensHaveTheirSession
<1> QED
  BY <1>3, <1>4, <1>5, <1>7 DEF TablesMove

(* Revoking tokens disturbs nothing, as long as no session is deleted.     *)
LEMMA RevokeMoves ==
  ASSUME AuthInv, NEW some \in SUBSET Tokens,
         \A u \in some : tokens[u].status \in {"live", "revoked"},
         sessions' \in [Sessions -> {"unused", "open", "revoked", "deleted"}],
         \A v \in Sessions : Kept(v) => Kept(v)',
         tokens' = Revoked(some)
  PROVE  TablesMove
<1>1. /\ tokens' \in [Tokens -> Token]
      /\ \A u \in Tokens :
           /\ tokens'[u].session = tokens[u].session
           /\ tokens'[u].status = IF u \in some THEN "revoked" ELSE tokens[u].status
  BY RevokedTokens DEF AuthInv
<1>2. \A u \in Tokens :
        tokens'[u].session = None <=> tokens'[u].status \in {"unused", "deleted"}
  BY <1>1 DEF AuthInv, AuthTypeOK
<1>3. ASSUME NEW u \in Tokens, tokens'[u].status \in {"live", "revoked"}
      PROVE  Kept(tokens[u].session)'
  <2>1. tokens[u].status \in {"live", "revoked"} /\ tokens'[u].session = tokens[u].session
    BY <1>1, <1>3
  <2>2. tokens[u].session \in Sessions /\ Kept(tokens[u].session)
    BY <2>1 DEF AuthInv, AuthTypeOK, Token, TokensHaveTheirSession
  <2> QED
    BY <2>1, <2>2 DEF Kept
<1>4. TokensHaveTheirSession'
  BY <1>3 DEF TokensHaveTheirSession
<1> QED
  BY <1>1, <1>2, <1>4 DEF TablesMove

LEMMA EndSessionMoves ==
  ASSUME AuthInv, NEW s \in Sessions, Kept(s), EndSession(s)
  PROVE  TablesMove
<1> DEFINE some == {t \in TokensOf(s) : tokens[t].status = "live"}
<1>1. /\ some \in SUBSET Tokens
      /\ \A u \in some : tokens[u].status \in {"live", "revoked"}
      /\ tokens' = Revoked(some)
  BY DEF TokensOf, EndSession
<1>2. /\ sessions' \in [Sessions -> {"unused", "open", "revoked", "deleted"}]
      /\ sessions'[s] = "revoked"
      /\ \A v \in Sessions \ {s} : sessions'[v] = sessions[v]
  BY DEF EndSession, AuthInv, AuthTypeOK
<1>3. \A v \in Sessions : Kept(v) => Kept(v)'
  BY <1>2 DEF Kept
<1> HIDE DEF some
<1> QED
  BY <1>1, <1>2, <1>3, RevokeMoves

-----------------------------------------------------------------------------
(* What a request may become: one that has in hand only a token that was   *)
(* issued for its session.                                                 *)
WiredNext(call) ==
  /\ call \in Call
  /\ call.pc \in {"sent", "loaded", "answered"} =>
       call.session \in Sessions /\ IssuedNext(call.token, call.session)
  /\ call.pc = "signedIn" => call.session \in Sessions

LEMMA WiredStays ==
  ASSUME AuthInv, TablesMove, NEW c \in Calls
  PROVE  WiredNext(calls[c])
<1>1. calls[c] \in Call
  BY DEF AuthInv, AuthTypeOK
<1> QED
  BY <1>1, IssuedStays DEF AuthInv, CallsAreWired, WiredNext

LEMMA IdleIsWired == WiredNext(Idle)
BY DEF Idle, Call, WiredNext

LEMMA Rewire ==
  ASSUME AuthInv, TablesMove,
         lapsed' \in SUBSET Sessions, dropped' \in SUBSET Sessions,
         NEW c \in Calls, NEW call, WiredNext(call),
         calls' = [calls EXCEPT ![c] = call],
         held' \in [Sessions -> Tokens \cup {None}],
         \A s \in Sessions :
           held'[s] = held[s] \/ held'[s] = None \/ IssuedNext(held'[s], s)
  PROVE  AuthInv'
<1>1. calls \in [Calls -> Call]
  BY DEF AuthInv, AuthTypeOK
<1>2. /\ calls' \in [Calls -> Call]
      /\ \A d \in Calls : calls'[d] = calls[d] \/ calls'[d] = call
  BY <1>1 DEF WiredNext
<1>3. ASSUME NEW d \in Calls
      PROVE  WiredNext(calls'[d])
  BY <1>2, WiredStays
<1>4. CallsAreWired'
  BY <1>3 DEF CallsAreWired, WiredNext, IssuedNext, Issued
<1>5. ASSUME NEW s \in Sessions, held'[s] # None
      PROVE  IssuedNext(held'[s], s)
  <2>1. CASE held'[s] = held[s]
    BY <1>5, <2>1, IssuedStays DEF AuthInv, HeldAreWired
  <2> QED
    BY <1>5, <2>1
<1>6. HeldAreWired'
  BY <1>5 DEF HeldAreWired, IssuedNext, Issued
<1>7. AuthTypeOK' /\ TokensHaveTheirSession'
  BY <1>2 DEF AuthTypeOK, TablesMove
<1> QED
  BY <1>4, <1>6, <1>7 DEF AuthInv

(* The common case: the clients' cookies and the clock stay.               *)
LEMMA RewireCall ==
  ASSUME AuthInv, TablesMove, UNCHANGED <<lapsed, held, dropped>>,
         NEW c \in Calls, NEW call, WiredNext(call),
         calls' = [calls EXCEPT ![c] = call]
  PROVE  AuthInv'
<1>1. /\ lapsed' \in SUBSET Sessions /\ dropped' \in SUBSET Sessions
      /\ held' \in [Sessions -> Tokens \cup {None}]
      /\ \A s \in Sessions : held'[s] = held[s]
  BY DEF AuthInv, AuthTypeOK
<1> QED
  BY <1>1, Rewire

(* And for the steps of no request.                                        *)
LEMMA RewireNothing ==
  ASSUME AuthInv, TablesMove, calls' = calls,
         lapsed' \in SUBSET Sessions, dropped' = dropped,
         held' \in [Sessions -> Tokens \cup {None}],
         \A s \in Sessions : held'[s] = held[s] \/ held'[s] = None
  PROVE  AuthInv'
<1>1. ASSUME NEW d \in Calls
      PROVE  WiredNext(calls[d])
  BY WiredStays
<1>2. CallsAreWired'
  BY <1>1 DEF CallsAreWired, WiredNext, IssuedNext, Issued
<1>3. ASSUME NEW s \in Sessions, held'[s] # None
      PROVE  IssuedNext(held'[s], s)
  BY <1>3, IssuedStays DEF AuthInv, HeldAreWired
<1>4. HeldAreWired'
  BY <1>3 DEF HeldAreWired, IssuedNext, Issued
<1>5. AuthTypeOK' /\ TokensHaveTheirSession'
  BY DEF AuthInv, AuthTypeOK, TablesMove
<1> QED
  BY <1>2, <1>4, <1>5 DEF AuthInv

-----------------------------------------------------------------------------

LEMMA PruneExpiredInv ==
  ASSUME AuthInv, NEW c \in Calls, PruneExpired(c)
  PROVE  AuthInv'
<1> DEFINE call == [calls[c] EXCEPT !.pc = "login"]
<1>1. calls[c] \in Call
  BY DEF AuthInv, AuthTypeOK
<1>2. WiredNext(call)
  BY <1>1 DEF WiredNext, Call
<1>3. calls' = [calls EXCEPT ![c] = call] /\ UNCHANGED <<lapsed, held, dropped>>
  BY DEF PruneExpired
<1> HIDE DEF call
<1> QED
  BY <1>2, <1>3, PruneMoves, RewireCall

LEMMA StartSessionInv ==
  ASSUME AuthInv, NEW c \in Calls, NEW s \in Sessions, NEW t \in Tokens,
         StartSession(c, s, t)
  PROVE  AuthInv'
<1> DEFINE call == [pc |-> "answered", session |-> s, token |-> t, allowed |-> TRUE]
<1>1. /\ sessions[s] = "unused" /\ tokens[t].status = "unused"
      /\ sessions' = [sessions EXCEPT ![s] = "open"]
      /\ tokens' = Issue(tokens, t, s)
      /\ calls' = [calls EXCEPT ![c] = call] /\ UNCHANGED <<lapsed, held, dropped>>
  BY DEF StartSession
<1>2. Revoked({}) = tokens
  BY DEF Revoked, AuthInv, AuthTypeOK
<1>3. /\ sessions' \in [Sessions -> {"unused", "open", "revoked", "deleted"}]
      /\ \A v \in Sessions : Kept(v) => Kept(v)'
      /\ Kept(s)'
  BY <1>1 DEF AuthInv, AuthTypeOK, Kept
<1>4. TablesMove
  BY <1>1, <1>2, <1>3, IssueMoves
<1>5. tokens'[t].status = "live" /\ tokens'[t].session = s
  BY <1>1 DEF Issue, AuthInv, AuthTypeOK
<1>6. WiredNext(call)
  BY <1>5 DEF WiredNext, IssuedNext, Call
<1> HIDE DEF call
<1> QED
  BY <1>1, <1>4, <1>6, RewireCall

LEMMA SendRefreshInv ==
  ASSUME AuthInv, NEW c \in Calls, NEW s \in Sessions, SendRefresh(c, s)
  PROVE  AuthInv'
<1> DEFINE call == [pc |-> "sent", session |-> s, token |-> held[s], allowed |-> FALSE]
<1>1. /\ held[s] # None /\ calls' = [calls EXCEPT ![c] = call]
      /\ UNCHANGED <<sessions, lapsed, tokens, held, dropped>>
  BY DEF SendRefresh
<1>2. TablesMove
  BY <1>1, TablesStay
<1>3. IssuedNext(held[s], s)
  BY <1>1, <1>2, IssuedStays DEF AuthInv, HeldAreWired
<1>4. WiredNext(call)
  BY <1>3 DEF WiredNext, IssuedNext, Call
<1> HIDE DEF call
<1> QED
  BY <1>1, <1>2, <1>4, RewireCall

LEMMA LoadTokenInv ==
  ASSUME AuthInv, NEW c \in Calls, LoadToken(c)
  PROVE  AuthInv'
<1> DEFINE call == [calls[c] EXCEPT !.pc = "loaded", !.allowed = Open(calls[c].session)]
<1>1. /\ calls[c].pc = "sent" /\ calls' = [calls EXCEPT ![c] = call]
      /\ UNCHANGED <<sessions, lapsed, tokens, held, dropped>>
  BY DEF LoadToken
<1>2. TablesMove
  BY <1>1, TablesStay
<1>3. WiredNext(calls[c])
  BY <1>2, WiredStays
<1>4. Open(calls[c].session) \in BOOLEAN
  BY DEF Open
<1>5. call \in Call /\ call.session = calls[c].session /\ call.token = calls[c].token
      /\ call.pc = "loaded"
  BY <1>3, <1>4 DEF WiredNext, Call
<1>6. WiredNext(call)
  BY <1>1, <1>3, <1>5 DEF WiredNext
<1> HIDE DEF call
<1> QED
  BY <1>1, <1>2, <1>6, RewireCall

(* A request that ends without having written anything.                    *)
LEMMA LetGoInv ==
  ASSUME AuthInv, NEW c \in Calls, calls' = [calls EXCEPT ![c] = Idle],
         UNCHANGED <<sessions, lapsed, tokens, held, dropped>>
  PROVE  AuthInv'
BY TablesStay, IdleIsWired, RewireCall

(* The token in hand of a refresh whose row is there is live or revoked,   *)
(* and its session's row is there.                                         *)
LEMMA LoadedToken ==
  ASSUME AuthInv, NEW c \in Calls, calls[c].pc = "loaded",
         tokens[calls[c].token].status # "deleted"
  PROVE  /\ calls[c].token \in Tokens /\ calls[c].session \in Sessions
         /\ tokens[calls[c].token].status \in {"live", "revoked"}
         /\ Kept(calls[c].session)
<1>1. calls[c].session \in Sessions /\ Issued(calls[c].token, calls[c].session)
  BY DEF AuthInv, CallsAreWired
<1> QED
  BY <1>1 DEF Issued, AuthInv, AuthTypeOK, Token, TokensHaveTheirSession

LEMMA CommitRefreshInv ==
  ASSUME AuthInv, NEW c \in Calls, NEW t \in Tokens, CommitRefresh(c, t)
  PROVE  AuthInv'
<1> DEFINE call == [calls[c] EXCEPT !.pc = "answered", !.token = t]
           s == calls[c].session
<1>1. /\ calls[c].pc = "loaded" /\ tokens[calls[c].token].status # "deleted"
      /\ tokens[t].status = "unused"
      /\ tokens' = Issue(Revoked({calls[c].token}), t, s)
      /\ calls' = [calls EXCEPT ![c] = call]
      /\ UNCHANGED <<sessions, lapsed, held, dropped>>
  BY DEF CommitRefresh, RotatedOut
<1>2. /\ calls[c].token \in Tokens /\ s \in Sessions /\ Kept(s)
      /\ tokens[calls[c].token].status \in {"live", "revoked"}
  BY <1>1, LoadedToken
<1>3. /\ sessions' \in [Sessions -> {"unused", "open", "revoked", "deleted"}]
      /\ \A v \in Sessions : Kept(v) => Kept(v)'
      /\ sessions'[s] \in {"open", "revoked"}
  BY <1>1, <1>2 DEF AuthInv, AuthTypeOK, Kept
<1>4. calls[c] \in Call
  BY DEF AuthInv, AuthTypeOK
<1>5. /\ call \in Call /\ call.pc = "answered" /\ call.session = s /\ call.token = t
  BY <1>4 DEF Call
<1> HIDE DEF call, s
<1>6. TablesMove
  BY <1>1, <1>2, <1>3, IssueMoves DEF Kept
<1>7. tokens'[t].status = "live" /\ tokens'[t].session = s
  <2>1. Revoked({calls[c].token}) \in [Tokens -> Token]
    BY <1>2, RevokedTokens DEF AuthInv
  <2> QED
    BY <1>1, <2>1 DEF Issue
<1>8. WiredNext(call)
  BY <1>2, <1>5, <1>7 DEF WiredNext, IssuedNext
<1> QED
  BY <1>1, <1>6, <1>8, RewireCall

LEMMA CommitRefusalInv ==
  ASSUME AuthInv, NEW c \in Calls, CommitRefusal(c)
  PROVE  AuthInv'
<1>1. /\ calls[c].pc = "loaded" /\ tokens[calls[c].token].status # "deleted"
      /\ tokens' = Revoked({calls[c].token})
      /\ calls' = [calls EXCEPT ![c] = Idle]
      /\ UNCHANGED <<sessions, lapsed, held, dropped>>
  BY DEF CommitRefusal
<1>2. /\ calls[c].token \in Tokens
      /\ tokens[calls[c].token].status \in {"live", "revoked"}
  BY <1>1, LoadedToken
<1>3. /\ sessions' \in [Sessions -> {"unused", "open", "revoked", "deleted"}]
      /\ \A v \in Sessions : Kept(v) => Kept(v)'
  BY <1>1 DEF AuthInv, AuthTypeOK, Kept
<1>4. TablesMove
  BY <1>1, <1>2, <1>3, RevokeMoves
<1> QED
  BY <1>1, <1>4, IdleIsWired, RewireCall

LEMMA ReceiveInv ==
  ASSUME AuthInv, NEW c \in Calls, Receive(c)
  PROVE  AuthInv'
<1> DEFINE s == calls[c].session
<1>1. /\ calls[c].pc = "answered" /\ held' = [held EXCEPT ![s] = calls[c].token]
      /\ calls' = [calls EXCEPT ![c] = Idle]
      /\ UNCHANGED <<sessions, lapsed, tokens, dropped>>
  BY DEF Receive
<1>2. TablesMove
  BY <1>1, TablesStay
<1>3. s \in Sessions /\ IssuedNext(calls[c].token, s)
  BY <1>1, <1>2, WiredStays DEF WiredNext
<1>4. held \in [Sessions -> Tokens \cup {None}]
  BY DEF AuthInv, AuthTypeOK
<1> HIDE DEF s
<1>5. /\ held' \in [Sessions -> Tokens \cup {None}]
      /\ \A v \in Sessions : held'[v] = held[v] \/ IssuedNext(held'[v], v)
  BY <1>1, <1>3, <1>4 DEF IssuedNext
<1>6. lapsed' \in SUBSET Sessions /\ dropped' \in SUBSET Sessions
  BY <1>1 DEF AuthInv, AuthTypeOK
<1> QED
  BY <1>1, <1>2, <1>5, <1>6, IdleIsWired, Rewire

LEMMA LoseAnswerInv ==
  ASSUME AuthInv, NEW c \in Calls, LoseAnswer(c)
  PROVE  AuthInv'
<1>1. /\ calls[c].pc = "answered" /\ dropped' = dropped \cup {calls[c].session}
      /\ calls' = [calls EXCEPT ![c] = Idle]
      /\ UNCHANGED <<sessions, lapsed, tokens, held>>
  BY DEF LoseAnswer
<1>2. calls[c].session \in Sessions
  BY <1>1 DEF AuthInv, CallsAreWired
<1>3. /\ lapsed' \in SUBSET Sessions /\ dropped' \in SUBSET Sessions
      /\ held' \in [Sessions -> Tokens \cup {None}]
      /\ \A s \in Sessions : held'[s] = held[s]
  BY <1>1, <1>2 DEF AuthInv, AuthTypeOK
<1>4. TablesMove
  BY <1>1, TablesStay
<1> QED
  BY <1>1, <1>3, <1>4, IdleIsWired, Rewire

LEMMA ClearedCookie ==
  ASSUME AuthInv, NEW s, ClearCookie(s)
  PROVE  /\ held' \in [Sessions -> Tokens \cup {None}]
         /\ \A v \in Sessions : held'[v] = held[v] \/ held'[v] = None
BY DEF ClearCookie, AuthInv, AuthTypeOK

LEMMA LogoutInv ==
  ASSUME AuthInv, NEW t \in Tokens, Logout(t)
  PROVE  AuthInv'
<1> DEFINE s == tokens[t].session
<1>1. /\ tokens[t].status \in {"live", "revoked"}
      /\ EndSession(s) /\ ClearCookie(s) /\ UNCHANGED <<lapsed, calls, dropped>>
  BY DEF Logout
<1>2. s \in Sessions /\ Kept(s)
  BY <1>1 DEF AuthInv, AuthTypeOK, Token, TokensHaveTheirSession
<1> HIDE DEF s
<1>3. lapsed' \in SUBSET Sessions
  BY <1>1 DEF AuthInv, AuthTypeOK
<1> QED
  BY <1>1, <1>2, <1>3, EndSessionMoves, ClearedCookie, RewireNothing

LEMMA RevokeSessionInv ==
  ASSUME AuthInv, NEW c \in Calls, NEW s \in Sessions, RevokeSession(c, s)
  PROVE  AuthInv'
<1>1. /\ Kept(s) /\ EndSession(s) /\ calls' = [calls EXCEPT ![c] = Idle]
      /\ ClearCookie(s) \/ UNCHANGED held
      /\ UNCHANGED <<lapsed, dropped>>
  BY DEF RevokeSession
<1>2. /\ held' \in [Sessions -> Tokens \cup {None}]
      /\ \A v \in Sessions : held'[v] = held[v] \/ held'[v] = None
  <2>1. CASE ClearCookie(s)
    BY <2>1, ClearedCookie
  <2>2. CASE UNCHANGED held
    BY <2>2 DEF AuthInv, AuthTypeOK
  <2> QED
    BY <1>1, <2>1, <2>2
<1>3. lapsed' \in SUBSET Sessions /\ dropped' \in SUBSET Sessions
  BY <1>1 DEF AuthInv, AuthTypeOK
<1> QED
  BY <1>1, <1>2, <1>3, EndSessionMoves, IdleIsWired, Rewire

LEMMA AuthenticateInv ==
  ASSUME AuthInv, NEW c \in Calls, NEW s \in Sessions, Authenticate(c, s)
  PROVE  AuthInv'
<1> DEFINE call == [Idle EXCEPT !.pc = "signedIn", !.session = s]
<1>1. /\ calls' = [calls EXCEPT ![c] = call]
      /\ UNCHANGED <<sessions, lapsed, tokens, held, dropped>>
  BY DEF Authenticate
<1>2. WiredNext(call)
  BY DEF WiredNext, Idle, Call
<1> HIDE DEF call
<1> QED
  BY <1>1, <1>2, TablesStay, RewireCall

LEMMA NextAuthInv ==
  ASSUME AuthInv, [Next]_authVars
  PROVE  AuthInv'
<1>1. ASSUME NEW c \in Calls, PruneExpired(c)
      PROVE  AuthInv'
  BY <1>1, PruneExpiredInv
<1>2. ASSUME NEW c \in Calls, NEW s \in Sessions, NEW t \in Tokens, StartSession(c, s, t)
      PROVE  AuthInv'
  BY <1>2, StartSessionInv
<1>3. ASSUME NEW c \in Calls, NEW s \in Sessions,
             SendRefresh(c, s) \/ Authenticate(c, s) \/ RevokeSession(c, s)
      PROVE  AuthInv'
  BY <1>3, SendRefreshInv, AuthenticateInv, RevokeSessionInv
<1>4. ASSUME NEW c \in Calls, LoadToken(c) \/ CommitRefusal(c) \/ Receive(c) \/ LoseAnswer(c)
      PROVE  AuthInv'
  BY <1>4, LoadTokenInv, CommitRefusalInv, ReceiveInv, LoseAnswerInv
<1>5. ASSUME NEW c \in Calls, RefuseToken(c) \/ RollBack(c)
      PROVE  AuthInv'
  BY <1>5, LetGoInv DEF RefuseToken, RollBack
<1>6. ASSUME NEW c \in Calls, NEW t \in Tokens, CommitRefresh(c, t)
      PROVE  AuthInv'
  BY <1>6, CommitRefreshInv
<1>7. ASSUME NEW t \in Tokens, Logout(t)
      PROVE  AuthInv'
  BY <1>7, LogoutInv
<1>8. ASSUME NEW s \in Sessions, LogoutUnknown(s)
      PROVE  AuthInv'
  <2>1. UNCHANGED <<sessions, lapsed, tokens, calls, dropped>> /\ ClearCookie(s)
    BY <1>8 DEF LogoutUnknown
  <2>2. lapsed' \in SUBSET Sessions
    BY <2>1 DEF AuthInv, AuthTypeOK
  <2> QED
    BY <2>1, <2>2, TablesStay, ClearedCookie, RewireNothing
<1>9. ASSUME NEW s \in Sessions, Lapse(s)
      PROVE  AuthInv'
  <2>1. UNCHANGED <<sessions, tokens, calls, held, dropped>>
    BY <1>9 DEF Lapse
  <2>2. /\ lapsed' \in SUBSET Sessions /\ held' \in [Sessions -> Tokens \cup {None}]
        /\ \A v \in Sessions : held'[v] = held[v]
    BY <1>9, <2>1 DEF Lapse, AuthInv, AuthTypeOK
  <2> QED
    BY <2>1, <2>2, TablesStay, RewireNothing
<1>10. CASE UNCHANGED authVars
  <2>1. UNCHANGED <<sessions, lapsed, tokens, calls, held, dropped>>
    BY <1>10 DEF authVars
  <2>2. /\ lapsed' \in SUBSET Sessions /\ held' \in [Sessions -> Tokens \cup {None}]
        /\ \A v \in Sessions : held'[v] = held[v]
    BY <2>1 DEF AuthInv, AuthTypeOK
  <2> QED
    BY <2>1, <2>2, TablesStay, RewireNothing
<1> QED
  BY <1>1, <1>2, <1>3, <1>4, <1>5, <1>6, <1>7, <1>8, <1>9, <1>10 DEF Next

-----------------------------------------------------------------------------

(* In every reachable state of the sessions the inductive invariant holds. *)
THEOREM AuthInvariance == AuthSpec => []AuthInv
<1>1. Init => AuthInv
  BY InitAuthInv
<1>2. AuthInv /\ [Next]_authVars => AuthInv'
  BY NextAuthInv
<1> QED
  BY <1>1, <1>2, PTL DEF AuthSpec

(* The tables, the requests and the clients keep their types, and only an  *)
(* issued token names a session.                                           *)
THEOREM AuthTypeCorrect == AuthSpec => []AuthTypeOK
<1>1. AuthInv => AuthTypeOK
  BY DEF AuthInv
<1> QED
  BY <1>1, AuthInvariance, PTL

(* No token row outlives its session's row, although a refresh adds its    *)
(* token to a session it has read before, and without a lock.              *)
THEOREM TokensHaveTheirSessionHolds == AuthSpec => []TokensHaveTheirSession
<1>1. AuthInv => TokensHaveTheirSession
  BY DEF AuthInv
<1> QED
  BY <1>1, AuthInvariance, PTL

(* The row of a session only moves on: opened once, then revoked or        *)
(* deleted, and time takes no expiry back.                                 *)
LEMMA SessionsMoveOn ==
  ASSUME AuthTypeOK, [Next]_authVars, NEW s \in Sessions,
         sessions[s] # "unused", sessions'[s] = "open"
  PROVE  sessions[s] = "open" /\ lapsed \subseteq lapsed'
<1>1. ASSUME NEW v, EndSession(v)
      PROVE  sessions[s] = "open"
  BY <1>1 DEF EndSession, AuthTypeOK
<1>2. ASSUME NEW c \in Calls, PruneExpired(c)
      PROVE  sessions[s] = "open" /\ lapsed' = lapsed
  BY <1>2 DEF PruneExpired
<1>3. ASSUME NEW c \in Calls, NEW v \in Sessions, NEW t \in Tokens, StartSession(c, v, t)
      PROVE  sessions[s] = "open" /\ lapsed' = lapsed
  BY <1>3 DEF StartSession, AuthTypeOK
<1>4. ASSUME NEW c \in Calls, NEW v \in Sessions, RevokeSession(c, v)
      PROVE  sessions[s] = "open" /\ lapsed' = lapsed
  BY <1>1, <1>4 DEF RevokeSession
<1>5. ASSUME NEW t \in Tokens, Logout(t)
      PROVE  sessions[s] = "open" /\ lapsed' = lapsed
  BY <1>1, <1>5 DEF Logout
<1>6. ASSUME NEW c \in Calls,
             \/ \E v \in Sessions : SendRefresh(c, v) \/ Authenticate(c, v)
             \/ LoadToken(c) \/ RefuseToken(c)
             \/ \E t \in Tokens : CommitRefresh(c, t)
             \/ CommitRefusal(c) \/ RollBack(c) \/ Receive(c) \/ LoseAnswer(c)
      PROVE  UNCHANGED <<sessions, lapsed>>
  BY <1>6 DEF SendRefresh, Authenticate, LoadToken, RefuseToken, CommitRefresh,
     CommitRefusal, RollBack, Receive, LoseAnswer
<1>7. ASSUME NEW v \in Sessions, LogoutUnknown(v) \/ Lapse(v)
      PROVE  UNCHANGED sessions /\ lapsed \subseteq lapsed'
  BY <1>7 DEF LogoutUnknown, Lapse
<1>8. CASE UNCHANGED authVars
  BY <1>8 DEF authVars
<1> QED
  BY <1>2, <1>3, <1>4, <1>5, <1>6, <1>7, <1>8 DEF Next

(* Signing out, revoking and expiring are final.                           *)
THEOREM EndedStaysEndedHolds == AuthSpec => EndedStaysEnded
<1> DEFINE Ends == \A s \in Sessions : sessions[s] # "unused" /\ ~Open(s) => ~Open(s)'
<1>1. AuthInv /\ [Next]_authVars => Ends
  <2> SUFFICES ASSUME AuthInv, [Next]_authVars, NEW s \in Sessions,
                      sessions[s] # "unused", Open(s)'
               PROVE  Open(s)
    OBVIOUS
  <2>1. sessions'[s] = "open" /\ s \notin lapsed'
    BY DEF Open
  <2>2. sessions[s] = "open" /\ lapsed \subseteq lapsed'
    BY <2>1, SessionsMoveOn DEF AuthInv
  <2> QED
    BY <2>1, <2>2 DEF Open
<1>2. AuthInv /\ [Next]_authVars => [Ends]_authVars
  BY <1>1
<1> QED
  BY <1>2, AuthInvariance, PTL DEF AuthSpec, EndedStaysEnded

-----------------------------------------------------------------------------
(***************************************************************************)
(* A client keeps its place.  What has to be added to the invariant is     *)
(* about the answers on their way: while its session is open the token in  *)
(* one is live, and nobody else has it, so no other request can rotate it  *)
(* out before its client gets it; and a refresh that is going to spend its *)
(* token for nothing has read a session that was over, and still is.       *)
(***************************************************************************)
InHand == {"sent", "loaded", "answered"}

SessionsBegan ==
  /\ \A c \in Calls : calls[c].pc \in InHand => sessions[calls[c].session] # "unused"
  /\ \A s \in Sessions : held[s] # None => sessions[s] # "unused"

RefusalsAreFinal ==
  \A c \in Calls : calls[c].pc = "loaded" /\ ~calls[c].allowed => ~Open(calls[c].session)

AnswersAreFresh ==
  \A c \in Calls : calls[c].pc = "answered" =>
    /\ Open(calls[c].session) => tokens[calls[c].token].status = "live"
    /\ \A d \in Calls \ {c} : calls[d].pc \in InHand => calls[d].token # calls[c].token
    /\ \A s \in Sessions : held[s] # calls[c].token

PlacesKept ==
  \A s \in Sessions : Open(s) /\ held[s] # None /\ s \notin dropped =>
    \/ tokens[held[s]].status = "live"
    \/ \E c \in Calls : calls[c].pc = "answered" /\ calls[c].session = s

PlaceInv == SessionsBegan /\ RefusalsAreFinal /\ AnswersAreFresh /\ PlacesKept

OpenNext(s) == sessions'[s] = "open" /\ s \notin lapsed'

(* A session that has begun and is open after a step was open before it.   *)
LEMMA OpenBefore ==
  ASSUME AuthInv, [Next]_authVars, NEW s \in Sessions, sessions[s] # "unused", OpenNext(s)
  PROVE  Open(s)
<1>1. sessions[s] = "open" /\ lapsed \subseteq lapsed'
  BY SessionsMoveOn DEF AuthInv, OpenNext
<1> QED
  BY <1>1 DEF Open, OpenNext

(* A live token only stops being so when its session is no longer open.    *)
LiveStays ==
  \A t \in Tokens :
    tokens[t].status = "live" => tokens'[t].status = "live" \/ ~OpenNext(tokens[t].session)

SessionsGoOn == \A s \in Sessions : sessions[s] # "unused" => sessions'[s] # "unused"

(* Of the sessions that have begun none is open that was not.              *)
LEMMA BegunBefore ==
  ASSUME AuthInv, PlaceInv, [Next]_authVars
  PROVE  /\ \A c \in Calls : calls[c].pc \in InHand =>
              /\ calls[c].session \in Sessions
              /\ Issued(calls[c].token, calls[c].session)
              /\ sessions[calls[c].session] # "unused"
              /\ OpenNext(calls[c].session) => Open(calls[c].session)
         /\ \A s \in Sessions : held[s] # None =>
              /\ Issued(held[s], s)
              /\ sessions[s] # "unused"
              /\ OpenNext(s) => Open(s)
<1>1. \A c \in Calls : calls[c].pc \in InHand =>
        calls[c].session \in Sessions /\ Issued(calls[c].token, calls[c].session)
  BY DEF AuthInv, CallsAreWired, InHand
<1>2. \A s \in Sessions : held[s] # None => Issued(held[s], s)
  BY DEF AuthInv, HeldAreWired
<1>3. SessionsBegan
  BY DEF PlaceInv
<1> QED
  BY <1>1, <1>2, <1>3, OpenBefore DEF SessionsBegan

(* A step that hands out no token keeps every client's place.              *)
LEMMA QuietStep ==
  ASSUME AuthInv, PlaceInv, [Next]_authVars, LiveStays, SessionsGoOn,
         \A c \in Calls : \/ calls'[c] = calls[c]
                          \/ calls[c].pc # "answered" /\ calls'[c].pc \notin InHand,
         \A s \in Sessions : held'[s] = held[s] \/ held'[s] = None,
         dropped' = dropped
  PROVE  PlaceInv'
<1>1. \A c \in Calls : calls'[c].pc \in InHand => calls'[c] = calls[c]
  OBVIOUS
<1>2. /\ \A c \in Calls : calls[c].pc \in InHand =>
           /\ calls[c].session \in Sessions
           /\ Issued(calls[c].token, calls[c].session)
           /\ sessions[calls[c].session] # "unused"
           /\ OpenNext(calls[c].session) => Open(calls[c].session)
      /\ \A s \in Sessions : held[s] # None =>
           /\ Issued(held[s], s)
           /\ sessions[s] # "unused"
           /\ OpenNext(s) => Open(s)
  BY BegunBefore
<1>3. SessionsBegan'
  <2>1. \A c \in Calls : calls'[c].pc \in InHand => sessions'[calls'[c].session] # "unused"
    BY <1>1, <1>2 DEF SessionsGoOn
  <2>2. \A s \in Sessions : held'[s] # None => sessions'[s] # "unused"
    BY <1>2 DEF SessionsGoOn
  <2> QED
    BY <2>1, <2>2 DEF SessionsBegan
<1>4. RefusalsAreFinal'
  <2>1. ASSUME NEW c \in Calls, calls'[c].pc = "loaded", ~calls'[c].allowed
        PROVE  ~OpenNext(calls'[c].session)
    <3>1. calls'[c] = calls[c] /\ calls[c].pc \in InHand
      BY <1>1, <2>1 DEF InHand
    <3> QED
      BY <1>2, <2>1, <3>1 DEF PlaceInv, RefusalsAreFinal
  <2> QED
    BY <2>1 DEF RefusalsAreFinal, Open, OpenNext
<1>5. AnswersAreFresh'
  <2> SUFFICES ASSUME NEW c \in Calls, calls'[c].pc = "answered"
               PROVE  /\ OpenNext(calls'[c].session) =>
                           tokens'[calls'[c].token].status = "live"
                      /\ \A d \in Calls \ {c} : calls'[d].pc \in InHand =>
                           calls'[d].token # calls'[c].token
                      /\ \A s \in Sessions : held'[s] # calls'[c].token
    BY DEF AnswersAreFresh, Open, OpenNext
  <2>1. calls'[c] = calls[c] /\ calls[c].pc \in InHand /\ calls[c].pc = "answered"
    BY <1>1 DEF InHand
  <2>2. /\ Open(calls[c].session) => tokens[calls[c].token].status = "live"
        /\ \A d \in Calls \ {c} : calls[d].pc \in InHand => calls[d].token # calls[c].token
        /\ \A s \in Sessions : held[s] # calls[c].token
    BY <2>1 DEF PlaceInv, AnswersAreFresh
  <2>3. calls[c].token \in Tokens /\ calls[c].token # None
    BY <1>2, <2>1, NoneIsNothing DEF Issued
  <2>4. OpenNext(calls[c].session) => tokens'[calls[c].token].status = "live"
    BY <1>2, <2>1, <2>2, <2>3 DEF LiveStays, Issued
  <2> QED
    BY <1>1, <2>1, <2>2, <2>3, <2>4
<1>6. PlacesKept'
  <2> SUFFICES ASSUME NEW s \in Sessions, OpenNext(s), held'[s] # None, s \notin dropped'
               PROVE  \/ tokens'[held'[s]].status = "live"
                      \/ \E c \in Calls : calls'[c].pc = "answered" /\ calls'[c].session = s
    BY DEF PlacesKept, Open, OpenNext
  <2>1. held'[s] = held[s] /\ held[s] # None /\ s \notin dropped
    OBVIOUS
  <2>2. Open(s) /\ Issued(held[s], s)
    BY <1>2, <2>1
  <2>3. CASE tokens[held[s]].status = "live"
    BY <2>1, <2>2, <2>3 DEF LiveStays, Issued
  <2>4. CASE \E c \in Calls : calls[c].pc = "answered" /\ calls[c].session = s
    BY <2>4
  <2> QED
    BY <2>1, <2>2, <2>3, <2>4 DEF PlaceInv, PlacesKept
<1> QED
  BY <1>3, <1>4, <1>5, <1>6 DEF PlaceInv

(* A token that was unused and goes out in an answer is nobody else's.     *)
LEMMA AnswerStep ==
  ASSUME AuthInv, PlaceInv, [Next]_authVars, SessionsGoOn,
         NEW c \in Calls, NEW s \in Sessions, NEW t \in Tokens, NEW call,
         calls[c].pc # "answered",
         tokens[t].status = "unused", tokens'[t].status = "live",
         \A u \in Tokens : tokens[u].status = "live" /\ tokens'[u].status # "live" =>
           /\ calls[c].pc = "loaded" /\ calls[c].token = u
           /\ calls[c].session = s,
         sessions'[s] # "unused",
         calls' = [calls EXCEPT ![c] = call],
         call.pc = "answered", call.session = s, call.token = t,
         UNCHANGED <<held, dropped>>
  PROVE  PlaceInv'
<1>1. /\ calls'[c] = call
      /\ \A d \in Calls \ {c} : calls'[d] = calls[d]
  BY DEF AuthInv, AuthTypeOK
<1>2. /\ \A d \in Calls : calls[d].pc \in InHand =>
           /\ calls[d].session \in Sessions
           /\ Issued(calls[d].token, calls[d].session)
           /\ sessions[calls[d].session] # "unused"
           /\ OpenNext(calls[d].session) => Open(calls[d].session)
      /\ \A v \in Sessions : held[v] # None =>
           /\ Issued(held[v], v)
           /\ sessions[v] # "unused"
           /\ OpenNext(v) => Open(v)
  BY BegunBefore
<1>3. /\ \A d \in Calls : calls[d].pc \in InHand => calls[d].token # t
      /\ \A v \in Sessions : held[v] # t
  BY <1>2, NoneIsNothing DEF Issued
<1>4. SessionsBegan'
  <2>1. ASSUME NEW d \in Calls, calls'[d].pc \in InHand
        PROVE  sessions'[calls'[d].session] # "unused"
    <3>1. CASE d = c
      BY <1>1, <3>1
    <3>2. CASE d # c
      BY <1>1, <1>2, <2>1, <3>2 DEF SessionsGoOn
    <3> QED
      BY <3>1, <3>2
  <2>2. \A v \in Sessions : held'[v] # None => sessions'[v] # "unused"
    BY <1>2 DEF SessionsGoOn
  <2> QED
    BY <2>1, <2>2 DEF SessionsBegan
<1>5. RefusalsAreFinal'
  <2>1. ASSUME NEW d \in Calls, calls'[d].pc = "loaded", ~calls'[d].allowed
        PROVE  ~OpenNext(calls'[d].session)
    <3>1. d # c /\ calls'[d] = calls[d] /\ calls[d].pc \in InHand
      BY <1>1, <2>1 DEF InHand
    <3> QED
      BY <1>2, <2>1, <3>1 DEF PlaceInv, RefusalsAreFinal
  <2> QED
    BY <2>1 DEF RefusalsAreFinal, Open, OpenNext
<1>6. AnswersAreFresh'
  <2> SUFFICES ASSUME NEW d \in Calls, calls'[d].pc = "answered"
               PROVE  /\ OpenNext(calls'[d].session) =>
                           tokens'[calls'[d].token].status = "live"
                      /\ \A e \in Calls \ {d} : calls'[e].pc \in InHand =>
                           calls'[e].token # calls'[d].token
                      /\ \A v \in Sessions : held'[v] # calls'[d].token
    BY DEF AnswersAreFresh, Open, OpenNext
  <2>1. CASE d = c
    BY <1>1, <1>3, <2>1
  <2>2. CASE d # c
    <3>1. calls'[d] = calls[d] /\ calls[d].pc \in InHand /\ calls[d].pc = "answered"
      BY <1>1, <2>2 DEF InHand
    <3>2. /\ Open(calls[d].session) => tokens[calls[d].token].status = "live"
          /\ \A e \in Calls \ {d} : calls[e].pc \in InHand => calls[e].token # calls[d].token
          /\ \A v \in Sessions : held[v] # calls[d].token
      BY <3>1 DEF PlaceInv, AnswersAreFresh
    <3>3. calls[d].token \in Tokens /\ calls[d].token # t
      BY <1>2, <1>3, <3>1 DEF Issued
    <3>4. calls[c].pc = "loaded" => calls[c].token # calls[d].token
      BY <2>2, <3>2 DEF InHand
    <3>5. OpenNext(calls[d].session) => tokens'[calls[d].token].status = "live"
      BY <1>2, <3>1, <3>2, <3>3, <3>4
    <3>6. \A e \in Calls \ {d} : calls'[e].pc \in InHand => calls'[e].token # calls[d].token
      BY <1>1, <3>2, <3>3
    <3> QED
      BY <3>1, <3>2, <3>5, <3>6
  <2> QED
    BY <2>1, <2>2
<1>7. PlacesKept'
  <2> SUFFICES ASSUME NEW v \in Sessions, OpenNext(v), held'[v] # None, v \notin dropped'
               PROVE  \/ tokens'[held'[v]].status = "live"
                      \/ \E d \in Calls : calls'[d].pc = "answered" /\ calls'[d].session = v
    BY DEF PlacesKept, Open, OpenNext
  <2>1. held'[v] = held[v] /\ held[v] # None /\ v \notin dropped
    OBVIOUS
  <2>2. Open(v) /\ Issued(held[v], v)
    BY <1>2, <2>1
  <2>3. CASE v = s
    BY <1>1, <2>3
  <2>4. CASE v # s /\ tokens[held[v]].status = "live"
    <3>1. CASE calls[c].pc = "loaded" /\ calls[c].token = held[v]
      <4>1. Issued(held[v], calls[c].session)
        BY <1>2, <3>1 DEF InHand
      <4>2. calls[c].session = v
        BY <2>2, <2>4, <4>1 DEF Issued
      <4>3. tokens'[held[v]].status = "live"
        BY <2>2, <2>4, <4>2 DEF Issued
      <4> QED
        BY <2>1, <4>3
    <3>2. CASE ~(calls[c].pc = "loaded" /\ calls[c].token = held[v])
      BY <2>1, <2>2, <2>4, <3>2 DEF Issued
    <3> QED
      BY <3>1, <3>2
  <2>5. CASE \E d \in Calls : calls[d].pc = "answered" /\ calls[d].session = v
    BY <1>1, <2>5
  <2> QED
    BY <2>1, <2>2, <2>3, <2>4, <2>5 DEF PlaceInv, PlacesKept
<1> QED
  BY <1>4, <1>5, <1>6, <1>7 DEF PlaceInv

-----------------------------------------------------------------------------

LEMMA PruneExpiredPlace ==
  ASSUME AuthInv, PlaceInv, NEW c \in Calls, PruneExpired(c), [Next]_authVars
  PROVE  PlaceInv'
<1>1. /\ calls[c].pc = "idle" /\ calls' = [calls EXCEPT ![c].pc = "login"]
      /\ sessions' = [s \in Sessions |-> IF s \in DeadSessions THEN "deleted"
                                                              ELSE sessions[s]]
      /\ tokens' = [t \in Tokens |-> IF t \in DeadTokens(DeadSessions) THEN Gone
                                                                       ELSE tokens[t]]
      /\ UNCHANGED <<held, dropped>>
  BY DEF PruneExpired
<1>2. SessionsGoOn
  BY <1>1 DEF SessionsGoOn
<1>3. LiveStays
  <2> SUFFICES ASSUME NEW t \in Tokens, tokens[t].status = "live", tokens'[t].status # "live"
               PROVE  ~OpenNext(tokens[t].session)
    BY DEF LiveStays
  <2>1. tokens[t].session \in DeadSessions
    BY <1>1 DEF DeadTokens
  <2> QED
    BY <1>1, <2>1 DEF OpenNext, DeadSessions
<1>4. \A d \in Calls : \/ calls'[d] = calls[d]
                       \/ calls[d].pc # "answered" /\ calls'[d].pc \notin InHand
  BY <1>1 DEF AuthInv, AuthTypeOK, Call, InHand
<1> QED
  BY <1>1, <1>2, <1>3, <1>4, QuietStep

LEMMA StartSessionPlace ==
  ASSUME AuthInv, PlaceInv, NEW c \in Calls, NEW s \in Sessions, NEW t \in Tokens,
         StartSession(c, s, t), [Next]_authVars
  PROVE  PlaceInv'
<1> DEFINE call == [pc |-> "answered", session |-> s, token |-> t, allowed |-> TRUE]
<1>1. /\ calls[c].pc = "login" /\ tokens[t].status = "unused"
      /\ sessions' = [sessions EXCEPT ![s] = "open"]
      /\ tokens' = Issue(tokens, t, s)
      /\ calls' = [calls EXCEPT ![c] = call] /\ UNCHANGED <<held, dropped>>
  BY DEF StartSession
<1>2. /\ tokens'[t].status = "live" /\ \A u \in Tokens \ {t} : tokens'[u] = tokens[u]
  BY <1>1 DEF Issue, AuthInv, AuthTypeOK
<1>3. SessionsGoOn /\ sessions'[s] # "unused"
  BY <1>1 DEF SessionsGoOn, AuthInv, AuthTypeOK
<1>4. call.pc = "answered" /\ call.session = s /\ call.token = t
  OBVIOUS
<1>5. \A u \in Tokens : ~(tokens[u].status = "live" /\ tokens'[u].status # "live")
  BY <1>2
<1>6. calls[c].pc # "answered" /\ tokens[t].status = "unused" /\ UNCHANGED <<held, dropped>>
  BY <1>1
<1> HIDE DEF call
<1> QED
  BY <1>1, <1>2, <1>3, <1>4, <1>5, <1>6, AnswerStep

LEMMA SendRefreshPlace ==
  ASSUME AuthInv, PlaceInv, NEW c \in Calls, NEW s \in Sessions, SendRefresh(c, s)
  PROVE  PlaceInv'
<1> DEFINE call == [pc |-> "sent", session |-> s, token |-> held[s], allowed |-> FALSE]
<1>1. /\ calls[c].pc = "idle" /\ held[s] # None
      /\ calls' = [calls EXCEPT ![c] = call]
      /\ UNCHANGED <<sessions, lapsed, tokens, held, dropped>>
  BY DEF SendRefresh
<1>2. call.pc = "sent" /\ call.session = s /\ call.token = held[s]
  OBVIOUS
<1> HIDE DEF call
<1>3. /\ calls'[c] = call
      /\ \A d \in Calls \ {c} : calls'[d] = calls[d]
  BY <1>1 DEF AuthInv, AuthTypeOK
<1>4. SessionsBegan'
  BY <1>1, <1>2, <1>3 DEF PlaceInv, SessionsBegan
<1>5. RefusalsAreFinal'
  BY <1>1, <1>2, <1>3 DEF PlaceInv, RefusalsAreFinal, Open
<1>6. AnswersAreFresh'
  BY <1>1, <1>2, <1>3 DEF PlaceInv, AnswersAreFresh, Open
<1>7. PlacesKept'
  BY <1>1, <1>3 DEF PlaceInv, PlacesKept, Open
<1> QED
  BY <1>4, <1>5, <1>6, <1>7 DEF PlaceInv

LEMMA LoadTokenPlace ==
  ASSUME AuthInv, PlaceInv, NEW c \in Calls, LoadToken(c)
  PROVE  PlaceInv'
<1> DEFINE call == [calls[c] EXCEPT !.pc = "loaded", !.allowed = Open(calls[c].session)]
<1>1. /\ calls[c].pc = "sent" /\ calls' = [calls EXCEPT ![c] = call]
      /\ UNCHANGED <<sessions, lapsed, tokens, held, dropped>>
  BY DEF LoadToken
<1>2. calls[c] \in Call /\ Open(calls[c].session) \in BOOLEAN
  BY DEF AuthInv, AuthTypeOK, Open
<1>3. /\ call.pc = "loaded" /\ call.session = calls[c].session
      /\ call.token = calls[c].token /\ call.allowed = Open(calls[c].session)
  BY <1>2 DEF Call
<1> HIDE DEF call
<1>4. /\ calls'[c] = call
      /\ \A d \in Calls \ {c} : calls'[d] = calls[d]
  BY <1>1 DEF AuthInv, AuthTypeOK
<1>5. SessionsBegan'
  BY <1>1, <1>3, <1>4 DEF PlaceInv, SessionsBegan, InHand
<1>6. RefusalsAreFinal'
  <2>1. ASSUME NEW d \in Calls, calls'[d].pc = "loaded", ~calls'[d].allowed
        PROVE  ~OpenNext(calls'[d].session)
    <3>1. \A s : OpenNext(s) <=> Open(s)
      BY <1>1 DEF Open, OpenNext
    <3>2. CASE d = c
      BY <1>3, <1>4, <2>1, <3>1, <3>2, Zenon
    <3>3. CASE d # c
      BY <1>4, <2>1, <3>1, <3>3, Zenon DEF PlaceInv, RefusalsAreFinal
    <3> QED
      BY <3>2, <3>3
  <2> QED
    BY <2>1 DEF RefusalsAreFinal, Open, OpenNext
<1>7. AnswersAreFresh'
  BY <1>1, <1>3, <1>4 DEF PlaceInv, AnswersAreFresh, Open, InHand
<1>8. PlacesKept'
  BY <1>1, <1>4 DEF PlaceInv, PlacesKept, Open
<1> QED
  BY <1>5, <1>6, <1>7, <1>8 DEF PlaceInv

(* A request that ends without an answer and without having written, and   *)
(* one that is let in with an access token: no token changes hands.        *)
LEMMA CallOnlyPlace ==
  ASSUME AuthInv, PlaceInv, [Next]_authVars, NEW c \in Calls, NEW call,
         calls[c].pc # "answered", call.pc \notin InHand,
         calls' = [calls EXCEPT ![c] = call],
         UNCHANGED <<sessions, tokens, held, dropped>>
  PROVE  PlaceInv'
<1>1. LiveStays /\ SessionsGoOn
  BY DEF LiveStays, SessionsGoOn
<1>2. \A d \in Calls : \/ calls'[d] = calls[d]
                       \/ calls[d].pc # "answered" /\ calls'[d].pc \notin InHand
  BY DEF AuthInv, AuthTypeOK
<1> QED
  BY <1>1, <1>2, QuietStep

LEMMA IdleIsNotInHand == Idle.pc \notin InHand
BY DEF Idle, InHand

LEMMA CommitRefreshPlace ==
  ASSUME AuthInv, PlaceInv, NEW c \in Calls, NEW t \in Tokens, CommitRefresh(c, t),
         [Next]_authVars
  PROVE  PlaceInv'
<1> DEFINE call == [calls[c] EXCEPT !.pc = "answered", !.token = t]
           s == calls[c].session
           o == calls[c].token
<1>1. /\ calls[c].pc = "loaded" /\ tokens[o].status # "deleted"
      /\ tokens[t].status = "unused"
      /\ tokens' = Issue(Revoked({o}), t, s)
      /\ calls' = [calls EXCEPT ![c] = call]
      /\ UNCHANGED <<sessions, lapsed, held, dropped>>
  BY DEF CommitRefresh, RotatedOut
<1>2. /\ o \in Tokens /\ s \in Sessions /\ Kept(s)
      /\ tokens[o].status \in {"live", "revoked"}
  BY <1>1, LoadedToken
<1>3. /\ Revoked({o}) \in [Tokens -> Token]
      /\ \A u \in Tokens :
           Revoked({o})[u].status = IF u \in {o} THEN "revoked" ELSE tokens[u].status
  BY <1>2, RevokedTokens DEF AuthInv
<1>4. calls[c] \in Call
  BY DEF AuthInv, AuthTypeOK
<1>5. call.pc = "answered" /\ call.session = s /\ call.token = t
  BY <1>4 DEF Call
<1> HIDE DEF call
<1>6. /\ tokens'[t].status = "live"
      /\ \A u \in Tokens \ {t} : tokens'[u] = Revoked({o})[u]
  BY <1>1, <1>3 DEF Issue
<1>7. \A u \in Tokens : tokens[u].status = "live" /\ tokens'[u].status # "live" =>
        calls[c].pc = "loaded" /\ calls[c].token = u /\ calls[c].session = s
  BY <1>1, <1>3, <1>6
<1>8. SessionsGoOn /\ sessions'[s] # "unused"
  BY <1>1, <1>2 DEF SessionsGoOn, Kept
<1>9. calls[c].pc # "answered"
  BY <1>1
<1> HIDE DEF s, o
<1> QED
  BY <1>1, <1>2, <1>5, <1>6, <1>7, <1>8, <1>9, AnswerStep

LEMMA CommitRefusalPlace ==
  ASSUME AuthInv, PlaceInv, NEW c \in Calls, CommitRefusal(c), [Next]_authVars
  PROVE  PlaceInv'
<1> DEFINE o == calls[c].token
<1>1. /\ calls[c].pc = "loaded" /\ ~calls[c].allowed
      /\ tokens[o].status # "deleted"
      /\ tokens' = Revoked({o})
      /\ calls' = [calls EXCEPT ![c] = Idle]
      /\ UNCHANGED <<sessions, lapsed, held, dropped>>
  BY DEF CommitRefusal
<1>2. /\ o \in Tokens /\ Issued(o, calls[c].session)
      /\ ~Open(calls[c].session)
  BY <1>1, LoadedToken DEF AuthInv, CallsAreWired, PlaceInv, RefusalsAreFinal
<1>3. \A u \in Tokens : u # o => tokens'[u] = tokens[u]
  BY <1>1 DEF Revoked
<1>4. ~OpenNext(calls[c].session)
  BY <1>1, <1>2 DEF Open, OpenNext
<1>5. LiveStays
  BY <1>1, <1>2, <1>3, <1>4 DEF LiveStays, Issued
<1>6. SessionsGoOn
  BY <1>1 DEF SessionsGoOn
<1>7. \A d \in Calls : \/ calls'[d] = calls[d]
                       \/ calls[d].pc # "answered" /\ calls'[d].pc \notin InHand
  BY <1>1, IdleIsNotInHand DEF AuthInv, AuthTypeOK
<1> QED
  BY <1>1, <1>5, <1>6, <1>7, QuietStep

LEMMA ReceivePlace ==
  ASSUME AuthInv, PlaceInv, NEW c \in Calls, Receive(c)
  PROVE  PlaceInv'
<1> DEFINE s == calls[c].session
<1>1. /\ calls[c].pc = "answered" /\ held' = [held EXCEPT ![s] = calls[c].token]
      /\ calls' = [calls EXCEPT ![c] = Idle]
      /\ UNCHANGED <<sessions, lapsed, tokens, dropped>>
  BY DEF Receive
<1>2. /\ s \in Sessions /\ sessions[s] # "unused"
      /\ Open(s) => tokens[calls[c].token].status = "live"
      /\ \A d \in Calls \ {c} : calls[d].pc \in InHand => calls[d].token # calls[c].token
  BY <1>1 DEF AuthInv, CallsAreWired, PlaceInv, SessionsBegan, AnswersAreFresh, InHand
<1>3. /\ held'[s] = calls[c].token
      /\ \A v \in Sessions \ {s} : held'[v] = held[v]
  BY <1>1, <1>2 DEF AuthInv, AuthTypeOK
<1>4. /\ calls'[c].pc \notin InHand
      /\ \A d \in Calls \ {c} : calls'[d] = calls[d]
  BY <1>1, IdleIsNotInHand DEF AuthInv, AuthTypeOK
<1>5. SessionsBegan'
  BY <1>1, <1>2, <1>3, <1>4 DEF PlaceInv, SessionsBegan
<1>6. RefusalsAreFinal'
  BY <1>1, <1>4 DEF PlaceInv, RefusalsAreFinal, Open, InHand
<1>7. AnswersAreFresh'
  <2> SUFFICES ASSUME NEW d \in Calls, calls'[d].pc = "answered"
               PROVE  /\ Open(calls'[d].session) => tokens[calls'[d].token].status = "live"
                      /\ \A e \in Calls \ {d} : calls'[e].pc \in InHand =>
                           calls'[e].token # calls'[d].token
                      /\ \A v \in Sessions : held'[v] # calls'[d].token
    BY <1>1 DEF AnswersAreFresh, Open
  <2>1. d # c /\ calls'[d] = calls[d] /\ calls[d].pc \in InHand /\ calls[d].pc = "answered"
    BY <1>4 DEF InHand
  <2>2. /\ Open(calls[d].session) => tokens[calls[d].token].status = "live"
        /\ \A e \in Calls \ {d} : calls[e].pc \in InHand => calls[e].token # calls[d].token
        /\ \A v \in Sessions : held[v] # calls[d].token
    BY <2>1 DEF PlaceInv, AnswersAreFresh
  <2>3. \A e \in Calls \ {d} : calls'[e].pc \in InHand => calls'[e].token # calls[d].token
    BY <1>4, <2>2
  <2>4. \A v \in Sessions : held'[v] # calls[d].token
    BY <1>2, <1>3, <2>1, <2>2
  <2> QED
    BY <2>1, <2>2, <2>3, <2>4
<1>8. PlacesKept'
  <2> SUFFICES ASSUME NEW v \in Sessions, Open(v), held'[v] # None, v \notin dropped
               PROVE  \/ tokens[held'[v]].status = "live"
                      \/ \E d \in Calls : calls'[d].pc = "answered" /\ calls'[d].session = v
    BY <1>1 DEF PlacesKept, Open
  <2>1. CASE v = s
    BY <1>2, <1>3, <2>1
  <2>2. CASE v # s
    BY <1>3, <1>4, <2>2 DEF PlaceInv, PlacesKept
  <2> QED
    BY <2>1, <2>2
<1> QED
  BY <1>5, <1>6, <1>7, <1>8 DEF PlaceInv

LEMMA LoseAnswerPlace ==
  ASSUME AuthInv, PlaceInv, NEW c \in Calls, LoseAnswer(c)
  PROVE  PlaceInv'
<1>1. /\ dropped' = dropped \cup {calls[c].session}
      /\ calls' = [calls EXCEPT ![c] = Idle]
      /\ UNCHANGED <<sessions, lapsed, tokens, held>>
  BY DEF LoseAnswer
<1>2. /\ calls'[c].pc \notin InHand
      /\ \A d \in Calls \ {c} : calls'[d] = calls[d]
  BY <1>1, IdleIsNotInHand DEF AuthInv, AuthTypeOK
<1>3. SessionsBegan'
  BY <1>1, <1>2 DEF PlaceInv, SessionsBegan
<1>4. RefusalsAreFinal'
  BY <1>1, <1>2 DEF PlaceInv, RefusalsAreFinal, Open, InHand
<1>5. AnswersAreFresh'
  BY <1>1, <1>2 DEF PlaceInv, AnswersAreFresh, Open, InHand
<1>6. PlacesKept'
  <2> SUFFICES ASSUME NEW v \in Sessions, Open(v), held[v] # None, v \notin dropped'
               PROVE  \/ tokens[held[v]].status = "live"
                      \/ \E d \in Calls : calls'[d].pc = "answered" /\ calls'[d].session = v
    BY <1>1 DEF PlacesKept, Open
  <2>1. v \notin dropped /\ v # calls[c].session
    BY <1>1
  <2> QED
    BY <1>2, <2>1 DEF PlaceInv, PlacesKept
<1> QED
  BY <1>3, <1>4, <1>5, <1>6 DEF PlaceInv

(* Ending a session takes back its live tokens, which it needs no more.    *)
LEMMA EndSessionPlace ==
  ASSUME AuthInv, PlaceInv, [Next]_authVars, NEW s \in Sessions, EndSession(s),
         \A c \in Calls : \/ calls'[c] = calls[c]
                          \/ calls[c].pc # "answered" /\ calls'[c].pc \notin InHand,
         \A v \in Sessions : held'[v] = held[v] \/ held'[v] = None,
         dropped' = dropped
  PROVE  PlaceInv'
<1>1. /\ sessions' = [sessions EXCEPT ![s] = "revoked"]
      /\ tokens' = Revoked({t \in TokensOf(s) : tokens[t].status = "live"})
  BY DEF EndSession
<1>2. SessionsGoOn
  BY <1>1 DEF SessionsGoOn, AuthInv, AuthTypeOK
<1>3. LiveStays
  <2> SUFFICES ASSUME NEW t \in Tokens, tokens[t].status = "live", tokens'[t].status # "live"
               PROVE  ~OpenNext(tokens[t].session)
    BY DEF LiveStays
  <2>1. tokens[t].session = s
    BY <1>1 DEF Revoked, TokensOf
  <2> QED
    BY <1>1, <2>1 DEF OpenNext, AuthInv, AuthTypeOK
<1> QED
  BY <1>2, <1>3, QuietStep

LEMMA NextPlaceInv ==
  ASSUME AuthInv, PlaceInv, [Next]_authVars
  PROVE  PlaceInv'
<1>1. ASSUME NEW c \in Calls,
             \/ PruneExpired(c)
             \/ \E s \in Sessions, t \in Tokens : StartSession(c, s, t)
             \/ \E s \in Sessions : SendRefresh(c, s)
             \/ LoadToken(c)
             \/ \E t \in Tokens : CommitRefresh(c, t)
             \/ CommitRefusal(c) \/ Receive(c) \/ LoseAnswer(c)
      PROVE  PlaceInv'
  BY <1>1, PruneExpiredPlace, StartSessionPlace, SendRefreshPlace, LoadTokenPlace,
     CommitRefreshPlace, CommitRefusalPlace, ReceivePlace, LoseAnswerPlace
<1>2. ASSUME NEW c \in Calls, RefuseToken(c) \/ RollBack(c)
      PROVE  PlaceInv'
  <2>1. /\ calls[c].pc # "answered" /\ calls' = [calls EXCEPT ![c] = Idle]
        /\ UNCHANGED <<sessions, tokens, held, dropped>>
    BY <1>2 DEF RefuseToken, RollBack
  <2> QED
    BY <2>1, IdleIsNotInHand, CallOnlyPlace
<1>3. ASSUME NEW c \in Calls, NEW s \in Sessions, Authenticate(c, s)
      PROVE  PlaceInv'
  <2> DEFINE call == [Idle EXCEPT !.pc = "signedIn", !.session = s]
  <2>1. /\ calls[c].pc # "answered" /\ calls' = [calls EXCEPT ![c] = call]
        /\ UNCHANGED <<sessions, tokens, held, dropped>>
    BY <1>3 DEF Authenticate
  <2>2. call.pc \notin InHand
    BY DEF Idle, InHand
  <2> HIDE DEF call
  <2> QED
    BY <2>1, <2>2, CallOnlyPlace
<1>4. ASSUME NEW c \in Calls, NEW s \in Sessions, RevokeSession(c, s)
      PROVE  PlaceInv'
  <2>1. /\ calls[c].pc = "signedIn" /\ EndSession(s)
        /\ ClearCookie(s) \/ UNCHANGED held
        /\ calls' = [calls EXCEPT ![c] = Idle] /\ dropped' = dropped
    BY <1>4 DEF RevokeSession
  <2>2. \A v \in Sessions : held'[v] = held[v] \/ held'[v] = None
    BY <2>1, ClearedCookie
  <2>3. \A d \in Calls : \/ calls'[d] = calls[d]
                         \/ calls[d].pc # "answered" /\ calls'[d].pc \notin InHand
    BY <2>1, IdleIsNotInHand DEF AuthInv, AuthTypeOK
  <2> QED
    BY <2>1, <2>2, <2>3, EndSessionPlace
<1>5. ASSUME NEW t \in Tokens, Logout(t)
      PROVE  PlaceInv'
  <2>1. /\ tokens[t].status \in {"live", "revoked"} /\ EndSession(tokens[t].session)
        /\ ClearCookie(tokens[t].session) /\ calls' = calls /\ dropped' = dropped
    BY <1>5 DEF Logout
  <2>2. tokens[t].session \in Sessions
    BY <2>1 DEF AuthInv, AuthTypeOK, Token
  <2>3. \A v \in Sessions : held'[v] = held[v] \/ held'[v] = None
    BY <2>1, ClearedCookie
  <2> QED
    BY <2>1, <2>2, <2>3, EndSessionPlace
<1>6. ASSUME UNCHANGED <<sessions, tokens, calls, dropped>>,
             \A v \in Sessions : held'[v] = held[v] \/ held'[v] = None
      PROVE  PlaceInv'
  <2>1. LiveStays /\ SessionsGoOn
    BY <1>6 DEF LiveStays, SessionsGoOn
  <2> QED
    BY <1>6, <2>1, QuietStep
<1>7. ASSUME NEW s \in Sessions, LogoutUnknown(s) \/ Lapse(s)
      PROVE  PlaceInv'
  <2>1. /\ UNCHANGED <<sessions, tokens, calls, dropped>>
        /\ ClearCookie(s) \/ UNCHANGED held
    BY <1>7 DEF LogoutUnknown, Lapse
  <2> QED
    BY <1>6, <2>1, ClearedCookie
<1>8. CASE UNCHANGED authVars
  BY <1>6, <1>8 DEF authVars
<1> QED
  BY <1>1, <1>2, <1>3, <1>4, <1>5, <1>7, <1>8 DEF Next

LEMMA InitPlaceInv == Init => PlaceInv
<1> SUFFICES ASSUME Init PROVE PlaceInv
  OBVIOUS
<1>1. /\ \A c \in Calls : calls[c].pc = "idle"
      /\ \A s \in Sessions : held[s] = None
  BY DEF Init, Idle
<1> QED
  BY <1>1 DEF PlaceInv, SessionsBegan, RefusalsAreFinal, AnswersAreFresh, PlacesKept, InHand

(* In every reachable state the answers on their way are fresh and every   *)
(* client that lost none holds, or is about to get, a token that works.    *)
THEOREM PlaceInvariance == AuthSpec => [](AuthInv /\ PlaceInv)
<1>1. Init => AuthInv /\ PlaceInv
  BY InitAuthInv, InitPlaceInv
<1>2. AuthInv /\ PlaceInv /\ [Next]_authVars => (AuthInv /\ PlaceInv)'
  BY NextAuthInv, NextPlaceInv
<1> QED
  BY <1>1, <1>2, PTL DEF AuthSpec

(* A client that lost no answer keeps its place: while its session is open *)
(* and no answer is on its way, the token it holds can be exchanged,       *)
(* whatever its other refreshes, and other clients' logins, have done.     *)
THEOREM ClientKeepsItsPlaceHolds == AuthSpec => []ClientKeepsItsPlace
<1>1. AuthInv /\ PlaceInv => ClientKeepsItsPlace
  BY DEF PlaceInv, PlacesKept, ClientKeepsItsPlace
<1> QED
  BY <1>1, PlaceInvariance, PTL

-----------------------------------------------------------------------------
(* Where the tokens come from and where they go: a login's housekeeping    *)
(* deletes some, a login and a refresh issue one, and every other step     *)
(* leaves a token as it is or revokes it.                                  *)
LEMMA TokenMoves ==
  ASSUME AuthInv, [Next]_authVars, NEW u \in Tokens
  PROVE  \/ \E c \in Calls : PruneExpired(c)
         \/ \E c \in Calls, s \in Sessions : StartSession(c, s, u)
         \/ \E c \in Calls : CommitRefresh(c, u)
         \/ /\ tokens'[u].session = tokens[u].session
            /\ tokens'[u].status \in {tokens[u].status, "revoked"}
<1> DEFINE Moved == /\ tokens'[u].session = tokens[u].session
                    /\ tokens'[u].status \in {tokens[u].status, "revoked"}
<1>1. ASSUME NEW some, tokens' = Revoked(some)
      PROVE  Moved
  BY <1>1 DEF Revoked, AuthInv, AuthTypeOK, Token
<1>2. ASSUME NEW some, NEW t \in Tokens, NEW s, t # u, tokens' = Issue(Revoked(some), t, s)
      PROVE  Moved
  BY <1>2 DEF Issue, Revoked, AuthInv, AuthTypeOK, Token
<1>3. ASSUME NEW c \in Calls, NEW s \in Sessions, NEW t \in Tokens, t # u,
             StartSession(c, s, t)
      PROVE  Moved
  <2>1. tokens' = Issue(tokens, t, s)
    BY <1>3 DEF StartSession
  <2> QED
    BY <1>3, <2>1 DEF Issue, AuthInv, AuthTypeOK
<1>4. ASSUME NEW c \in Calls, NEW t \in Tokens, t # u, CommitRefresh(c, t)
      PROVE  Moved
  BY <1>2, <1>4 DEF CommitRefresh
<1>5. ASSUME NEW c \in Calls, CommitRefusal(c)
      PROVE  Moved
  BY <1>1, <1>5 DEF CommitRefusal
<1>6. ASSUME NEW v, EndSession(v)
      PROVE  Moved
  BY <1>1, <1>6 DEF EndSession
<1>7. ASSUME UNCHANGED authVars
      PROVE  Moved
  BY <1>7 DEF authVars
<1>8. ASSUME NEW c \in Calls,
             \/ \E s \in Sessions : SendRefresh(c, s) \/ Authenticate(c, s)
             \/ LoadToken(c) \/ RefuseToken(c) \/ RollBack(c)
             \/ Receive(c) \/ LoseAnswer(c)
      PROVE  Moved
  BY <1>8 DEF SendRefresh, Authenticate, LoadToken, RefuseToken, RollBack, Receive,
     LoseAnswer
<1>9. ASSUME NEW s \in Sessions, LogoutUnknown(s) \/ Lapse(s)
      PROVE  Moved
  BY <1>9 DEF LogoutUnknown, Lapse
<1>10. ASSUME NEW c \in Calls, NEW s \in Sessions, RevokeSession(c, s)
       PROVE  Moved
  BY <1>6, <1>10 DEF RevokeSession
<1>11. ASSUME NEW t \in Tokens, Logout(t)
       PROVE  Moved
  BY <1>6, <1>11 DEF Logout
<1> HIDE DEF Moved
<1>12. \/ \E c \in Calls : PruneExpired(c)
       \/ \E c \in Calls, s \in Sessions : StartSession(c, s, u)
       \/ \E c \in Calls : CommitRefresh(c, u)
       \/ Moved
  BY <1>3, <1>4, <1>5, <1>7, <1>8, <1>9, <1>10, <1>11 DEF Next
<1> QED
  BY <1>12 DEF Moved

(* A request that has its token loaded after a step has just loaded it or  *)
(* was there before.                                                       *)
LEMMA LoadedBefore ==
  ASSUME AuthInv, [Next]_authVars, NEW c \in Calls, calls'[c].pc = "loaded"
  PROVE  calls'[c] = calls[c] \/ LoadToken(c)
<1>1. ASSUME NEW d \in Calls, NEW call, call.pc # "loaded",
             calls' = [calls EXCEPT ![d] = call]
      PROVE  calls'[c] = calls[c]
  BY <1>1 DEF AuthInv, AuthTypeOK
<1>2. Idle.pc # "loaded"
  BY DEF Idle
<1>3. ASSUME NEW d \in Calls, PruneExpired(d)
      PROVE  calls'[c] = calls[c]
  BY <1>3 DEF PruneExpired, AuthInv, AuthTypeOK, Call
<1>4. ASSUME NEW d \in Calls, NEW s \in Sessions, NEW t \in Tokens, StartSession(d, s, t)
      PROVE  calls'[c] = calls[c]
  BY <1>4 DEF StartSession, AuthInv, AuthTypeOK
<1>5. ASSUME NEW d \in Calls, NEW s \in Sessions, SendRefresh(d, s)
      PROVE  calls'[c] = calls[c]
  BY <1>5 DEF SendRefresh, AuthInv, AuthTypeOK
<1>6. ASSUME NEW d \in Calls, LoadToken(d)
      PROVE  calls'[c] = calls[c] \/ LoadToken(c)
  BY <1>6 DEF LoadToken, AuthInv, AuthTypeOK
<1>7. ASSUME NEW d \in Calls, NEW t \in Tokens, CommitRefresh(d, t)
      PROVE  calls'[c] = calls[c]
  BY <1>7 DEF CommitRefresh, AuthInv, AuthTypeOK, Call
<1>8. ASSUME NEW d \in Calls, \/ RefuseToken(d) \/ CommitRefusal(d) \/ RollBack(d)
                              \/ Receive(d) \/ LoseAnswer(d)
                              \/ \E s \in Sessions : RevokeSession(d, s)
      PROVE  calls'[c] = calls[c]
  <2>1. calls' = [calls EXCEPT ![d] = Idle]
    BY <1>8 DEF RefuseToken, CommitRefusal, RollBack, Receive, LoseAnswer, RevokeSession
  <2> QED
    BY <1>1, <1>2, <2>1
<1>9. ASSUME NEW d \in Calls, NEW s \in Sessions, Authenticate(d, s)
      PROVE  calls'[c] = calls[c]
  BY <1>9 DEF Authenticate, Idle, AuthInv, AuthTypeOK
<1>10. ASSUME \/ \E t \in Tokens : Logout(t)
              \/ \E s \in Sessions : LogoutUnknown(s) \/ Lapse(s)
              \/ UNCHANGED authVars
       PROVE  calls'[c] = calls[c]
  BY <1>10 DEF Logout, LogoutUnknown, Lapse, authVars
<1> QED
  BY <1>3, <1>4, <1>5, <1>6, <1>7, <1>8, <1>9, <1>10 DEF Next

(* A session that is over gives out no more tokens once the refreshes that *)
(* had read it open are through.                                           *)
THEOREM NoTokenAfterTheEndHolds == AuthSpec => NoTokenAfterTheEnd
<1> DEFINE Ends ==
      \A s \in Sessions :
        /\ sessions[s] # "unused" /\ ~Open(s)
        /\ \A c \in Calls : calls[c].pc = "loaded" /\ calls[c].session = s =>
             ~calls[c].allowed
        => /\ TokensOf(s)' \subseteq TokensOf(s)
           /\ \A c \in Calls : calls'[c].pc = "loaded" /\ calls'[c].session = s =>
                ~calls'[c].allowed
<1>1. AuthInv /\ [Next]_authVars => Ends
  <2> SUFFICES ASSUME AuthInv, [Next]_authVars, NEW s \in Sessions,
                      sessions[s] # "unused", ~Open(s),
                      \A c \in Calls : calls[c].pc = "loaded" /\ calls[c].session = s =>
                        ~calls[c].allowed
               PROVE  /\ \A u \in Tokens : tokens'[u].session = s => tokens[u].session = s
                      /\ \A c \in Calls : calls'[c].pc = "loaded" /\ calls'[c].session = s =>
                           ~calls'[c].allowed
    BY DEF TokensOf
  <2>1. ASSUME NEW u \in Tokens, tokens'[u].session = s
        PROVE  tokens[u].session = s
    <3>1. CASE \E c \in Calls : PruneExpired(c)
      BY <2>1, <3>1, NoneIsNothing DEF PruneExpired, Gone
    <3>2. ASSUME NEW c \in Calls, NEW v \in Sessions, StartSession(c, v, u)
          PROVE  FALSE
      <4>1. tokens'[u].session = v
        BY <3>2 DEF StartSession, Issue, AuthInv, AuthTypeOK
      <4> QED
        BY <2>1, <3>2, <4>1 DEF StartSession
    <3>3. ASSUME NEW c \in Calls, CommitRefresh(c, u)
          PROVE  FALSE
      <4>1. calls[c].pc = "loaded" /\ calls[c].allowed
        BY <3>3 DEF CommitRefresh
      <4>2. tokens' = [Revoked(RotatedOut(c)) EXCEPT
                         ![u] = [status |-> "live", session |-> calls[c].session]]
        BY <3>3 DEF CommitRefresh, Issue
      <4>3. tokens'[u].session = calls[c].session
        BY <4>2 DEF Revoked
      <4> QED
        BY <2>1, <4>1, <4>3
    <3> QED
      BY <2>1, <3>1, <3>2, <3>3, TokenMoves
  <2>2. ASSUME NEW c \in Calls, calls'[c].pc = "loaded", calls'[c].session = s,
               calls'[c].allowed
        PROVE  FALSE
    <3>1. CASE calls'[c] = calls[c]
      BY <2>2, <3>1
    <3>2. CASE LoadToken(c)
      <4>1. /\ calls'[c].session = calls[c].session
            /\ calls'[c].allowed = Open(calls[c].session)
        BY <3>2 DEF LoadToken, AuthInv, AuthTypeOK, Call
      <4> QED
        BY <2>2, <4>1
    <3> QED
      BY <2>2, <3>1, <3>2, LoadedBefore
  <2> QED
    BY <2>1, <2>2
<1>2. AuthInv /\ [Next]_authVars => [Ends]_authVars
  BY <1>1
<1> QED
  BY <1>2, AuthInvariance, PTL DEF AuthSpec, NoTokenAfterTheEnd

(* The housekeeping at login deletes nothing that is live, and no other    *)
(* step deletes anything.                                                  *)
THEOREM PruneSparesTheLivingHolds == AuthSpec => PruneSparesTheLiving
<1> DEFINE Spared ==
      \A s \in Sessions : Open(s) =>
        /\ sessions'[s] # "deleted"
        /\ \A t \in TokensOf(s) : tokens[t].status = "live" => tokens'[t].status # "deleted"
<1>1. AuthInv /\ [Next]_authVars => Spared
  <2> SUFFICES ASSUME AuthInv, [Next]_authVars, NEW s \in Sessions, Open(s)
               PROVE  /\ sessions'[s] # "deleted"
                      /\ \A t \in TokensOf(s) :
                           tokens[t].status = "live" => tokens'[t].status # "deleted"
    OBVIOUS
  <2>1. sessions[s] = "open" /\ s \notin DeadSessions
    BY DEF Open, DeadSessions
  <2>2. sessions'[s] # "deleted"
    <3>1. ASSUME NEW v, EndSession(v)
          PROVE  sessions'[s] # "deleted"
      BY <2>1, <3>1 DEF EndSession, AuthInv, AuthTypeOK
    <3>2. ASSUME NEW c \in Calls, PruneExpired(c)
          PROVE  sessions'[s] # "deleted"
      BY <2>1, <3>2 DEF PruneExpired
    <3>3. ASSUME NEW c \in Calls, NEW v \in Sessions, NEW t \in Tokens, StartSession(c, v, t)
          PROVE  sessions'[s] # "deleted"
      BY <2>1, <3>3 DEF StartSession, AuthInv, AuthTypeOK
    <3>4. ASSUME NEW c \in Calls, NEW v \in Sessions, RevokeSession(c, v)
          PROVE  sessions'[s] # "deleted"
      BY <3>1, <3>4 DEF RevokeSession
    <3>5. ASSUME NEW t \in Tokens, Logout(t)
          PROVE  sessions'[s] # "deleted"
      BY <3>1, <3>5 DEF Logout
    <3>6. ASSUME NEW c \in Calls,
                 \/ \E v \in Sessions : SendRefresh(c, v) \/ Authenticate(c, v)
                 \/ LoadToken(c) \/ RefuseToken(c)
                 \/ \E t \in Tokens : CommitRefresh(c, t)
                 \/ CommitRefusal(c) \/ RollBack(c) \/ Receive(c) \/ LoseAnswer(c)
          PROVE  UNCHANGED sessions
      BY <3>6 DEF SendRefresh, Authenticate, LoadToken, RefuseToken, CommitRefresh,
         CommitRefusal, RollBack, Receive, LoseAnswer
    <3>7. ASSUME NEW v \in Sessions, LogoutUnknown(v) \/ Lapse(v)
          PROVE  UNCHANGED sessions
      BY <3>7 DEF LogoutUnknown, Lapse
    <3>8. CASE UNCHANGED authVars
      BY <2>1, <3>8 DEF authVars
    <3> QED
      BY <2>1, <3>2, <3>3, <3>4, <3>5, <3>6, <3>7, <3>8 DEF Next
  <2>3. ASSUME NEW t \in TokensOf(s), tokens[t].status = "live"
        PROVE  tokens'[t].status # "deleted"
    <3>1. t \in Tokens /\ tokens[t].session = s
      BY DEF TokensOf
    <3>2. CASE \E c \in Calls : PruneExpired(c)
      BY <2>1, <2>3, <3>1, <3>2 DEF PruneExpired, DeadTokens
    <3>3. ASSUME NEW c \in Calls, NEW v \in Sessions, StartSession(c, v, t)
          PROVE  FALSE
      BY <2>3, <3>3 DEF StartSession
    <3>4. ASSUME NEW c \in Calls, CommitRefresh(c, t)
          PROVE  FALSE
      BY <2>3, <3>4 DEF CommitRefresh
    <3> QED
      BY <2>3, <3>1, <3>2, <3>3, <3>4, TokenMoves
  <2> QED
    BY <2>2, <2>3
<1>2. AuthInv /\ [Next]_authVars => [Spared]_authVars
  BY <1>1
<1> QED
  BY <1>2, AuthInvariance, PTL DEF AuthSpec, PruneSparesTheLiving
=============================================================================
