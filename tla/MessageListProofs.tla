-------------------------- MODULE MessageListProofs --------------------------
(***************************************************************************)
(* What a reader of a conversation is shown, for any number of runs and    *)
(* requests and pages of any size.                                         *)
(*                                                                         *)
(* The tables keep IndInv beside the reader, since the reader changes none *)
(* of them.  ListInv is what the reader has in hand: a page whose lines    *)
(* are where it says, whose text is the message's text or came before it,  *)
(* and a cursor that the conversation has reached.                         *)
(***************************************************************************)
EXTENDS MessageList, ConversationServiceProofs, SequenceTheorems

-----------------------------------------------------------------------------
(* What a page is: the rows after an offset, a limit of them at most, and  *)
(* all there are when there are fewer.                                     *)

LEMMA SmallerOfTwo ==
  ASSUME NEW m \in Nat, NEW n \in Nat
  PROVE  Min({m, n}) = IF m <= n THEN m ELSE n
BY DEF Min

IsPage(page, rows, offset, limit, S) ==
  /\ page \in Seq(S) /\ Len(page) <= limit
  /\ \A i \in 1..Len(page) : offset + i \in DOMAIN rows /\ page[i] = rows[offset + i]
  /\ Len(page) < limit =>
       \A j \in DOMAIN rows : j > offset => j - offset \in 1..Len(page)

LEMMA SliceIs ==
  ASSUME NEW S, NEW rows \in Seq(S), NEW offset \in Nat, NEW limit \in Nat
  PROVE  IsPage(Slice(rows, offset, limit), rows, offset, limit, S)
<1> DEFINE last == Min({offset + limit, Len(rows)})
<1>1. last = IF offset + limit <= Len(rows) THEN offset + limit ELSE Len(rows)
  BY SmallerOfTwo
<1>2. last \in Nat /\ last <= Len(rows) /\ last <= offset + limit
  BY <1>1
<1>3. last < offset + limit => last = Len(rows)
  BY <1>1
<1> HIDE DEF last
<1> DEFINE page == SubSeq(rows, offset + 1, last)
<1>4. /\ page \in Seq(S)
      /\ Len(page) = IF offset + 1 <= last THEN last - offset ELSE 0
      /\ \A i \in 1..Len(page) : page[i] = rows[offset + i]
  <2>1. \A i \in offset + 1 .. last : rows[i] \in S
    BY <1>2
  <2>2. /\ page \in Seq(S)
        /\ Len(page) = IF offset + 1 <= last THEN last - (offset + 1) + 1 ELSE 0
        /\ \A i \in 1 .. last - (offset + 1) + 1 : page[i] = rows[offset + 1 + i - 1]
    BY <1>2, <2>1, SubSeqProperties
  <2> HIDE DEF page
  <2> QED
    BY <1>2, <2>2
<1>5. Slice(rows, offset, limit) = page
  BY DEF Slice, last
<1> HIDE DEF page
<1> QED
  BY <1>2, <1>3, <1>4, <1>5 DEF IsPage

-----------------------------------------------------------------------------
(* What the tables never take back while the conversation is there.        *)
Grown ==
  /\ exists
  /\ Len(messages) <= Len(messages')
  /\ \A p \in DOMAIN messages :
       /\ messages'[p].role = messages[p].role
       /\ messages[p].content \in {None, messages'[p].content}

LEMMA TablesGrow ==
  ASSUME IndInv, Next, exists'
  PROVE  Grown
<1>1. messages \in Seq(Message)
  BY DEF IndInv, TypeOK
<1>2. CASE \E q \in Requests, r \in RunIds : ReserveTurn(q, r)
  <2>1. PICK q \in Requests, r \in RunIds : ReserveTurn(q, r)
    BY <1>2
  <2>2. /\ Len(messages') = Len(messages) + 2
        /\ \A p \in DOMAIN messages : messages'[p] = messages[p]
    BY <2>1, ReserveTurnMessages DEF IndInv
  <2>3. exists
    BY <2>1 DEF ReserveTurn
  <2> QED
    BY <1>1, <2>2, <2>3 DEF Grown
<1>3. CASE \E r \in RunIds : RunStep(r)
  <2>1. PICK r \in RunIds : Progress(r) \/ Ended(r) \/ Published(r)
    BY <1>3, RunStepKinds DEF IndInv
  <2>2. CASE Progress(r) \/ Ended(r)
    <3>1. messages' = messages /\ exists' = exists
      BY <2>2 DEF Progress, Ended
    <3> QED
      BY <1>1, <3>1 DEF Grown
  <2>3. CASE Published(r)
    <3>1. /\ runs[r].assistant \in DOMAIN messages
          /\ messages[runs[r].assistant].content = None
      BY <2>3, OpenSlotIsEmpty DEF Published, AssistantPositions
    <3>2. /\ Len(messages') = Len(messages)
          /\ \A p \in DOMAIN messages :
               /\ messages'[p].role = messages[p].role
               /\ p # runs[r].assistant => messages'[p] = messages[p]
      BY <2>3, <3>1, PublishedMessages DEF IndInv
    <3>3. exists
      BY <2>3 DEF Published
    <3> QED
      BY <1>1, <3>1, <3>2, <3>3 DEF Grown
  <2> QED
    BY <2>1, <2>2, <2>3
<1>4. CASE \E p, r \in RunIds : Retry(p, r)
  BY <1>1, <1>4 DEF Retry, Grown
<1>5. CASE DeleteConversation
  BY <1>5 DEF DeleteConversation
<1> QED
  BY <1>2, <1>3, <1>4, <1>5 DEF Next

LEMMA TablesAreTables ==
  ASSUME Tables
  PROVE  Next /\ reader' = reader
BY DEF Tables, Next

LEMMA ReadingChangesNothing ==
  ASSUME Read
  PROVE  UNCHANGED serviceVars /\ newest' = newest
BY DEF Read, StartWalk, ReadPage, ReadConversation, ReadLatestRuns, ReadRuns

LEMMA ListNextIndInv ==
  ASSUME IndInv, [ListNext]_vars
  PROVE  IndInv'
<1>1. [Next]_serviceVars
  BY TablesAreTables, ReadingChangesNothing DEF ListNext, vars, serviceVars
<1> QED
  BY <1>1, NextIndInv

-----------------------------------------------------------------------------
(* What the reader has in hand.                                            *)

Line == [position : Nat, role : {"user", "assistant"},
         content : {None} \cup Requests \cup Answers]

Reader == [at : {"idle", "messages", "conversation", "latest", "runs"},
           limit : Nat, after : Nat, page : Seq(Line),
           shown : Seq(Nat \cup RunIds), seen : Nat, known : SUBSET RunIds]

ReaderTypeOK == reader \in Reader /\ (~At("idle") => reader.limit > 0)

(* Every run has its place in the order of creation.                       *)
NewestHasAll == newest \in Seq(RunIds) /\ Present \subseteq ToSet(newest)

Listing == At("messages") \/ At("conversation") \/ At("latest")

Paged == At("conversation") \/ At("latest")

(* What the walk has got are the first positions, up to its cursor.        *)
ShownSoFar ==
  Listing => /\ Len(reader.shown) = reader.after
             /\ \A i \in DOMAIN reader.shown : reader.shown[i] = i

(* The page begins after the cursor, and ends where the messages did if it *)
(* is not full.                                                            *)
PageIsNext ==
  Paged =>
    /\ \A i \in DOMAIN reader.page : reader.page[i].position = reader.after + i
    /\ Len(reader.page) <= reader.limit
    /\ reader.after + Len(reader.page) <= reader.seen
    /\ Len(reader.page) < reader.limit =>
         reader.after + Len(reader.page) = reader.seen

CursorIsThere == exists /\ At("messages") => reader.after <= Len(messages)

(* A line has its message's text, or was read before there was any.        *)
TrueLine(line) ==
  /\ line.role = messages[line.position].role
  /\ line.content \in {None, messages[line.position].content}

PageStaysTrue ==
  exists /\ Paged =>
    /\ reader.seen <= Len(messages)
    /\ \A i \in DOMAIN reader.page : TrueLine(reader.page[i])

(* A run that was there when the walk began has been shown, or is among    *)
(* those the next pages show: new runs only push it further down.          *)
Ahead(r) ==
  \/ r \in ToSet(reader.shown)
  \/ \E i \in DOMAIN newest : i > reader.after /\ newest[i] = r

KnownAhead == exists /\ At("runs") => \A r \in reader.known : Ahead(r)

ListInv ==
  /\ ReaderTypeOK
  /\ NewestHasAll
  /\ ShownSoFar
  /\ PageIsNext
  /\ CursorIsThere
  /\ PageStaysTrue
  /\ KnownAhead

LEMMA InitListInv == ListInit => ListInv
<1> SUFFICES ASSUME ListInit PROVE ListInv
  OBVIOUS
<1>1. reader = NoWalk /\ newest = << >>
  BY DEF ListInit
<1>2. Present = {}
  BY DEF ListInit, Init, Present, NoRow
<1>3. reader.at = "idle" /\ reader \in Reader
  BY <1>1 DEF NoWalk, Reader
<1> QED
  BY <1>1, <1>2, <1>3 DEF ListInv, ReaderTypeOK, NewestHasAll, ShownSoFar,
     PageIsNext, CursorIsThere, PageStaysTrue, KnownAhead, At, Listing, Paged, ToSet

(* A request that ends, by its last page or by not finding the             *)
(* conversation, leaves nothing to keep.                                   *)
LEMMA EndOfWalk ==
  ASSUME ListInv, NotFound, UNCHANGED <<serviceVars, newest>>
  PROVE  ListInv'
<1>1. reader' = NoWalk
  BY DEF NotFound
<1>2. reader'.at = "idle" /\ reader' \in Reader
  BY <1>1 DEF NoWalk, Reader
<1>3. ReaderTypeOK' /\ ShownSoFar' /\ PageIsNext' /\ CursorIsThere' /\ PageStaysTrue'
      /\ KnownAhead'
  BY <1>2 DEF ReaderTypeOK, ShownSoFar, PageIsNext, CursorIsThere, PageStaysTrue,
     KnownAhead, At, Listing, Paged
<1>4. NewestHasAll'
  BY DEF ListInv, NewestHasAll, Present, serviceVars
<1> QED
  BY <1>3, <1>4 DEF ListInv

-----------------------------------------------------------------------------
(* The writers, beside a reader that stands still.                         *)

LEMMA SameReader ==
  ASSUME ReaderTypeOK, ShownSoFar, PageIsNext, reader' = reader
  PROVE  ReaderTypeOK' /\ ShownSoFar' /\ PageIsNext'
BY DEF ReaderTypeOK, ShownSoFar, PageIsNext, At, Listing, Paged

LEMMA GrownKeepsPages ==
  ASSUME IndInv, ListInv, Grown, reader' = reader
  PROVE  CursorIsThere' /\ PageStaysTrue'
<1>1. /\ messages \in Seq(Message) /\ exists
      /\ Len(messages) \in Nat /\ DOMAIN messages = 1..Len(messages)
      /\ Len(messages) <= Len(messages')
  BY DEF IndInv, TypeOK, Grown
<1>2. reader \in Reader
  BY DEF ListInv, ReaderTypeOK
<1>3. CursorIsThere'
  <2> SUFFICES ASSUME exists', reader.at = "messages"
               PROVE  reader.after <= Len(messages')
    BY DEF CursorIsThere, At
  <2>1. reader.after <= Len(messages)
    BY <1>1 DEF ListInv, CursorIsThere, At
  <2> QED
    BY <1>1, <1>2, <2>1 DEF Reader
<1>4. PageStaysTrue'
  <2> SUFFICES ASSUME reader.at \in {"conversation", "latest"}
               PROVE  /\ reader.seen <= Len(messages')
                      /\ \A i \in DOMAIN reader.page :
                           LET line == reader.page[i] IN
                             /\ line.role = messages'[line.position].role
                             /\ line.content \in {None, messages'[line.position].content}
    BY DEF PageStaysTrue, TrueLine, At, Paged
  <2>1. /\ reader.seen <= Len(messages)
        /\ \A i \in DOMAIN reader.page : TrueLine(reader.page[i])
        /\ \A i \in DOMAIN reader.page : reader.page[i].position = reader.after + i
        /\ reader.after + Len(reader.page) <= reader.seen
    BY <1>1 DEF ListInv, PageStaysTrue, PageIsNext, Paged, At
  <2>2. /\ reader.seen \in Nat /\ reader.after \in Nat /\ reader.page \in Seq(Line)
    BY <1>2 DEF Reader
  <2>3. reader.seen <= Len(messages')
    BY <1>1, <2>1, <2>2
  <2>4. ASSUME NEW i \in DOMAIN reader.page
        PROVE  LET line == reader.page[i] IN
                 /\ line.role = messages'[line.position].role
                 /\ line.content \in {None, messages'[line.position].content}
    <3>1. reader.page[i].position \in DOMAIN messages
      BY <1>1, <2>1, <2>2
    <3>2. TrueLine(reader.page[i])
      BY <2>1
    <3> QED
      BY <3>1, <3>2 DEF TrueLine, Grown
  <2> QED
    BY <2>3, <2>4
<1> QED
  BY <1>3, <1>4

(* A new run goes before all others and pushes them one place down.        *)
LEMMA PushedDown ==
  ASSUME newest \in Seq(RunIds), NEW r \in RunIds, newest' = <<r>> \o newest
  PROVE  /\ newest' \in Seq(RunIds)
         /\ r \in ToSet(newest')
         /\ \A i \in DOMAIN newest : i + 1 \in DOMAIN newest' /\ newest'[i + 1] = newest[i]
         /\ ToSet(newest) \subseteq ToSet(newest')
<1>1. /\ newest' \in Seq(RunIds) /\ Len(newest') = Len(newest) + 1
      /\ newest'[1] = r
      /\ \A i \in DOMAIN newest : i + 1 \in DOMAIN newest' /\ newest'[i + 1] = newest[i]
  OBVIOUS
<1>2. r \in ToSet(newest')
  BY <1>1 DEF ToSet
<1>3. ToSet(newest) \subseteq ToSet(newest')
  BY <1>1 DEF ToSet
<1> QED
  BY <1>1, <1>2, <1>3

LEMMA NewRunListInv ==
  ASSUME IndInv, ListInv, NEW r \in RunIds, reader' = reader, newest' = <<r>> \o newest,
         (\E q \in Requests : ReserveTurn(q, r)) \/ (\E p \in RunIds : Retry(p, r))
  PROVE  ListInv'
<1>1. exists /\ exists' = exists /\ Next
  BY DEF ReserveTurn, Retry, Next, IndInv, RunsAreWired, Present, RetryableStatuses
<1>2. Grown
  BY <1>1, TablesGrow
<1>3. newest \in Seq(RunIds) /\ Present \subseteq ToSet(newest) /\ reader \in Reader
  BY DEF ListInv, NewestHasAll, ReaderTypeOK
<1>4. Present' \subseteq Present \cup {r}
  <2>1. \A s \in RunIds \ {r} : runs'[s] = runs[s]
    BY DEF ReserveTurn, Retry, WriteRow, IndInv, TypeOK
  <2> QED
    BY <2>1 DEF Present
<1>5. NewestHasAll'
  BY <1>3, <1>4, PushedDown DEF NewestHasAll
<1>6. KnownAhead'
  <2> SUFFICES ASSUME reader.at = "runs", NEW s \in reader.known
               PROVE  \/ s \in ToSet(reader.shown)
                      \/ \E i \in DOMAIN newest' : i > reader.after /\ newest'[i] = s
    BY DEF KnownAhead, Ahead, At
  <2>1. Ahead(s)
    BY <1>1 DEF ListInv, KnownAhead, At
  <2>2. CASE \E i \in DOMAIN newest : i > reader.after /\ newest[i] = s
    <3>1. PICK i \in DOMAIN newest : i > reader.after /\ newest[i] = s
      BY <2>2
    <3>2. i + 1 \in DOMAIN newest' /\ newest'[i + 1] = s
      BY <1>3, <3>1, PushedDown
    <3>3. i + 1 > reader.after
      BY <1>3, <3>1 DEF Reader
    <3> QED
      BY <3>2, <3>3
  <2> QED
    BY <2>1, <2>2 DEF Ahead
<1> QED
  BY <1>2, <1>5, <1>6, GrownKeepsPages, SameReader DEF ListInv

LEMMA RunStepListInv ==
  ASSUME IndInv, ListInv, NEW r \in RunIds, reader' = reader, newest' = newest, RunStep(r)
  PROVE  ListInv'
<1>1. Next /\ (Progress(r) \/ Ended(r) \/ Published(r))
  BY RunStepKinds DEF Next, IndInv
<1>2. exists' = exists /\ SameAttempt(r) /\ r \in Active /\ runs'[r].status \in Statuses
  BY <1>1 DEF Progress, Ended, Published, Statuses, TerminalStatuses
<1>3. exists /\ Present' = Present
  BY <1>2, SameAttemptRows DEF IndInv, RunsAreWired
<1>4. Grown
  BY <1>1, <1>2, <1>3, TablesGrow
<1>5. NewestHasAll'
  BY <1>3 DEF ListInv, NewestHasAll
<1>6. KnownAhead'
  BY <1>2 DEF ListInv, KnownAhead, Ahead, At
<1> QED
  BY <1>4, <1>5, <1>6, GrownKeepsPages, SameReader DEF ListInv

LEMMA DeleteListInv ==
  ASSUME ListInv, DeleteConversation, reader' = reader, newest' = << >>
  PROVE  ListInv'
<1>1. ~exists' /\ Present' = {}
  BY DEF DeleteConversation, Present, NoRow
<1>2. NewestHasAll'
  BY <1>1 DEF NewestHasAll
<1>3. CursorIsThere' /\ PageStaysTrue' /\ KnownAhead'
  BY <1>1 DEF CursorIsThere, PageStaysTrue, KnownAhead
<1> QED
  BY <1>2, <1>3, SameReader DEF ListInv

LEMMA TablesListInv ==
  ASSUME IndInv, ListInv, Tables
  PROVE  ListInv'
<1>1. reader' = reader
  BY DEF Tables
<1>2. CASE \E r \in RunIds :
             /\ (\E q \in Requests : ReserveTurn(q, r)) \/ (\E p \in RunIds : Retry(p, r))
             /\ newest' = <<r>> \o newest
  BY <1>1, <1>2, NewRunListInv
<1>3. CASE (\E r \in RunIds : RunStep(r)) /\ UNCHANGED newest
  BY <1>1, <1>3, RunStepListInv
<1>4. CASE DeleteConversation /\ newest' = << >>
  BY <1>1, <1>4, DeleteListInv
<1> QED
  BY <1>2, <1>3, <1>4 DEF Tables

-----------------------------------------------------------------------------
(* The reader, beside tables that stand still.                             *)

LEMMA SameTables ==
  ASSUME ListInv, UNCHANGED <<serviceVars, newest>>
  PROVE  /\ NewestHasAll'
         /\ exists' = exists /\ messages' = messages /\ runs' = runs
         /\ newest' = newest
BY DEF ListInv, NewestHasAll, Present, serviceVars

LEMMA StartWalkListInv ==
  ASSUME IndInv, ListInv, NEW step \in {"messages", "runs"}, NEW limit \in Limits,
         StartWalk(step, limit)
  PROVE  ListInv'
<1> DEFINE walk == [NoWalk EXCEPT !.at = step, !.limit = limit, !.known = Present]
<1>1. reader' = walk /\ UNCHANGED <<serviceVars, newest>>
  BY DEF StartWalk
<1>2. limit \in Nat /\ limit > 0
  BY LimitsAssumption
<1>3. /\ walk \in Reader /\ walk.at = step /\ walk.limit = limit /\ walk.after = 0
      /\ walk.shown = << >> /\ walk.known = Present
  <2>1. NoWalk \in Reader /\ NoWalk.after = 0 /\ NoWalk.shown = << >>
    BY DEF NoWalk, Reader
  <2>2. Present \in SUBSET RunIds
    BY DEF Present
  <2> QED
    BY <1>2, <2>1, <2>2 DEF Reader
<1> HIDE DEF walk
<1>4. ReaderTypeOK' /\ ShownSoFar' /\ PageIsNext' /\ PageStaysTrue'
  BY <1>1, <1>2, <1>3 DEF ReaderTypeOK, ShownSoFar, PageIsNext, PageStaysTrue, At,
     Listing, Paged
<1>5. CursorIsThere'
  BY <1>1, <1>3, SameTables DEF CursorIsThere, At, IndInv, TypeOK
<1>6. KnownAhead'
  <2> SUFFICES ASSUME NEW s \in Present
               PROVE  \E i \in DOMAIN newest : i > 0 /\ newest[i] = s
    BY <1>1, <1>3, SameTables DEF KnownAhead, Ahead
  <2>1. newest \in Seq(RunIds) /\ s \in ToSet(newest)
    BY DEF ListInv, NewestHasAll
  <2> QED
    BY <2>1 DEF ToSet
<1> QED
  BY <1>1, <1>4, <1>5, <1>6, SameTables DEF ListInv

(* The messages as the request selects them.                               *)
Lines == [p \in DOMAIN messages |->
            [position |-> p, role |-> messages[p].role, content |-> messages[p].content]]

LEMMA LinesAreTrue ==
  ASSUME TypeOK
  PROVE  /\ Lines \in Seq(Line)
         /\ Len(Lines) = Len(messages)
         /\ \A p \in DOMAIN messages : Lines[p].position = p /\ TrueLine(Lines[p])
<1>1. messages \in Seq(Message) /\ Len(messages) \in Nat
      /\ DOMAIN messages = 1..Len(messages)
  BY DEF TypeOK
<1>2. ASSUME NEW p \in DOMAIN messages
      PROVE  Lines[p] \in Line /\ Lines[p].position = p /\ TrueLine(Lines[p])
  <2>1. messages[p] \in Message
    BY <1>1
  <2> QED
    BY <1>1, <2>1 DEF Lines, Line, TrueLine, Message
<1>3. Lines \in [1..Len(messages) -> Line]
  BY <1>1, <1>2 DEF Lines
<1>4. Lines \in Seq(Line) /\ Len(Lines) = Len(messages)
  BY <1>1, <1>3
<1> QED
  BY <1>2, <1>4

LEMMA ReadPageListInv ==
  ASSUME IndInv, ListInv, ReadPage
  PROVE  ListInv'
<1>1. reader.at = "messages" /\ UNCHANGED <<serviceVars, newest>> /\ reader \in Reader
  BY DEF ReadPage, At, ListInv, ReaderTypeOK
<1>2. CASE ~exists
  <2>1. NotFound
    BY <1>2 DEF ReadPage
  <2> QED
    BY <1>1, <2>1, EndOfWalk
<1>3. CASE exists
  <2> DEFINE page == MessagesAfter(reader.after, reader.limit)
             next == [reader EXCEPT !.at = "conversation", !.page = page,
                                    !.seen = Len(messages)]
  <2>1. reader' = next
    BY <1>3 DEF ReadPage
  <2>2. /\ messages \in Seq(Message) /\ Len(messages) \in Nat
        /\ DOMAIN messages = 1..Len(messages)
        /\ reader.after \in Nat /\ reader.limit \in Nat /\ reader.limit > 0
        /\ reader.after <= Len(messages)
    BY <1>1, <1>3 DEF IndInv, TypeOK, Reader, ListInv, CursorIsThere, ReaderTypeOK, At
  <2>3. page = Slice(Lines, reader.after, reader.limit)
    BY DEF MessagesAfter, Lines
  <2>4. /\ Lines \in Seq(Line) /\ Len(Lines) = Len(messages)
        /\ DOMAIN Lines = DOMAIN messages
        /\ \A p \in DOMAIN messages : Lines[p].position = p /\ TrueLine(Lines[p])
    BY <2>2, LinesAreTrue DEF IndInv
  <2> HIDE DEF page
  <2>5. /\ page \in Seq(Line) /\ Len(page) <= reader.limit
        /\ DOMAIN page = 1..Len(page) /\ Len(page) \in Nat
        /\ \A i \in 1..Len(page) :
             reader.after + i \in DOMAIN messages /\ page[i] = Lines[reader.after + i]
        /\ Len(page) < reader.limit =>
             \A j \in DOMAIN messages : j > reader.after => j - reader.after \in 1..Len(page)
    <3>1. IsPage(page, Lines, reader.after, reader.limit, Line)
      BY <2>2, <2>3, <2>4, SliceIs, Zenon
    <3> QED
      BY <2>4, <3>1 DEF IsPage
  <2>6. /\ next \in Reader /\ next.at = "conversation" /\ next.limit = reader.limit
        /\ next.after = reader.after /\ next.page = page
        /\ next.shown = reader.shown /\ next.seen = Len(messages)
    BY <1>1, <2>2, <2>5 DEF Reader
  <2> HIDE DEF next
  <2>7. ReaderTypeOK' /\ CursorIsThere' /\ KnownAhead'
    BY <2>1, <2>2, <2>6 DEF ReaderTypeOK, CursorIsThere, KnownAhead, At
  <2>8. ShownSoFar'
    BY <1>1, <2>1, <2>6 DEF ListInv, ShownSoFar, Listing, At
  <2>9. PageIsNext'
    <3>1. \A i \in DOMAIN page : page[i].position = reader.after + i
      BY <2>4, <2>5
    <3>2. reader.after + Len(page) <= Len(messages)
      <4>1. CASE Len(page) = 0
        BY <2>2, <4>1
      <4>2. CASE Len(page) # 0
        <5>1. Len(page) \in 1..Len(page)
          BY <2>5, <4>2
        <5> QED
          BY <2>2, <2>5, <5>1
      <4> QED
        BY <4>1, <4>2
    <3>3. Len(page) < reader.limit => reader.after + Len(page) = Len(messages)
      <4> SUFFICES ASSUME Len(page) < reader.limit, reader.after + Len(page) < Len(messages)
                   PROVE  FALSE
        BY <2>2, <2>5, <3>2
      <4>1. Len(messages) \in DOMAIN messages /\ Len(messages) > reader.after
        BY <2>2, <2>5
      <4> QED
        BY <2>2, <2>5, <4>1
    <3> QED
      BY <2>1, <2>5, <2>6, <3>1, <3>2, <3>3 DEF PageIsNext
  <2>10. PageStaysTrue'
    <3>1. \A i \in DOMAIN page : TrueLine(page[i])
      BY <2>4, <2>5
    <3>2. messages' = messages
      BY <1>1, SameTables
    <3>3. reader'.page = page /\ reader'.seen = Len(messages)
      BY <2>1, <2>6
    <3> QED
      BY <2>2, <3>1, <3>2, <3>3 DEF PageStaysTrue, TrueLine
  <2> QED
    BY <1>1, <2>7, <2>8, <2>9, <2>10, SameTables DEF ListInv
<1> QED
  BY <1>2, <1>3

LEMMA ReadConversationListInv ==
  ASSUME IndInv, ListInv, ReadConversation
  PROVE  ListInv'
<1>1. /\ reader.at = "conversation" /\ UNCHANGED <<serviceVars, newest>>
      /\ reader \in Reader
  BY DEF ReadConversation, At, ListInv, ReaderTypeOK
<1>2. CASE ~exists
  <2>1. NotFound
    BY <1>2 DEF ReadConversation
  <2> QED
    BY <1>1, <2>1, EndOfWalk
<1>3. CASE exists
  <2> DEFINE next == [reader EXCEPT !.at = "latest"]
  <2>1. reader' = next
    BY <1>3 DEF ReadConversation
  <2>2. /\ next \in Reader /\ next.at = "latest" /\ next.limit = reader.limit
        /\ next.after = reader.after /\ next.page = reader.page
        /\ next.shown = reader.shown /\ next.seen = reader.seen
    BY <1>1 DEF Reader
  <2> HIDE DEF next
  <2>3. ReaderTypeOK' /\ CursorIsThere' /\ KnownAhead' /\ ShownSoFar' /\ PageIsNext'
    BY <1>1, <2>1, <2>2 DEF ListInv, ReaderTypeOK, CursorIsThere, KnownAhead, ShownSoFar,
       PageIsNext, Listing, Paged, At
  <2>4. PageStaysTrue'
    BY <1>1, <1>3, <2>1, <2>2, SameTables DEF ListInv, PageStaysTrue, TrueLine, Paged, At
  <2> QED
    BY <1>1, <2>3, <2>4, SameTables DEF ListInv
<1> QED
  BY <1>2, <1>3

LEMMA ShownWithPage ==
  ASSUME ListInv, At("latest")
  PROVE  /\ reader.shown \o Positions \in Seq(Nat \cup RunIds)
         /\ Len(reader.shown \o Positions) = reader.after + Len(reader.page)
         /\ \A i \in 1 .. reader.after + Len(reader.page) :
              (reader.shown \o Positions)[i] = i
<1>1. /\ reader.page \in Seq(Line) /\ reader.shown \in Seq(Nat \cup RunIds)
      /\ reader.after \in Nat
  BY DEF ListInv, ReaderTypeOK, Reader
<1>2. /\ Len(reader.shown) = reader.after
      /\ \A i \in DOMAIN reader.shown : reader.shown[i] = i
      /\ \A i \in DOMAIN reader.page : reader.page[i].position = reader.after + i
  BY DEF ListInv, ShownSoFar, PageIsNext, Listing, Paged
<1>3. /\ Positions \in Seq(Nat \cup RunIds) /\ Len(Positions) = Len(reader.page)
      /\ \A i \in 1..Len(reader.page) : Positions[i] = reader.after + i
  <2>1. Positions = [i \in 1..Len(reader.page) |-> reader.after + i]
    BY <1>1, <1>2 DEF Positions
  <2> QED
    BY <1>1, <2>1
<1>4. Len(reader.page) \in Nat /\ Len(reader.shown) \in Nat
  BY <1>1
<1>5. /\ reader.shown \o Positions \in Seq(Nat \cup RunIds)
      /\ Len(reader.shown \o Positions) = reader.after + Len(reader.page)
  BY <1>1, <1>2, <1>3
<1>6. ASSUME NEW i \in 1 .. reader.after + Len(reader.page)
      PROVE  (reader.shown \o Positions)[i] = i
  <2>0. (reader.shown \o Positions)[i] =
          IF i <= reader.after THEN reader.shown[i] ELSE Positions[i - reader.after]
    BY <1>1, <1>2, <1>3, ConcatProperties
  <2>1. CASE i <= reader.after
    <3>1. i \in DOMAIN reader.shown
      BY <1>1, <1>2, <2>1
    <3> QED
      BY <1>2, <2>0, <2>1, <3>1
  <2>2. CASE i > reader.after
    <3>1. i - reader.after \in 1..Len(reader.page)
      BY <1>1, <1>4, <2>2
    <3>2. Positions[i - reader.after] = reader.after + (i - reader.after)
      BY <1>3, <3>1
    <3> QED
      BY <1>1, <2>0, <2>2, <3>2
  <2>3. i <= reader.after \/ i > reader.after
    BY <1>1, <1>4
  <2> QED
    BY <2>1, <2>2, <2>3, Zenon
<1> QED
  BY <1>5, <1>6

LEMMA FullPageHasCursor ==
  ASSUME ListInv, At("latest")
  PROVE  IF Len(reader.page) = reader.limit
         THEN /\ Cursor(reader.page, reader.limit) = reader.after + reader.limit
              /\ Cursor(reader.page, reader.limit) # None
         ELSE Cursor(reader.page, reader.limit) = None
<1>1. /\ reader.page \in Seq(Line) /\ reader.after \in Nat
      /\ reader.limit \in Nat /\ reader.limit > 0
  BY DEF ListInv, ReaderTypeOK, Reader, At
<1>2. \A i \in DOMAIN reader.page : reader.page[i].position = reader.after + i
  BY DEF ListInv, PageIsNext, Paged
<1>3. CASE Len(reader.page) = reader.limit
  <2>1. Last(reader.page).position = reader.after + reader.limit
    BY <1>1, <1>2, <1>3 DEF Last
  <2> QED
    BY <1>1, <1>3, <2>1, CursorAssumption DEF Cursor
<1> QED
  BY <1>3 DEF Cursor

LEMMA ReadLatestRunsListInv ==
  ASSUME IndInv, ListInv, ReadLatestRuns
  PROVE  ListInv'
<1>1. /\ At("latest") /\ UNCHANGED <<serviceVars, newest>> /\ reader \in Reader
      /\ reader.limit > 0
  BY DEF ReadLatestRuns, At, ListInv, ReaderTypeOK
<1>2. CASE Len(reader.page) # reader.limit
  <2>1. NotFound
    BY <1>1, <1>2, FullPageHasCursor DEF ReadLatestRuns, NotFound
  <2> QED
    BY <1>1, <2>1, EndOfWalk
<1>3. CASE Len(reader.page) = reader.limit
  <2> DEFINE cursor == reader.after + reader.limit
             more == reader.shown \o Positions
             next == [reader EXCEPT !.at = "messages", !.after = cursor,
                                    !.page = << >>, !.shown = more]
  <2>1. reader' = next
    BY <1>1, <1>3, FullPageHasCursor DEF ReadLatestRuns
  <2>2. /\ more \in Seq(Nat \cup RunIds) /\ Len(more) = cursor
        /\ \A i \in 1..cursor : more[i] = i
    BY <1>1, <1>3, ShownWithPage
  <2>3. cursor \in Nat
    BY <1>1 DEF Reader
  <2>4. exists => cursor <= Len(messages)
    <3>1. /\ reader.after + Len(reader.page) <= reader.seen
          /\ exists => reader.seen <= Len(messages)
      BY <1>1 DEF ListInv, PageIsNext, PageStaysTrue, Paged
    <3>2. reader.seen \in Nat /\ Len(messages) \in Nat
      BY <1>1 DEF Reader, IndInv, TypeOK
    <3> QED
      BY <1>3, <2>3, <3>1, <3>2
  <2> HIDE DEF cursor, more
  <2>5. /\ next \in Reader /\ next.at = "messages" /\ next.after = cursor
        /\ next.shown = more /\ next.limit = reader.limit
    <3>1. << >> \in Seq(Line)
      OBVIOUS
    <3> DEFINE none == << >>
    <3> HIDE DEF none
    <3>2. next = [reader EXCEPT !.at = "messages", !.after = cursor, !.page = none,
                                !.shown = more]
      BY Zenon DEF none
    <3>3. none \in Seq(Line)
      BY <3>1 DEF none
    <3> HIDE DEF next
    <3> QED
      BY <1>1, <2>2, <2>3, <3>2, <3>3 DEF Reader
  <2> HIDE DEF next
  <2>6. ReaderTypeOK' /\ PageIsNext' /\ PageStaysTrue' /\ KnownAhead'
    BY <1>1, <2>1, <2>5 DEF ReaderTypeOK, PageIsNext, PageStaysTrue, KnownAhead, Paged, At
  <2>7. ShownSoFar'
    <3>1. DOMAIN more = 1..cursor
      BY <2>2
    <3> QED
      BY <2>1, <2>2, <2>5, <3>1 DEF ShownSoFar
  <2>8. CursorIsThere'
    BY <1>1, <2>1, <2>4, <2>5, SameTables DEF CursorIsThere
  <2> QED
    BY <1>1, <2>6, <2>7, <2>8, SameTables DEF ListInv
<1> QED
  BY <1>2, <1>3

(* A page of the runs, and the places in the order it stands for.          *)
LEMMA RunsPageIs ==
  ASSUME ListInv, At("runs"),
         NEW page, page = RunsPage(reader.after, reader.limit)
  PROVE  /\ page \in Seq(RunIds) /\ Len(page) <= reader.limit
         /\ \A i \in DOMAIN newest :
              /\ i > reader.after
              /\ i <= reader.after + reader.limit \/ Len(page) < reader.limit
              => newest[i] \in ToSet(page)
<1>1. newest \in Seq(RunIds) /\ reader.after \in Nat /\ reader.limit \in Nat
  BY DEF ListInv, NewestHasAll, ReaderTypeOK, Reader
<1>2. /\ page \in Seq(RunIds) /\ Len(page) <= reader.limit
      /\ \A i \in 1..Len(page) : page[i] = newest[reader.after + i]
      /\ Len(page) < reader.limit =>
           \A j \in DOMAIN newest : j > reader.after => j - reader.after \in 1..Len(page)
  BY <1>1, SliceIs DEF RunsPage, IsPage
<1>3. ASSUME NEW i \in DOMAIN newest, i > reader.after,
             i <= reader.after + reader.limit \/ Len(page) < reader.limit
      PROVE  newest[i] \in ToSet(page)
  <2>1. i - reader.after \in 1..Len(page)
    BY <1>1, <1>2, <1>3
  <2>2. page[i - reader.after] = newest[i]
    BY <1>1, <1>2, <2>1
  <2> QED
    BY <1>2, <2>1, <2>2 DEF ToSet
<1> QED
  BY <1>2, <1>3

LEMMA BothParts ==
  ASSUME NEW S, NEW s \in Seq(S), NEW t \in Seq(S)
  PROVE  ToSet(s) \subseteq ToSet(s \o t) /\ ToSet(t) \subseteq ToSet(s \o t)
<1>1. /\ \A i \in DOMAIN s : i \in DOMAIN (s \o t) /\ (s \o t)[i] = s[i]
      /\ \A i \in DOMAIN t :
           Len(s) + i \in DOMAIN (s \o t) /\ (s \o t)[Len(s) + i] = t[i]
  OBVIOUS
<1> QED
  BY <1>1 DEF ToSet

LEMMA ReadRunsListInv ==
  ASSUME IndInv, ListInv, ReadRuns
  PROVE  ListInv'
<1> DEFINE page == RunsPage(reader.after, reader.limit)
<1>1. /\ At("runs") /\ UNCHANGED <<serviceVars, newest>> /\ reader \in Reader
      /\ reader.limit > 0
  BY DEF ReadRuns, At, ListInv, ReaderTypeOK
<1>2. CASE ~(exists /\ Len(page) = reader.limit)
  <2>1. NotFound
    BY <1>2 DEF ReadRuns
  <2> QED
    BY <1>1, <2>1, EndOfWalk
<1>3. CASE exists /\ Len(page) = reader.limit
  <2> DEFINE more == reader.shown \o page
             next == [reader EXCEPT !.after = @ + reader.limit, !.shown = @ \o page]
  <2>1. reader' = next
    BY <1>3 DEF ReadRuns
  <2>2. /\ page \in Seq(RunIds)
        /\ \A i \in DOMAIN newest :
             i > reader.after /\ i <= reader.after + reader.limit =>
               newest[i] \in ToSet(page)
    BY <1>1, RunsPageIs
  <2> HIDE DEF page
  <2>3. /\ reader.shown \in Seq(Nat \cup RunIds) /\ page \in Seq(Nat \cup RunIds)
        /\ reader.after \in Nat /\ reader.limit \in Nat
    BY <1>1, <2>2 DEF Reader
  <2>4. more \in Seq(Nat \cup RunIds) /\ reader.after + reader.limit \in Nat
    BY <2>3
  <2>5. ToSet(reader.shown) \subseteq ToSet(more) /\ ToSet(page) \subseteq ToSet(more)
    BY <2>3, BothParts
  <2>6. /\ next \in Reader /\ next.at = "runs" /\ next.limit = reader.limit
        /\ next.after = reader.after + reader.limit /\ next.shown = more
        /\ next.known = reader.known
    BY <1>1, <2>4 DEF Reader, At
  <2> HIDE DEF next, more
  <2>7. ReaderTypeOK' /\ ShownSoFar' /\ PageIsNext' /\ CursorIsThere' /\ PageStaysTrue'
    BY <1>1, <2>1, <2>6 DEF ReaderTypeOK, ShownSoFar, PageIsNext, CursorIsThere,
       PageStaysTrue, Listing, Paged, At
  <2>8. KnownAhead'
    <3> SUFFICES ASSUME NEW s \in reader.known
                 PROVE  \/ s \in ToSet(more)
                        \/ \E i \in DOMAIN newest :
                             i > reader.after + reader.limit /\ newest[i] = s
      BY <1>1, <2>1, <2>6, SameTables DEF KnownAhead, Ahead
    <3>1. Ahead(s)
      BY <1>1, <1>3 DEF ListInv, KnownAhead
    <3>2. CASE \E i \in DOMAIN newest : i > reader.after /\ newest[i] = s
      <4>1. PICK i \in DOMAIN newest : i > reader.after /\ newest[i] = s
        BY <3>2
      <4>2. i \in Nat
        BY DEF ListInv, NewestHasAll
      <4>3. CASE i <= reader.after + reader.limit
        BY <2>2, <2>5, <4>1, <4>3
      <4> QED
        BY <2>3, <4>1, <4>2, <4>3
    <3> QED
      BY <2>5, <3>1, <3>2 DEF Ahead
  <2> QED
    BY <1>1, <2>7, <2>8, SameTables DEF ListInv
<1> QED
  BY <1>2, <1>3

LEMMA ListNextListInv ==
  ASSUME IndInv, ListInv, [ListNext]_vars
  PROVE  ListInv'
<1>1. CASE Tables
  BY <1>1, TablesListInv
<1>2. ASSUME NEW step \in {"messages", "runs"}, NEW limit \in Limits,
             StartWalk(step, limit)
      PROVE  ListInv'
  BY <1>2, StartWalkListInv
<1>3. CASE ReadPage
  BY <1>3, ReadPageListInv
<1>4. CASE ReadConversation
  BY <1>4, ReadConversationListInv
<1>5. CASE ReadLatestRuns
  BY <1>5, ReadLatestRunsListInv
<1>6. CASE ReadRuns
  BY <1>6, ReadRunsListInv
<1>7. CASE UNCHANGED vars
  <2>1. UNCHANGED <<serviceVars, newest>> /\ reader' = reader
    BY <1>7 DEF vars, serviceVars
  <2>2. CursorIsThere' /\ PageStaysTrue' /\ KnownAhead'
    BY <2>1, SameTables DEF ListInv, CursorIsThere, PageStaysTrue, TrueLine, KnownAhead,
       Ahead, Paged, At
  <2> QED
    BY <2>1, <2>2, SameTables, SameReader DEF ListInv
<1> QED
  BY <1>1, <1>2, <1>3, <1>4, <1>5, <1>6, <1>7 DEF ListNext, Read

(* The writers keep what they keep without a reader, and the reader always *)
(* has in hand what ListInv says.                                          *)
THEOREM ListInvariance == ListSpec => [](IndInv /\ ListInv)
<1>1. ListInit => IndInv /\ ListInv
  BY InitIndInv, InitListInv DEF ListInit
<1>2. IndInv /\ ListInv /\ [ListNext]_vars => (IndInv /\ ListInv)'
  BY ListNextIndInv, ListNextListInv
<1> QED
  BY <1>1, <1>2, PTL DEF ListSpec

-----------------------------------------------------------------------------
(* An answer has its completed attempt, and that is the latest one.        *)
LEMMA AnswerIsTheLatest ==
  ASSUME IndInv, NEW p \in AssistantPositions, messages[p].content # None
  PROVE  \E view \in LatestRun(p) :
           view.status = "completed" /\ view.response = messages[p].content
<1>1. PICK r \in Present : runs[r].status = "completed" /\ runs[r].assistant = p
  BY DEF IndInv, TextComesFromCompleted
<1>2. runs[r].response = messages[p].content
  BY <1>1 DEF IndInv, CompletedArePublished
<1>3. r \in RunsFor(p) /\ runs[r].attempt \in Nat
  BY <1>1 DEF RunsFor, IndInv, TypeOK, Row, Present
<1>4. ASSUME NEW t \in RunsFor(p)
      PROVE  runs[t].attempt <= runs[r].attempt
  <2>1. t # r => runs[t].attempt < runs[r].attempt
    BY <1>1 DEF IndInv, LatestAttemptDecides
  <2>2. runs[t].attempt \in Nat
    BY DEF RunsFor, IndInv, TypeOK, Row, Present
  <2> QED
    BY <1>3, <2>1, <2>2
<1>5. ViewOf(r) \in LatestRun(p)
  BY <1>3, <1>4 DEF LatestRun
<1>6. ViewOf(r).status = "completed" /\ ViewOf(r).response = messages[p].content
  BY <1>1, <1>2 DEF ViewOf
<1> QED
  BY <1>5, <1>6

LEMMA PageTellsTheTruth ==
  ASSUME IndInv, ListInv, At("latest"), exists,
         NEW i \in DOMAIN PageViews, PageViews[i].role = "assistant"
  PROVE  TextHasItsRun(PageViews[i]) /\ AnswerIsShown(PageViews[i])
<1> DEFINE line == reader.page[i]
           view == PageViews[i]
<1>1. /\ i \in DOMAIN reader.page
      /\ view.position = line.position /\ view.role = line.role
      /\ view.content = line.content
      /\ line.role = "assistant" => view.latest = LatestRun(line.position)
  BY DEF PageViews
<1>2. /\ reader.page \in Seq(Line) /\ reader.after \in Nat /\ reader.seen \in Nat
      /\ messages \in Seq(Message)
  BY DEF ListInv, ReaderTypeOK, Reader, IndInv, TypeOK
<1>3. /\ line.position = reader.after + i /\ TrueLine(line)
      /\ reader.after + Len(reader.page) <= reader.seen
      /\ reader.seen <= Len(messages)
  BY <1>1 DEF ListInv, PageIsNext, PageStaysTrue, Paged
<1>4. line.position \in DOMAIN messages
  BY <1>1, <1>2, <1>3
<1> HIDE DEF line, view
<1>5. line.position \in AssistantPositions /\ view.latest = LatestRun(line.position)
  BY <1>1, <1>3, <1>4 DEF TrueLine, AssistantPositions, view
<1>6. messages[line.position].content # None =>
        \E latest \in view.latest :
          latest.status = "completed" /\ latest.response = messages[line.position].content
  BY <1>5, AnswerIsTheLatest
<1>7. line.content \in {None, messages[line.position].content}
  BY <1>3 DEF TrueLine
<1>8. TextHasItsRun(view) /\ AnswerIsShown(view)
  BY <1>1, <1>6, <1>7 DEF TextHasItsRun, AnswerIsShown
<1> QED
  BY <1>8 DEF view

(* The page a client gets shows every answer there is, and no answer whose *)
(* attempt is not shown completed with it, although its messages and their *)
(* attempts are read one after the other.                                  *)
THEOREM PagesAreTruthfulHolds == ListSpec => PagesAreTruthful
<1>1. IndInv /\ ListInv =>
        [ReadLatestRuns /\ exists =>
           \A i \in DOMAIN PageViews :
             PageViews[i].role = "assistant" =>
               TextHasItsRun(PageViews[i]) /\ AnswerIsShown(PageViews[i])]_vars
  BY PageTellsTheTruth DEF ReadLatestRuns
<1> QED
  BY <1>1, ListInvariance, PTL DEF PagesAreTruthful

LEMMA WalkEndsWhole ==
  ASSUME ListInv
  PROVE  WalkIsWhole
<1> SUFFICES ASSUME ReadLatestRuns, reader'.at = "idle"
             PROVE  reader.shown \o Positions = [p \in 1..reader.seen |-> p]
  BY DEF WalkIsWhole
<1>1. At("latest") /\ reader \in Reader
  BY DEF ReadLatestRuns, ListInv, ReaderTypeOK
<1>2. Len(reader.page) # reader.limit
  <2> SUFFICES ASSUME Len(reader.page) = reader.limit
               PROVE  FALSE
    OBVIOUS
  <2> DEFINE cursor == Cursor(reader.page, reader.limit)
             more == reader.shown \o Positions
  <2>1. cursor # None
    BY <1>1, FullPageHasCursor
  <2>2. PICK none : reader' = [reader EXCEPT !.at = "messages", !.after = cursor,
                                             !.page = none, !.shown = more]
    BY <2>1 DEF ReadLatestRuns
  <2> HIDE DEF cursor, more
  <2>3. reader'.at = "messages"
    BY <1>1, <2>2 DEF Reader
  <2> QED
    BY <2>3
<1>3. /\ Len(reader.page) <= reader.limit
      /\ Len(reader.page) < reader.limit =>
           reader.after + Len(reader.page) = reader.seen
  BY <1>1 DEF ListInv, PageIsNext, Paged
<1>4. reader.after + Len(reader.page) = reader.seen /\ reader.seen \in Nat
  BY <1>1, <1>2, <1>3 DEF Reader
<1> DEFINE shown == reader.shown \o Positions
<1>5. /\ shown \in Seq(Nat \cup RunIds) /\ Len(shown) = reader.seen
      /\ \A i \in 1..reader.seen : shown[i] = i
  BY <1>1, <1>4, ShownWithPage
<1> HIDE DEF shown
<1>6. shown = [p \in 1..reader.seen |-> p]
  BY <1>4, <1>5
<1> QED
  BY <1>6 DEF shown

LEMMA RunsWalkEndsWhole ==
  ASSUME ListInv
  PROVE  RunsWalkMissesNone
<1> SUFFICES ASSUME ReadRuns, exists, reader'.at = "idle", NEW r \in reader.known
             PROVE  r \in ToSet(reader.shown \o RunsPage(reader.after, reader.limit))
  BY DEF RunsWalkMissesNone
<1> DEFINE page == RunsPage(reader.after, reader.limit)
<1>1. At("runs") /\ reader \in Reader
  BY DEF ReadRuns, ListInv, ReaderTypeOK
<1>2. Len(page) # reader.limit
  <2> SUFFICES ASSUME Len(page) = reader.limit
               PROVE  FALSE
    OBVIOUS
  <2> DEFINE more == reader.shown \o page
             next == [reader EXCEPT !.after = @ + reader.limit, !.shown = @ \o page]
  <2>1. reader' = next
    BY DEF ReadRuns
  <2>2. next = [reader EXCEPT !.after = reader.after + reader.limit, !.shown = more]
    BY <1>1 DEF Reader
  <2> HIDE DEF page, more, next
  <2>3. reader'.at = reader.at
    BY <1>1, <2>1, <2>2 DEF Reader
  <2> QED
    BY <1>1, <2>3 DEF At
<1>3. /\ page \in Seq(RunIds) /\ Len(page) <= reader.limit
      /\ \A i \in DOMAIN newest :
           i > reader.after /\ Len(page) < reader.limit => newest[i] \in ToSet(page)
  BY <1>1, RunsPageIs
<1> HIDE DEF page
<1>4. Len(page) < reader.limit
  BY <1>1, <1>2, <1>3 DEF Reader
<1>5. Ahead(r)
  BY <1>1 DEF ListInv, KnownAhead
<1>6. r \in ToSet(reader.shown) \cup ToSet(page)
  BY <1>3, <1>4, <1>5 DEF Ahead
<1>7. reader.shown \in Seq(Nat \cup RunIds) /\ page \in Seq(Nat \cup RunIds)
  BY <1>1, <1>3 DEF Reader
<1>8. r \in ToSet(reader.shown \o page)
  BY <1>6, <1>7, BothParts
<1> QED
  BY <1>8 DEF page

(* A client that follows the cursor gets every message once and in order,  *)
(* and one that pages the attempts by offset misses none that was there    *)
(* when it began, while turns and attempts are added.                      *)
THEOREM WalksMissNothingHolds == ListSpec => WalksMissNothing
<1>1. IndInv /\ ListInv => [WalkIsWhole /\ RunsWalkMissesNone]_vars
  BY WalkEndsWhole, RunsWalkEndsWhole
<1> QED
  BY <1>1, ListInvariance, PTL DEF WalksMissNothing
=============================================================================
