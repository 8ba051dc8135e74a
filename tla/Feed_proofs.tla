----------------------------- MODULE Feed_proofs -----------------------------
(***************************************************************************)
(* The book on a terminal is one the market had, and a terminal that has   *)
(* been sent everything shows the registry's: for every capacity of the    *)
(* ring, the socket and the inbox, and any number of lags and lost         *)
(* connections.                                                            *)
(*                                                                         *)
(* The frames read and not yet applied, then those in flight, are one      *)
(* queue, Pipe, between the registry and the screen.  What the screen will *)
(* show once the queue is drained is the last book in it; the invariant    *)
(* says that this is the registry's, unless something is still to be sent  *)
(* or the connection is about to be given up.                              *)
(*                                                                         *)
(* The tape is complete: every fill of a connection is shown, or was       *)
(* withdrawn, or a full tape of later ones left it no room.  The second    *)
(* part follows the events, the story, through the same queue.             *)
(***************************************************************************)
EXTENDS Feed, Sums_proofs, FiniteSetTheorems, FunctionTheorems, SequenceTheorems

-----------------------------------------------------------------------------
(* What the variables hold. *)

Fill == [slot : Nat, change : Nat, n : Nat]

ChangeEvent ==
  [kind : {"Change"}, slot : Nat, book : Nat, trades : Seq(Fill), empty : BOOLEAN]
RetractedEvent == [kind : {"Retracted"}, slot : Nat, trades : Int]
OtherEvent == [kind : {"Other"}]
Event == ChangeEvent \cup RetractedEvent \cup OtherEvent

SnapshotFrame ==
  [kind : {"Snapshot"}, book : Nat, slot : Nat, finalized_through : Nat]
UpdateFrame ==
  [kind : {"Update"}, book : Nat, slot : Nat, trades : Seq(Fill), finalized_through : Nat]
RetractFrame == [kind : {"Retract"}, slot : Nat, trades : Int]
LaggedFrame == [kind : {"Lagged"}, missed : Nat]
Frames == SnapshotFrame \cup UpdateFrame \cup RetractFrame \cup LaggedFrame

ViewShape ==
  /\ DOMAIN view = DOMAIN NoView
  /\ view.tracked = TRUE
  /\ view.state \in Nat /\ view.slot \in Nat /\ view.finalized_through \in Nat

FeedShape ==
  /\ DOMAIN feed = DOMAIN NoFeed
  /\ feed.ready \in BOOLEAN
  /\ feed.finalized_through \in Nat

Shape ==
  /\ ViewShape
  /\ FeedShape
  /\ log \in Seq(Event)
  /\ unsent \in Seq(Event) /\ Len(unsent) <= 1
  /\ server \in [phase : {"closed", "subscribed", "streaming"}, next : Nat]
  /\ Subscribed => server.next \in 1 .. Len(log) + 1
  /\ wire \in Seq(Frames) /\ inbox \in Seq(Frames)
  /\ socket \in {"down", "up"} /\ (socket = "down" => server.phase = "closed")

-----------------------------------------------------------------------------
(* The invariant. *)

Pipe == inbox \o wire

(* A frame with a book and a watermark. *)
Carries(frame) == frame.kind \in {"Snapshot", "Update"}

(* An event with a book that differs from the one before it. *)
Tells(event) == event.kind = "Change" /\ ~ event.empty

(* Every book on its way was the market's. *)
Real ==
  /\ <<view.slot, view.state>> \in Books
  /\ <<feed.slot, feed.book>> \in Books
  /\ \A n \in DOMAIN Pipe : Carries(Pipe[n]) => <<Pipe[n].slot, Pipe[n].book>> \in Books

(* Watermarks leave the registry in order. *)
Rising ==
  /\ feed.finalized_through <= view.finalized_through
  /\ \A n \in DOMAIN Pipe :
       Carries(Pipe[n]) =>
         /\ feed.finalized_through <= Pipe[n].finalized_through
         /\ Pipe[n].finalized_through <= view.finalized_through
         /\ \A k \in DOMAIN Pipe :
              k > n /\ Carries(Pipe[k]) =>
                Pipe[n].finalized_through <= Pipe[k].finalized_through

QuietAfter(i) == \A j \in DOMAIN log : j > i => ~ Tells(log[j])
NoneUnsent == \A i \in DOMAIN unsent : ~ Tells(unsent[i])

(* The last book broadcast is the registry's, unless a later one is unsent. *)
LastBookSent ==
  /\ \A i \in DOMAIN unsent : Tells(unsent[i]) => unsent[i].book = view.state
  /\ \A i \in DOMAIN log :
       Tells(log[i]) /\ QuietAfter(i) /\ NoneUnsent => log[i].book = view.state

(* The socket is sound: no notice that it lost frames is in flight. *)
Sound ==
  /\ server.phase = "streaming"
  /\ \A n \in DOMAIN wire : wire[n].kind # "Lagged"

(* The last book in the queue is the registry's. *)
LastBookQueued ==
  /\ \A n \in DOMAIN Pipe :
       Carries(Pipe[n]) /\ (\A k \in DOMAIN Pipe : k > n => ~ Carries(Pipe[k])) =>
         Pipe[n].book = view.state
  /\ (\A n \in DOMAIN Pipe : ~ Carries(Pipe[n])) => feed.book = view.state

NothingPending == NoneUnsent /\ QuietAfter(server.next - 1)

Delivers == Sound /\ NothingPending => LastBookQueued

(* The screen is open, or a snapshot on its way will open it. *)
Opens ==
  Sound =>
    \/ feed.ready /\ \A n \in DOMAIN Pipe : Pipe[n].kind # "Lagged"
    \/ \E n \in DOMAIN Pipe :
         /\ Pipe[n].kind = "Snapshot"
         /\ \A k \in DOMAIN Pipe : k > n => Pipe[k].kind # "Lagged"

FeedInv == Shape /\ Real /\ Rising /\ LastBookSent /\ Delivers /\ Opens

-----------------------------------------------------------------------------
(* Sequences. *)

LEMMA Shifted ==
  ASSUME NEW S, NEW s \in Seq(S), s # <<>>
  PROVE  /\ Head(s) \in S /\ Head(s) = s[1] /\ 1 \in DOMAIN s
         /\ Tail(s) \in Seq(S)
         /\ Len(s) \in Nat \ {0}
         /\ DOMAIN Tail(s) = 1 .. Len(s) - 1
         /\ \A i \in 1 .. Len(s) - 1 : Tail(s)[i] = s[i + 1]
  OBVIOUS

LEMMA JoinedAppend ==
  ASSUME NEW S, NEW s \in Seq(S), NEW t \in Seq(S), NEW x \in S
  PROVE  s \o Append(t, x) = Append(s \o t, x)
  OBVIOUS

LEMMA JoinedShift ==
  ASSUME NEW S, NEW s \in Seq(S), NEW t \in Seq(S), t # <<>>
  PROVE  Append(s, Head(t)) \o Tail(t) = s \o t
  OBVIOUS

LEMMA JoinedTail ==
  ASSUME NEW S, NEW s \in Seq(S), NEW t \in Seq(S), s # <<>>
  PROVE  /\ Tail(s) \o t = Tail(s \o t)
         /\ Head(s \o t) = Head(s)
         /\ s \o t # <<>>
  OBVIOUS

-----------------------------------------------------------------------------
(* What the registry and the screen do to the fields that matter here. *)

ViewFields == {"tracked", "state", "slot", "tape", "trades_seen",
               "finalized_through", "trades_retracted"}
FeedFields == {"ready", "book", "slot", "finalized_through", "tape", "retracted", "missed"}

LEMMA FieldNames == DOMAIN NoView = ViewFields /\ DOMAIN NoFeed = FeedFields
  BY DEF NoView, NoFeed, ViewFields, FeedFields

LEMMA DerivedView ==
  ASSUME ViewShape, NEW state \in Nat, NEW slot \in Nat, NEW trades \in Seq(Fill)
  PROVE  LET v == ApplyDerived(view, state, slot, trades)
         IN  /\ DOMAIN v = DOMAIN NoView /\ v.tracked = TRUE
             /\ v.state = state /\ v.slot = slot
             /\ v.finalized_through = view.finalized_through
  BY FieldNames DEF ViewShape, ApplyDerived, SeedView, ViewFields

LEMMA FinalizedView ==
  ASSUME ViewShape, NEW slot \in Nat
  PROVE  LET v == FinalizeView(view, slot)
         IN  /\ DOMAIN v = DOMAIN NoView /\ v.tracked = TRUE
             /\ v.state = view.state /\ v.slot = view.slot
             /\ v.finalized_through \in Nat
             /\ view.finalized_through <= v.finalized_through
  BY FieldNames DEF ViewShape, FinalizeView, ViewFields

LEMMA RetractedView ==
  ASSUME ViewShape, NEW slot
  PROVE  LET v == RetractView(view, slot)
         IN  /\ DOMAIN v = DOMAIN NoView /\ v.tracked = TRUE
             /\ v.state = view.state /\ v.slot = view.slot
             /\ v.finalized_through = view.finalized_through
             /\ Len(view.tape) - Len(v.tape) \in Int
  BY FieldNames DEF ViewShape, RetractView, ViewFields

LEMMA FrameKinds ==
  ASSUME NEW m \in Frames
  PROVE  /\ m.kind \in {"Snapshot", "Update", "Retract", "Lagged"}
         /\ m.kind = "Snapshot" => m \in SnapshotFrame
         /\ m.kind = "Update" => m \in UpdateFrame
         /\ m.kind = "Retract" => m \in RetractFrame
         /\ m.kind = "Lagged" => m \in LaggedFrame
  BY DEF Frames, SnapshotFrame, UpdateFrame, RetractFrame, LaggedFrame

LEMMA EventKinds ==
  ASSUME NEW e \in Event
  PROVE  /\ e.kind \in {"Change", "Retracted", "Other"}
         /\ e.kind = "Change" => e \in ChangeEvent
         /\ e.kind = "Retracted" => e \in RetractedEvent
  BY DEF Event, ChangeEvent, RetractedEvent, OtherEvent

(* A frame with a book replaces the book and the watermark; no other       *)
(* frame touches them.                                                     *)
LEMMA AppliedFrame ==
  ASSUME FeedShape, NEW m \in Frames
  PROVE  LET f == Apply(feed, m)
         IN  /\ DOMAIN f = DOMAIN NoFeed
             /\ Carries(m) => /\ f.book = m.book /\ f.slot = m.slot
                              /\ f.finalized_through = m.finalized_through
             /\ ~ Carries(m) => /\ f.book = feed.book /\ f.slot = feed.slot
                                /\ f.finalized_through = feed.finalized_through
             /\ f.ready = CASE m.kind = "Snapshot" -> TRUE
                            [] m.kind = "Lagged"   -> FALSE
                            [] OTHER               -> feed.ready
<1>1. CASE m.kind = "Snapshot"
  BY <1>1, FieldNames DEF FeedShape, Apply, ApplySnapshot, Carries, FeedFields
<1>2. CASE m.kind = "Update"
  BY <1>2, FieldNames DEF FeedShape, Apply, ApplyUpdate, Carries, FeedFields
<1>3. CASE m.kind = "Retract"
  BY <1>3, FieldNames DEF FeedShape, Apply, ApplyRetract, Carries, FeedFields
<1>4. CASE m.kind = "Lagged"
  BY <1>4, FieldNames DEF FeedShape, Apply, ApplyLagged, Carries, FeedFields
<1> QED BY <1>1, <1>2, <1>3, <1>4, FrameKinds

LEMMA CountsAreNat ==
  ASSUME Shape
  PROVE  Changes \in Nat
<1> DEFINE events == log \o unsent
           these == {n \in DOMAIN events : events[n].kind = "Change"}
<1>1. DOMAIN events = 1 .. Len(events) /\ Len(events) \in Nat
  BY DEF Shape
<1>2. IsFiniteSet(these)
  <2>1. IsFiniteSet(1 .. Len(events))
    BY <1>1, FS_Interval
  <2>2. these \in SUBSET (1 .. Len(events))
    BY <1>1
  <2> HIDE DEF these
  <2> QED BY <2>1, <2>2, FS_Subset
<1> QED BY <1>2, FS_CardinalityType DEF Changes, Count

-----------------------------------------------------------------------------
(* Shape *)

LEMMA ShapeInit ==
  ASSUME Init
  PROVE  Shape
<1>1. ViewShape
  BY FieldNames DEF Init, ViewShape, SeedView, NewView, NoView, ViewFields
<1>2. FeedShape
  BY DEF Init, FeedShape, NoFeed
<1> QED BY <1>1, <1>2 DEF Init, Shape, NoServer, Subscribed

(* The fills of one derivation. *)
LEMMA DerivedTrades ==
  ASSUME Shape, NEW slot \in Nat, NEW count \in Nat
  PROVE  [n \in 1 .. count |-> [slot |-> slot, change |-> Changes + 1, n |-> n]] \in Seq(Fill)
<1> DEFINE trades == [n \in 1 .. count |-> [slot |-> slot, change |-> Changes + 1, n |-> n]]
<1>1. \A n \in 1 .. count : [slot |-> slot, change |-> Changes + 1, n |-> n] \in Fill
  BY CountsAreNat DEF Fill
<1>2. trades \in [1 .. count -> Fill]
  BY <1>1
<1> QED BY <1>2

(* A derivation has one event to send: its book and slot are the view's.   *)
LEMMA DeriveStep ==
  ASSUME Shape, Derive
  PROVE  /\ ViewShape'
         /\ view'.finalized_through = view.finalized_through
         /\ UNCHANGED <<log, dead, session>>
         /\ unsent = <<>>
         /\ \E event \in ChangeEvent :
              /\ unsent' = <<event>>
              /\ view'.slot = event.slot /\ view'.state = event.book
              /\ event.empty => event.book = view.state
<1>1. PICK slot \in view.slot .. MaxSlot, moves \in BOOLEAN, count \in TradeCounts :
        LET state  == IF moves THEN Changes + 1 ELSE view.state
            trades == [n \in 1 .. count |-> [slot |-> slot, change |-> Changes + 1, n |-> n]]
        IN  /\ unsent = <<>>
            /\ view' = ApplyDerived(view, state, slot, trades)
            /\ unsent' = <<[kind |-> "Change", slot |-> slot, book |-> state,
                            trades |-> trades, empty |-> ~ moves]>>
            /\ UNCHANGED <<log, dead, session>>
  BY Zenon DEF Derive
<1> DEFINE state == IF moves THEN Changes + 1 ELSE view.state
           trades == [n \in 1 .. count |-> [slot |-> slot, change |-> Changes + 1, n |-> n]]
           event == [kind |-> "Change", slot |-> slot, book |-> state,
                     trades |-> trades, empty |-> ~ moves]
<1>2. /\ view' = ApplyDerived(view, state, slot, trades) /\ unsent' = <<event>>
      /\ unsent = <<>> /\ UNCHANGED <<log, dead, session>>
  BY <1>1, Zenon
<1>3. slot \in Nat /\ state \in Nat /\ count \in Nat /\ ViewShape
  <2>1. Changes \in Nat
    BY CountsAreNat
  <2> QED BY <2>1, FeedAssumption DEF Shape, ViewShape
<1>4. trades \in Seq(Fill)
  BY <1>3, DerivedTrades, Zenon
<1>5. ~ moves => state = view.state
  OBVIOUS
<1> HIDE DEF trades, state
<1>6. /\ event \in ChangeEvent /\ event.slot = slot /\ event.book = state
      /\ event.empty => event.book = view.state
  BY <1>3, <1>4, <1>5 DEF ChangeEvent
<1> HIDE DEF event
<1>7. LET v == ApplyDerived(view, state, slot, trades)
      IN  /\ DOMAIN v = DOMAIN NoView /\ v.tracked = TRUE
          /\ v.state = state /\ v.slot = slot
          /\ v.finalized_through = view.finalized_through
  <2>1. ViewShape /\ state \in Nat /\ slot \in Nat
    BY <1>3
  <2> QED BY ONLY <2>1, <1>4, DerivedView, ZenonT(30)
<1>8. ViewShape'
  BY <1>2, <1>3, <1>7 DEF ViewShape
<1> QED BY <1>2, <1>6, <1>7, <1>8

LEMMA FinalizeStep ==
  ASSUME Shape, Finalize
  PROVE  /\ ViewShape'
         /\ view'.slot = view.slot /\ view'.state = view.state
         /\ view.finalized_through <= view'.finalized_through
         /\ UNCHANGED <<unsent, log, dead, session>>
<1>1. PICK slot \in 1 .. MaxSlot : view' = FinalizeView(view, slot)
  BY DEF Finalize
<1>2. ViewShape /\ slot \in Nat
  BY FeedAssumption DEF Shape
<1>3. /\ DOMAIN view' = DOMAIN NoView /\ view'.tracked = TRUE
      /\ view'.state = view.state /\ view'.slot = view.slot
      /\ view'.finalized_through \in Nat
      /\ view.finalized_through <= view'.finalized_through
  BY <1>1, <1>2, FinalizedView
<1> QED BY <1>2, <1>3 DEF ViewShape, Finalize

(* Abandoning a slot has at most a retraction to send. *)
LEMMA AbandonStep ==
  ASSUME Shape, Abandon
  PROVE  /\ ViewShape'
         /\ view'.slot = view.slot /\ view'.state = view.state
         /\ view'.finalized_through = view.finalized_through
         /\ UNCHANGED <<log, session>>
         /\ unsent = <<>>
         /\ unsent' = <<>> \/ \E event \in RetractedEvent : unsent' = <<event>>
<1>1. PICK slot \in 1 .. MaxSlot :
        LET after == RetractView(view, slot)
            removed == Len(view.tape) - Len(after.tape)
        IN  /\ view' = after
            /\ unsent = <<>>
            /\ unsent' = IF removed = 0 THEN <<>>
                         ELSE <<[kind |-> "Retracted", slot |-> slot, trades |-> removed]>>
            /\ UNCHANGED <<log, session>>
  BY Zenon DEF Abandon
<1> DEFINE removed == Len(view.tape) - Len(RetractView(view, slot).tape)
           event == [kind |-> "Retracted", slot |-> slot, trades |-> removed]
<1>2. ViewShape
  BY DEF Shape
<1>3. /\ DOMAIN view' = DOMAIN NoView /\ view'.tracked = TRUE
      /\ view'.state = view.state /\ view'.slot = view.slot
      /\ view'.finalized_through = view.finalized_through
      /\ removed \in Int
  BY <1>1, <1>2, RetractedView
<1>4. /\ unsent = <<>>
      /\ unsent' = <<>> \/ unsent' = <<event>>
      /\ UNCHANGED <<log, session>>
  BY <1>1
<1> HIDE DEF removed
<1>5. event \in RetractedEvent
  BY <1>3, FeedAssumption DEF RetractedEvent
<1> HIDE DEF event
<1>6. ViewShape'
  BY <1>2, <1>3 DEF ViewShape
<1> QED BY <1>3, <1>4, <1>5, <1>6

(* Ingest leaves the session alone. *)
LEMMA ShapeIngest ==
  ASSUME Shape, Ingest
  PROVE  Shape'
<1>1. CASE Derive
  <2>1. PICK event \in ChangeEvent : unsent' = <<event>>
    BY <1>1, DeriveStep
  <2>2. event \in Event
    BY DEF Event
  <2>3. unsent' \in Seq(Event) /\ Len(unsent') <= 1
    BY <2>1, <2>2
  <2>4. ViewShape' /\ UNCHANGED <<log, dead, session>>
    BY <1>1, DeriveStep
  <2> QED BY <2>3, <2>4 DEF Shape, FeedShape, Subscribed, session
<1>2. CASE Broadcast
  <2>1. unsent' \in Seq(Event) /\ Len(unsent') <= 1
    BY <1>2 DEF Broadcast, Shape
  <2>2. log' \in Seq(Event) /\ Len(log') = Len(log) + 1
    BY <1>2 DEF Broadcast, Shape
  <2> QED BY <1>2, <2>1, <2>2 DEF Broadcast, Shape, ViewShape, FeedShape, Subscribed, session
<1>3. CASE OtherMarket
  <2>1. [kind |-> "Other"] \in Event
    BY DEF Event, OtherEvent
  <2>2. log' \in Seq(Event) /\ Len(log') = Len(log) + 1
    BY <1>3, <2>1 DEF OtherMarket, Shape
  <2> QED BY <1>3, <2>2 DEF OtherMarket, Shape, ViewShape, FeedShape, Subscribed, session
<1>4. CASE Finalize
  <2>1. ViewShape' /\ UNCHANGED <<unsent, log, dead, session>>
    BY <1>4, FinalizeStep
  <2> QED BY <2>1 DEF Shape, FeedShape, Subscribed, session
<1>5. CASE Abandon
  <2>1. ViewShape' /\ UNCHANGED <<log, session>>
    BY <1>5, AbandonStep
  <2>2. unsent' \in Seq(Event) /\ Len(unsent') <= 1
    <3>1. CASE unsent' = <<>>
      BY <3>1
    <3>2. CASE \E event \in RetractedEvent : unsent' = <<event>>
      <4>1. PICK event \in Event : unsent' = <<event>>
        BY <3>2 DEF Event
      <4> QED BY <4>1
    <3> QED BY <1>5, <3>1, <3>2, AbandonStep
  <2> QED BY <2>1, <2>2 DEF Shape, FeedShape, Subscribed, session
<1> QED BY <1>1, <1>2, <1>3, <1>4, <1>5 DEF Ingest

(* The event's frame. *)
LEMMA EventFrame ==
  ASSUME Shape, NEW event \in Event, Shows(event)
  PROVE  /\ Frame(event) \in Frames
         /\ Frame(event).kind \in {"Update", "Retract"}
         /\ Carries(Frame(event)) <=> event.kind = "Change"
         /\ event.kind = "Change" =>
              /\ Frame(event).book = event.book /\ Frame(event).slot = event.slot
              /\ Frame(event).finalized_through = view.finalized_through
<1>1. CASE event.kind = "Change"
  <2>1. event \in ChangeEvent
    BY <1>1, EventKinds
  <2>2. Frame(event) = Update(event) /\ Update(event) \in UpdateFrame
    BY <1>1, <2>1 DEF Frame, Update, ChangeEvent, UpdateFrame, Shape, ViewShape
  <2> QED BY <1>1, <2>2 DEF Update, Frames, Carries
<1>2. CASE event.kind = "Retracted"
  <2>1. event \in RetractedEvent
    BY <1>2, EventKinds
  <2>2. Frame(event) = [kind |-> "Retract", slot |-> event.slot, trades |-> event.trades]
    BY <1>2 DEF Frame
  <2>3. Frame(event) \in RetractFrame
    BY <2>1, <2>2 DEF RetractedEvent, RetractFrame
  <2> QED BY <1>2, <2>2, <2>3 DEF Frames, Carries
<1> QED BY <1>1, <1>2 DEF Shows

(* What the socket's task does: one frame more, or a step past an event    *)
(* that has none.                                                          *)
LEMMA ForwardCases ==
  ASSUME Shape, Forward
  PROVE  /\ server.next \in DOMAIN log /\ log[server.next] \in Event
         /\ server' = [server EXCEPT !.next = server.next + 1]
         /\ server.phase = "streaming"
         /\ \/ Shows(log[server.next]) /\ wire' = Append(wire, Frame(log[server.next]))
            \/ ~ Shows(log[server.next]) /\ wire' = wire
         /\ UNCHANGED <<ingest, socket, inbox, feed, since, breaks>>
<1>1. /\ server.phase = "streaming" /\ server.next \in Oldest .. Len(log)
      /\ Sends(IF Shows(log[server.next]) THEN <<Frame(log[server.next])>> ELSE <<>>,
               server.next + 1)
  BY DEF Forward, Receives
<1>2. server.next \in 1 .. Len(log) /\ Len(log) \in Nat
  BY <1>1 DEF Shape, Subscribed
<1>3. server.next \in DOMAIN log /\ log[server.next] \in Event
  BY <1>2 DEF Shape
<1>4. CASE Shows(log[server.next])
  <2>1. wire' = wire \o <<Frame(log[server.next])>>
    BY <1>1, <1>4 DEF Sends
  <2>2. Frame(log[server.next]) \in Frames
    BY <1>3, <1>4, EventFrame
  <2>3. wire \o <<Frame(log[server.next])>> = Append(wire, Frame(log[server.next]))
    <3>1. wire \in Seq(Frames)
      BY ZenonT(30) DEF Shape
    <3> QED BY ONLY <2>2, <3>1
  <2> QED BY <1>1, <1>3, <1>4, <2>1, <2>3 DEF Sends
<1>5. CASE ~ Shows(log[server.next])
  <2>1. wire' = wire
    BY <1>1, <1>5 DEF Sends, Shape
  <2> QED BY <1>1, <1>3, <1>5, <2>1 DEF Sends
<1> QED BY <1>4, <1>5

LEMMA LagCases ==
  ASSUME Shape, Lag
  PROVE  /\ server.phase = "streaming"
         /\ Oldest \in 1 .. Len(log) + 1
         /\ server' = [server EXCEPT !.next = Oldest]
         /\ [kind |-> "Lagged", missed |-> Oldest - server.next] \in Frames
         /\ wire' = Append(wire, [kind |-> "Lagged", missed |-> Oldest - server.next])
         /\ UNCHANGED <<ingest, socket, inbox, feed, since, breaks>>
<1>1. /\ server.phase = "streaming" /\ server.next < Oldest
      /\ Sends(<<[kind |-> "Lagged", missed |-> Oldest - server.next]>>, Oldest)
  BY DEF Lag, Receives
<1>2. Oldest \in 1 .. Len(log) + 1
  BY FeedAssumption DEF Oldest, Shape
<1>3. Oldest - server.next \in Nat
  BY <1>1, <1>2 DEF Shape
<1> DEFINE frame == [kind |-> "Lagged", missed |-> Oldest - server.next]
<1>4. frame \in Frames
  BY <1>3 DEF Frames, LaggedFrame
<1>5. wire' = wire \o <<frame>>
  BY <1>1 DEF Sends
<1> HIDE DEF frame
<1>6. wire' = Append(wire, frame)
  BY <1>4, <1>5 DEF Shape
<1> QED BY <1>1, <1>2, <1>4, <1>6 DEF Sends, frame

LEMMA SnapshotIsFrame ==
  ASSUME Shape
  PROVE  Snapshot(view) \in SnapshotFrame /\ Snapshot(view) \in Frames
  BY DEF Snapshot, SnapshotFrame, Frames, Shape, ViewShape

LEMMA ShapeSession ==
  ASSUME Shape, Connect \/ SendSnapshot \/ Forward \/ Lag \/ ReadFrame \/ Break \/ Handle
  PROVE  Shape'
<1>1. CASE Connect
  BY <1>1 DEF Connect, Shape, ViewShape, FeedShape, Subscribed, ingest
<1>2. CASE SendSnapshot
  <2>1. wire' \in Seq(Frames)
    BY <1>2, SnapshotIsFrame DEF SendSnapshot, Shape
  <2> QED BY <1>2, <2>1 DEF SendSnapshot, Shape, ViewShape, FeedShape, Subscribed, ingest
<1>3. CASE Forward
  <2>1. /\ server.next \in DOMAIN log /\ log[server.next] \in Event
        /\ server' = [server EXCEPT !.next = server.next + 1]
        /\ server.phase = "streaming"
        /\ \/ Shows(log[server.next]) /\ wire' = Append(wire, Frame(log[server.next]))
           \/ ~ Shows(log[server.next]) /\ wire' = wire
        /\ UNCHANGED <<ingest, socket, inbox, feed, since, breaks>>
    BY <1>3, ForwardCases
  <2>2. Shows(log[server.next]) => Frame(log[server.next]) \in Frames
    BY <2>1, EventFrame
  <2>3. wire' \in Seq(Frames)
    <3>1. wire \in Seq(Frames)
      BY DEF Shape
    <3> QED BY <2>1, <2>2, <3>1
  <2>4. server' \in [phase : {"closed", "subscribed", "streaming"}, next : Nat]
    BY <2>1 DEF Shape
  <2>5. server'.phase = "streaming" /\ server'.next \in 1 .. Len(log) + 1
    BY <2>1 DEF Shape
  <2> QED BY <2>1, <2>3, <2>4, <2>5 DEF Shape, ViewShape, FeedShape, Subscribed, ingest
<1>4. CASE Lag
  <2> DEFINE frame == [kind |-> "Lagged", missed |-> Oldest - server.next]
  <2>1. /\ server.phase = "streaming" /\ Oldest \in 1 .. Len(log) + 1
        /\ server' = [server EXCEPT !.next = Oldest]
        /\ frame \in Frames /\ wire' = Append(wire, frame)
        /\ UNCHANGED <<ingest, socket, inbox, feed, since, breaks>>
    BY <1>4, LagCases
  <2> HIDE DEF frame
  <2>2. wire' \in Seq(Frames)
    BY <2>1 DEF Shape
  <2>3. server' \in [phase : {"closed", "subscribed", "streaming"}, next : Nat]
    <3>1. Oldest \in Nat
      BY <2>1
    <3> QED BY <2>1, <3>1 DEF Shape
  <2>4. server'.phase = "streaming" /\ server'.next \in 1 .. Len(log) + 1
    BY <2>1 DEF Shape
  <2> QED BY <2>1, <2>2, <2>3, <2>4 DEF Shape, ViewShape, FeedShape, Subscribed, ingest
<1>5. CASE ReadFrame
  <2>1. /\ wire # <<>>
        /\ inbox' = Append(inbox, Head(wire))
        /\ \/ Drop
           \/ wire' = Tail(wire) /\ UNCHANGED <<socket, server>>
        /\ UNCHANGED <<ingest, feed, since, breaks>>
    BY <1>5 DEF ReadFrame
  <2>2. Head(wire) \in Frames /\ Tail(wire) \in Seq(Frames)
    BY <2>1 DEF Shape
  <2>3. inbox' \in Seq(Frames)
    BY <2>1, <2>2 DEF Shape
  <2>4. CASE Drop
    BY <2>1, <2>3, <2>4 DEF Drop, NoServer, Shape, ViewShape, FeedShape, Subscribed, ingest
  <2>5. CASE wire' = Tail(wire) /\ UNCHANGED <<socket, server>>
    BY <2>1, <2>2, <2>3, <2>5 DEF Shape, ViewShape, FeedShape, Subscribed, ingest
  <2> QED BY <2>1, <2>4, <2>5
<1>6. CASE Break
  BY <1>6 DEF Break, Drop, NoServer, Shape, ViewShape, FeedShape, Subscribed, ingest
<1>7. CASE Handle
  <2>1. Head(inbox) \in Frames /\ Tail(inbox) \in Seq(Frames)
    BY <1>7 DEF Handle, Shape
  <2>2. FeedShape'
    <3>1. Apply(feed, Head(inbox)).finalized_through \in Nat
      BY <2>1, AppliedFrame, FrameKinds
         DEF Shape, FeedShape, Carries, SnapshotFrame, UpdateFrame
    <3>2. Apply(feed, Head(inbox)).ready \in BOOLEAN
      BY <2>1, AppliedFrame DEF Shape, FeedShape
    <3> QED BY <1>7, <2>1, <3>1, <3>2, AppliedFrame DEF Handle, Shape, FeedShape
  <2> QED BY <1>7, <2>1, <2>2 DEF Handle, Shape, ViewShape, Subscribed, ingest
<1> QED BY <1>1, <1>2, <1>3, <1>4, <1>5, <1>6, <1>7

LEMMA ShapeStep ==
  ASSUME Shape, [Next]_vars
  PROVE  Shape'
<1>1. CASE UNCHANGED vars
  BY <1>1 DEF vars, ingest, session, Shape, ViewShape, FeedShape, Subscribed
<1> QED BY <1>1, ShapeIngest, ShapeSession DEF Next

-----------------------------------------------------------------------------
(* What a step can do to the queue: nothing, send a frame, lose the frames *)
(* in flight, or show the first frame.                                     *)

Stays == Pipe' = Pipe /\ feed' = feed

Sent(m) ==
  /\ m \in Frames
  /\ Carries(m) => /\ m.finalized_through = view.finalized_through
                   /\ <<m.slot, m.book>> \in Books
  /\ Pipe' = Append(Pipe, m)
  /\ UNCHANGED <<feed, view, log, unsent>>

Cut ==
  /\ Len(Pipe') \in 0 .. Len(Pipe)
  /\ \A i \in 1 .. Len(Pipe') : Pipe'[i] = Pipe[i]
  /\ server'.phase # "streaming"
  /\ feed' = feed

Shown ==
  /\ Pipe # <<>>
  /\ Pipe' = Tail(Pipe)
  /\ feed' = Apply(feed, Head(Pipe))
  /\ UNCHANGED <<ingest, server, wire>>

LEMMA PipeType ==
  ASSUME Shape
  PROVE  /\ Pipe \in Seq(Frames) /\ Len(Pipe) \in Nat
         /\ DOMAIN Pipe = 1 .. Len(Pipe)
         /\ Len(Pipe) = Len(inbox) + Len(wire)
         /\ \A i \in 1 .. Len(inbox) : Pipe[i] = inbox[i]
<1>1. inbox \in Seq(Frames) /\ wire \in Seq(Frames)
  BY DEF Shape
<1> QED BY <1>1 DEF Pipe

(* The books of the events sent and still to be sent. *)
LEMMA BooksOf ==
  ASSUME Shape, NEW book
  PROVE  book \in Books <=>
           \/ book = <<0, 0>>
           \/ \E i \in DOMAIN log : log[i].kind = "Change" /\ book = <<log[i].slot, log[i].book>>
           \/ \E i \in DOMAIN unsent :
                unsent[i].kind = "Change" /\ book = <<unsent[i].slot, unsent[i].book>>
<1> DEFINE both == log \o unsent
<1>1. log \in Seq(Event) /\ unsent \in Seq(Event)
  BY DEF Shape
<1>2. /\ \A i \in DOMAIN log : i \in DOMAIN both /\ both[i] = log[i]
      /\ \A i \in DOMAIN unsent : Len(log) + i \in DOMAIN both /\ both[Len(log) + i] = unsent[i]
      /\ \A i \in DOMAIN both :
           i \in DOMAIN log \/ (i - Len(log) \in DOMAIN unsent /\ both[i] = unsent[i - Len(log)])
  BY <1>1
<1> HIDE DEF both
<1>3. book \in Books <=>
        \/ book = <<0, 0>>
        \/ \E i \in DOMAIN both : both[i].kind = "Change" /\ book = <<both[i].slot, both[i].book>>
  BY DEF Books, Range, both
<1> QED BY <1>2, <1>3

LEMMA BooksGrow ==
  ASSUME Shape, [Next]_vars
  PROVE  Books \subseteq Books'
<1>1. Shape'
  BY ShapeStep
<1>2. CASE UNCHANGED <<log, unsent>>
  BY <1>2 DEF Books
<1>3. CASE Broadcast
  <2>1. log' \o unsent' = log \o unsent
    BY <1>3 DEF Broadcast, Shape
  <2> QED BY <2>1 DEF Books
<1>4. CASE unsent = <<>> /\ \A i \in DOMAIN log : i \in DOMAIN log' /\ log'[i] = log[i]
  <2> SUFFICES ASSUME NEW book \in Books PROVE book \in Books'
    OBVIOUS
  <2>1. book = <<0, 0>>
        \/ \E i \in DOMAIN log : log[i].kind = "Change" /\ book = <<log[i].slot, log[i].book>>
    BY <1>4, BooksOf
  <2>2. book = <<0, 0>>
        \/ \E i \in DOMAIN log' : log'[i].kind = "Change" /\ book = <<log'[i].slot, log'[i].book>>
    BY <1>4, <2>1
  <2>3. CASE book = <<0, 0>>
    BY <2>3 DEF Books
  <2>4. CASE \E i \in DOMAIN log' :
               log'[i].kind = "Change" /\ book = <<log'[i].slot, log'[i].book>>
    <3>1. PICK i \in DOMAIN log' :
            log'[i].kind = "Change" /\ book = <<log'[i].slot, log'[i].book>>
      BY <2>4
    <3>2. i \in DOMAIN (log' \o unsent') /\ (log' \o unsent')[i] = log'[i]
      BY <1>1 DEF Shape
    <3>3. log'[i] \in Range(log' \o unsent')
      BY <3>2 DEF Range
    <3> QED BY <3>1, <3>3 DEF Books
  <2> QED BY <2>2, <2>3, <2>4
<1>5. CASE Derive
  BY <1>4, <1>5 DEF Derive
<1>6. CASE OtherMarket
  <2>1. \A i \in DOMAIN log : i \in DOMAIN log' /\ log'[i] = log[i]
    BY <1>6 DEF OtherMarket, Shape
  <2> QED BY <1>4, <1>6, <2>1 DEF OtherMarket
<1>7. CASE Abandon
  BY <1>4, <1>7 DEF Abandon
<1> QED
  BY <1>2, <1>3, <1>5, <1>6, <1>7, ForwardCases, LagCases
     DEF Next, Ingest, Finalize, Connect, SendSnapshot, ReadFrame, Break, Handle, ingest, vars

(* A snapshot is the registry's view as it is now. *)
LEMMA SnapshotStep ==
  ASSUME Shape, Real, SendSnapshot
  PROVE  Sent(Snapshot(view))
<1>1. wire' = Append(wire, Snapshot(view)) /\ UNCHANGED <<inbox, feed, view, log, unsent>>
  BY DEF SendSnapshot, ingest
<1>2. Snapshot(view) \in Frames
  BY SnapshotIsFrame
<1>3. Pipe' = Append(Pipe, Snapshot(view))
  BY <1>1, <1>2, JoinedAppend DEF Pipe, Shape
<1>4. /\ Snapshot(view).finalized_through = view.finalized_through
      /\ <<Snapshot(view).slot, Snapshot(view).book>> \in Books
  BY DEF Snapshot, Real
<1> QED BY <1>1, <1>2, <1>3, <1>4 DEF Sent

LEMMA ForwardStep ==
  ASSUME Shape, Forward
  PROVE  LET event == log[server.next]
         IN  \/ Shows(event) /\ Sent(Frame(event))
             \/ ~ Shows(event) /\ Stays
<1> DEFINE event == log[server.next]
<1>1. /\ server.next \in DOMAIN log /\ event \in Event
      /\ \/ Shows(event) /\ wire' = Append(wire, Frame(event))
         \/ ~ Shows(event) /\ wire' = wire
      /\ UNCHANGED <<inbox, feed, view, log, unsent>>
  BY ForwardCases DEF ingest
<1>2. CASE ~ Shows(event)
  BY <1>1, <1>2 DEF Stays, Pipe, Shows
<1>3. CASE Shows(event)
  <2>1. Frame(event) \in Frames
    BY <1>1, <1>3, EventFrame
  <2>2. Pipe' = Append(Pipe, Frame(event))
    <3>1. inbox \in Seq(Frames) /\ wire \in Seq(Frames)
      BY DEF Shape
    <3>2. wire' = Append(wire, Frame(event)) /\ inbox' = inbox
      BY <1>1, <1>3
    <3> QED BY <2>1, <3>1, <3>2, JoinedAppend DEF Pipe
  <2>3. event.kind = "Change" => <<event.slot, event.book>> \in Books
    BY <1>1, BooksOf
  <2>4. Sent(Frame(event))
    BY <1>1, <1>3, <2>1, <2>2, <2>3, EventFrame DEF Sent
  <2> QED BY <1>3, <2>4
<1> QED BY <1>2, <1>3

(* Reading a frame moves it along the queue; reading of a lag gives up     *)
(* the frames behind it.                                                   *)
LEMMA ReadStep ==
  ASSUME Shape, ReadFrame
  PROVE  \/ Cut
         \/ /\ Stays
            /\ wire # <<>> /\ wire' = Tail(wire) /\ ~ Ends(Head(wire))
            /\ UNCHANGED <<ingest, server>>
<1>1. /\ wire # <<>> /\ inbox' = Append(inbox, Head(wire)) /\ UNCHANGED <<ingest, feed>>
      /\ \/ Drop
         \/ ~ Ends(Head(wire)) /\ wire' = Tail(wire) /\ UNCHANGED server
  BY DEF ReadFrame
<1>2. CASE ~ Ends(Head(wire)) /\ wire' = Tail(wire) /\ UNCHANGED server
  BY <1>1, <1>2, JoinedShift DEF Stays, Pipe, Shape
<1>3. CASE Drop
  <2>1. Pipe' = inbox' \o <<>> /\ server'.phase = "closed"
    BY <1>3 DEF Drop, NoServer, Pipe
  <2>2. inbox \in Seq(Frames) /\ wire \in Seq(Frames)
    BY DEF Shape
  <2>3. inbox' \in Seq(Frames) /\ Tail(wire) \in Seq(Frames)
    BY <1>1, <2>2
  <2>4. Pipe' = inbox' /\ inbox' \o Tail(wire) = Pipe
    BY <1>1, <2>1, <2>2, <2>3, JoinedShift DEF Pipe
  <2>5. /\ Len(inbox') \in 0 .. Len(inbox' \o Tail(wire))
        /\ \A i \in 1 .. Len(inbox') : (inbox' \o Tail(wire))[i] = inbox'[i]
    BY <2>3
  <2> QED BY <1>1, <2>1, <2>4, <2>5 DEF Cut
<1> QED BY <1>1, <1>2, <1>3

LEMMA HandleStep ==
  ASSUME Shape, Handle
  PROVE  Shown
<1>1. /\ inbox # <<>> /\ inbox' = Tail(inbox) /\ wire' = wire
      /\ feed' = Apply(feed, Head(inbox)) /\ UNCHANGED <<ingest, server>>
  BY DEF Handle
<1>2. Pipe' = Tail(Pipe) /\ Head(Pipe) = Head(inbox) /\ Pipe # <<>>
  BY <1>1, JoinedTail DEF Pipe, Shape
<1> QED BY <1>1, <1>2 DEF Shown

LagNotice == [kind |-> "Lagged", missed |-> Oldest - server.next]

(* Every step is one of the four. *)
LEMMA QueueStep ==
  ASSUME Shape, Real, [Next]_vars
  PROVE  \/ Stays \/ Cut \/ Shown
         \/ Sent(Snapshot(view)) \/ Sent(LagNotice)
         \/ Forward /\ Shows(log[server.next]) /\ Sent(Frame(log[server.next]))
<1> USE DEF ingest, session
<1>1. CASE Ingest \/ UNCHANGED vars
  <2>1. UNCHANGED session
    BY <1>1 DEF Ingest, Derive, Broadcast, OtherMarket, Finalize, Abandon, vars
  <2> QED BY <2>1 DEF Stays, Pipe
<1>2. CASE Connect
  <2>1. Pipe' = inbox \o <<>> /\ feed' = feed /\ server'.phase = "subscribed"
    BY <1>2 DEF Connect, Pipe
  <2>2. Pipe' = inbox
    BY <2>1 DEF Shape
  <2>3. Len(inbox) \in 0 .. Len(Pipe)
    BY PipeType DEF Shape
  <2> QED BY <2>1, <2>2, <2>3, PipeType DEF Cut
<1>3. CASE Lag
  <2>1. /\ LagNotice \in Frames /\ wire' = Append(wire, LagNotice)
        /\ UNCHANGED <<inbox, feed, view, log, unsent>>
    BY <1>3, LagCases DEF LagNotice
  <2>2. ~ Carries(LagNotice)
    BY DEF Carries, LagNotice
  <2>3. Pipe' = Append(Pipe, LagNotice)
    BY <2>1, JoinedAppend DEF Pipe, Shape
  <2> QED BY <2>1, <2>2, <2>3 DEF Sent
<1>4. CASE Break
  <2>1. Pipe' = inbox \o <<>> /\ feed' = feed /\ server'.phase = "closed"
    BY <1>4 DEF Break, Drop, NoServer, Pipe
  <2>2. Pipe' = inbox
    BY <2>1 DEF Shape
  <2>3. Len(inbox) \in 0 .. Len(Pipe)
    BY PipeType DEF Shape
  <2> QED BY <2>1, <2>2, <2>3, PipeType DEF Cut
<1> QED
  BY <1>1, <1>2, <1>3, <1>4, SnapshotStep, ForwardStep, ReadStep, HandleStep, Zenon DEF Next

-----------------------------------------------------------------------------
(* Every book on its way was the market's. *)

LEMMA RealInit ==
  ASSUME Init
  PROVE  Real
<1>1. Pipe = <<>>
  BY DEF Init, Pipe
<1>2. view.slot = 0 /\ view.state = 0 /\ feed.slot = 0 /\ feed.book = 0
  BY FieldNames DEF Init, SeedView, NewView, NoView, NoFeed, ViewFields
<1>3. <<0, 0>> \in Books
  BY DEF Books
<1> QED BY <1>1, <1>2, <1>3 DEF Real

(* The registry's book is one it has sent or is about to send. *)
LEMMA ViewIsReal ==
  ASSUME Shape, Real, [Next]_vars
  PROVE  <<view'.slot, view'.state>> \in Books'
<1>1. Books \subseteq Books' /\ Shape' /\ ViewShape
  BY BooksGrow, ShapeStep DEF Shape
<1>2. CASE view'.slot = view.slot /\ view'.state = view.state
  BY <1>1, <1>2 DEF Real
<1>3. CASE Derive
  <2>1. PICK event \in ChangeEvent :
          unsent' = <<event>> /\ view'.slot = event.slot /\ view'.state = event.book
    BY <1>3, DeriveStep
  <2>2. log' \in Seq(Event) /\ event \in Event /\ event.kind = "Change"
    BY <1>1 DEF Shape, Event, ChangeEvent
  <2>3. Len(log') + 1 \in DOMAIN (log' \o <<event>>) /\ (log' \o <<event>>)[Len(log') + 1] = event
    BY <2>2
  <2>4. event \in Range(log' \o unsent')
    BY <2>1, <2>3 DEF Range
  <2> QED BY <2>1, <2>2, <2>4 DEF Books
<1>4. CASE Finalize
  BY <1>2, <1>4, FinalizeStep
<1>5. CASE Abandon
  BY <1>2, <1>5, AbandonStep
<1>6. CASE UNCHANGED view
  BY <1>2, <1>6
<1> QED
  BY <1>3, <1>4, <1>5, <1>6, ForwardCases, LagCases
     DEF Next, Ingest, Broadcast, OtherMarket, Connect, SendSnapshot, ReadFrame, Break, Handle,
         ingest, vars

(* The frames of a queue one step later are frames of the queue, or the    *)
(* one just sent.                                                          *)
LEMMA QueueTail ==
  ASSUME Shape, Shown
  PROVE  /\ Head(Pipe) \in Frames /\ Head(Pipe) = Pipe[1] /\ 1 \in DOMAIN Pipe
         /\ DOMAIN Pipe' = 1 .. Len(Pipe) - 1
         /\ \A n \in DOMAIN Pipe' : n + 1 \in DOMAIN Pipe /\ Pipe'[n] = Pipe[n + 1]
         /\ \A n \in DOMAIN Pipe : n # 1 => n - 1 \in DOMAIN Pipe' /\ Pipe'[n - 1] = Pipe[n]
<1>1. Pipe \in Seq(Frames) /\ Pipe # <<>> /\ Pipe' = Tail(Pipe)
  BY PipeType DEF Shown
<1> QED BY <1>1

(* What the terminal takes from the frame it shows. *)
LEMMA ShownFrame ==
  ASSUME Shape, Shown
  PROVE  /\ Carries(Pipe[1]) => /\ feed'.book = Pipe[1].book /\ feed'.slot = Pipe[1].slot
                                /\ feed'.finalized_through = Pipe[1].finalized_through
         /\ ~ Carries(Pipe[1]) => /\ feed'.book = feed.book /\ feed'.slot = feed.slot
                                  /\ feed'.finalized_through = feed.finalized_through
<1> DEFINE m == Head(Pipe)
<1>1. FeedShape /\ m \in Frames
  BY QueueTail DEF Shape
<1>2. LET f == Apply(feed, m)
      IN  /\ Carries(m) => /\ f.book = m.book /\ f.slot = m.slot
                           /\ f.finalized_through = m.finalized_through
          /\ ~ Carries(m) => /\ f.book = feed.book /\ f.slot = feed.slot
                             /\ f.finalized_through = feed.finalized_through
  <2> HIDE DEF m
  <2> QED BY ONLY <1>1, AppliedFrame, ZenonT(30)
<1>3. feed' = Apply(feed, m)
  BY DEF Shown
<1>4. m = Pipe[1]
  BY QueueTail
<1> HIDE DEF m
<1> QED BY ONLY <1>2, <1>3, <1>4, Zenon

LEMMA QueueGrows ==
  ASSUME Shape, NEW m, Sent(m)
  PROVE  /\ DOMAIN Pipe' = 1 .. Len(Pipe) + 1
         /\ DOMAIN Pipe = 1 .. Len(Pipe) /\ Len(Pipe) \in Nat
         /\ \A n \in DOMAIN Pipe : n \in DOMAIN Pipe' /\ Pipe'[n] = Pipe[n]
         /\ Pipe'[Len(Pipe) + 1] = m
<1>1. Pipe \in Seq(Frames) /\ m \in Frames /\ Pipe' = Append(Pipe, m)
  BY PipeType DEF Sent
<1> QED BY <1>1

LEMMA QueueCut ==
  ASSUME Shape, Shape', Cut
  PROVE  \A n \in DOMAIN Pipe' : n \in DOMAIN Pipe /\ Pipe'[n] = Pipe[n]
<1>1. DOMAIN Pipe = 1 .. Len(Pipe) /\ Len(Pipe) \in Nat
  BY PipeType
<1>2. inbox' \in Seq(Frames) /\ wire' \in Seq(Frames)
  BY DEF Shape
<1>3. DOMAIN Pipe' = 1 .. Len(Pipe')
  BY <1>2 DEF Pipe
<1> QED BY <1>1, <1>3 DEF Cut

LEMMA RealStep ==
  ASSUME Shape, Real, [Next]_vars
  PROVE  Real'
<1>1. Books \subseteq Books' /\ <<view'.slot, view'.state>> \in Books' /\ Shape'
  BY BooksGrow, ViewIsReal, ShapeStep
<1>2. CASE Stays
  BY <1>1, <1>2 DEF Stays, Real
<1>3. ASSUME NEW m, Sent(m) PROVE Real'
  BY <1>1, <1>3, QueueGrows DEF Sent, Real
<1>4. CASE Cut
  BY <1>1, <1>4, QueueCut DEF Cut, Real
<1>5. CASE Shown
  <2>1. <<feed'.slot, feed'.book>> \in Books
    BY <1>5, QueueTail, ShownFrame, ZenonT(30) DEF Real
  <2>2. \A n \in DOMAIN Pipe' : Carries(Pipe'[n]) => <<Pipe'[n].slot, Pipe'[n].book>> \in Books
    BY <1>5, QueueTail DEF Real
  <2> QED BY <1>1, <2>1, <2>2 DEF Real
<1> QED BY <1>2, <1>3, <1>4, <1>5, QueueStep

-----------------------------------------------------------------------------
(* Watermarks leave the registry, and reach the screen, in order. *)

LEMMA RisingInit ==
  ASSUME Init
  PROVE  Rising
<1>1. Pipe = <<>>
  BY DEF Init, Pipe
<1>2. view.finalized_through = 0 /\ feed.finalized_through = 0
  BY FieldNames DEF Init, SeedView, NewView, NoView, NoFeed, ViewFields
<1> QED BY <1>1, <1>2 DEF Rising

(* The registry's own never falls. *)
LEMMA RegistryRises ==
  ASSUME Shape, [Next]_vars
  PROVE  view.finalized_through <= view'.finalized_through
<1>1. view.finalized_through \in Nat
  BY DEF Shape, ViewShape
<1>2. CASE Derive
  BY <1>1, <1>2, DeriveStep
<1>3. CASE Finalize
  BY <1>3, FinalizeStep
<1>4. CASE Abandon
  BY <1>1, <1>4, AbandonStep
<1>5. CASE UNCHANGED view
  BY <1>1, <1>5
<1> QED
  BY <1>2, <1>3, <1>4, <1>5, ForwardCases, LagCases
     DEF Next, Ingest, Broadcast, OtherMarket, Connect, SendSnapshot, ReadFrame, Break, Handle,
         ingest, vars

(* The watermarks in the queue and on the screen are numbers. *)
LEMMA MarksAreNat ==
  ASSUME Shape
  PROVE  /\ view.finalized_through \in Nat /\ feed.finalized_through \in Nat
         /\ \A n \in DOMAIN Pipe : Carries(Pipe[n]) => Pipe[n].finalized_through \in Nat
<1>1. \A n \in DOMAIN Pipe : Pipe[n] \in Frames
  BY PipeType
<1>2. \A n \in DOMAIN Pipe : Carries(Pipe[n]) => Pipe[n] \in SnapshotFrame \cup UpdateFrame
  BY <1>1, FrameKinds DEF Carries
<1> QED BY <1>2 DEF Shape, ViewShape, FeedShape, SnapshotFrame, UpdateFrame

LEMMA RisingStep ==
  ASSUME Shape, Real, Rising, [Next]_vars
  PROVE  Rising' /\ feed.finalized_through <= feed'.finalized_through
<1>1. /\ Shape' /\ view.finalized_through <= view'.finalized_through
      /\ view'.finalized_through \in Nat /\ feed'.finalized_through \in Nat
  BY RegistryRises, ShapeStep DEF Shape, ViewShape, FeedShape
<1>2. CASE Stays
  BY <1>1, <1>2, MarksAreNat DEF Stays, Rising
<1>3. ASSUME NEW m, Sent(m) PROVE Rising' /\ feed.finalized_through <= feed'.finalized_through
  BY <1>1, <1>3, MarksAreNat, QueueGrows DEF Sent, Rising
<1>4. CASE Cut
  BY <1>1, <1>4, MarksAreNat, QueueCut DEF Cut, Rising
<1>5. CASE Shown
  <2>1. /\ Carries(Head(Pipe)) => feed'.finalized_through = Pipe[1].finalized_through
        /\ ~ Carries(Head(Pipe)) => feed'.finalized_through = feed.finalized_through
        /\ Head(Pipe) = Pipe[1] /\ 1 \in DOMAIN Pipe
    BY <1>5, QueueTail, ShownFrame, ZenonT(30)
  <2>2. /\ feed.finalized_through <= feed'.finalized_through
        /\ feed'.finalized_through <= view.finalized_through
    BY <2>1, MarksAreNat DEF Rising
  <2>3. \A n \in DOMAIN Pipe : n # 1 /\ Carries(Pipe[n]) =>
          feed'.finalized_through <= Pipe[n].finalized_through
    <3> SUFFICES ASSUME NEW n \in DOMAIN Pipe, n # 1, Carries(Pipe[n])
                 PROVE  feed'.finalized_through <= Pipe[n].finalized_through
      OBVIOUS
    <3>1. n > 1
      BY PipeType
    <3> QED BY <2>1, <3>1, MarksAreNat DEF Rising
  <2>4. ASSUME NEW n \in DOMAIN Pipe', Carries(Pipe'[n])
        PROVE  /\ feed'.finalized_through <= Pipe'[n].finalized_through
               /\ Pipe'[n].finalized_through <= view'.finalized_through
               /\ \A k \in DOMAIN Pipe' :
                    k > n /\ Carries(Pipe'[k]) =>
                      Pipe'[n].finalized_through <= Pipe'[k].finalized_through
    <3>1. n + 1 \in DOMAIN Pipe /\ Pipe'[n] = Pipe[n + 1] /\ n \in Nat /\ n + 1 # 1
      BY <1>5, QueueTail, PipeType
    <3>2. /\ feed'.finalized_through <= Pipe'[n].finalized_through
          /\ Pipe'[n].finalized_through <= view.finalized_through
      BY <2>3, <2>4, <3>1 DEF Rising
    <3>3. ASSUME NEW k \in DOMAIN Pipe', k > n, Carries(Pipe'[k])
          PROVE  Pipe'[n].finalized_through <= Pipe'[k].finalized_through
      <4>1. k + 1 \in DOMAIN Pipe /\ Pipe'[k] = Pipe[k + 1] /\ k + 1 > n + 1
        BY <1>5, <3>1, <3>3, QueueTail, PipeType
      <4> QED BY <2>4, <3>1, <3>3, <4>1 DEF Rising
    <3> QED BY <1>1, <2>4, <3>1, <3>2, <3>3, MarksAreNat
  <2>5. feed'.finalized_through <= view'.finalized_through
    BY <1>1, <2>2, MarksAreNat
  <2> QED BY <2>2, <2>4, <2>5 DEF Rising
<1> QED BY <1>2, <1>3, <1>4, <1>5, QueueStep

-----------------------------------------------------------------------------
(* The last book broadcast is the registry's, unless a later one is unsent. *)

LEMMA LastBookSentStep ==
  ASSUME Shape, LastBookSent, [Next]_vars
  PROVE  LastBookSent'
<1>1. log \in Seq(Event) /\ unsent \in Seq(Event) /\ Len(unsent) <= 1
  BY DEF Shape
<1>2. CASE Derive
  <2>1. PICK event \in ChangeEvent :
          /\ unsent' = <<event>> /\ view'.state = event.book
          /\ event.empty => event.book = view.state
    BY <1>2, DeriveStep
  <2>2. unsent = <<>> /\ log' = log
    BY <1>2, DeriveStep
  <2>3. DOMAIN unsent' = {1} /\ unsent'[1] = event /\ event.kind = "Change"
    BY <2>1 DEF ChangeEvent
  <2>4. CASE event.empty
    <3>1. NoneUnsent /\ view'.state = view.state
      BY <2>1, <2>2, <2>4 DEF NoneUnsent
    <3> QED BY <2>2, <2>3, <2>4, <3>1 DEF LastBookSent, Tells, QuietAfter
  <2>5. CASE ~ event.empty
    BY <2>1, <2>3, <2>5 DEF LastBookSent, Tells, NoneUnsent
  <2> QED BY <2>4, <2>5
<1>3. CASE Broadcast
  <2>1. /\ Len(unsent) = 1 /\ unsent' = <<>> /\ log' = Append(log, unsent[1])
        /\ view' = view /\ 1 \in DOMAIN unsent
    <3>1. unsent # <<>> /\ log' = Append(log, Head(unsent)) /\ unsent' = Tail(unsent)
      BY <1>3 DEF Broadcast
    <3>2. Head(unsent) = unsent[1] /\ 1 \in DOMAIN unsent /\ Len(unsent) = 1
      <4>1. /\ Head(unsent) = unsent[1] /\ 1 \in DOMAIN unsent
            /\ Len(unsent) \in Nat \ {0}
        BY <1>1, <3>1, Shifted, Zenon
      <4>2. \A n \in Nat \ {0} : n <= 1 => n = 1
        OBVIOUS
      <4>3. Len(unsent) = 1
        BY <1>1, <4>1, <4>2, Zenon
      <4> QED BY <4>1, <4>3, Zenon
    <3>3. unsent' = <<>>
      BY <1>1, <3>1, <3>2
    <3> QED BY <1>3, <3>1, <3>2, <3>3 DEF Broadcast
  <2>2. /\ DOMAIN log' = 1 .. Len(log) + 1 /\ log'[Len(log) + 1] = unsent[1]
        /\ DOMAIN log = 1 .. Len(log) /\ Len(log) \in Nat
        /\ \A i \in DOMAIN log : log'[i] = log[i]
    BY <1>1, <2>1
  <2>3. ASSUME NEW i \in DOMAIN log', Tells(log'[i]), QuietAfter(i)'
        PROVE  log'[i].book = view'.state
    <3>1. CASE i = Len(log) + 1
      BY <2>1, <2>2, <2>3, <3>1 DEF LastBookSent
    <3>2. CASE i # Len(log) + 1
      <4>1. i \in DOMAIN log /\ Len(log) + 1 > i /\ log'[i] = log[i]
        BY <2>2, <3>2
      <4>2. ~ Tells(unsent[1])
        BY <2>2, <2>3, <4>1 DEF QuietAfter
      <4>3. NoneUnsent
        BY <1>1, <2>1, <4>2 DEF NoneUnsent
      <4>4. QuietAfter(i)
        BY <2>2, <2>3 DEF QuietAfter
      <4> QED BY <2>1, <2>3, <4>1, <4>3, <4>4 DEF LastBookSent
    <3> QED BY <3>1, <3>2
  <2> QED BY <2>1, <2>3 DEF LastBookSent
<1>4. CASE OtherMarket
  <2> DEFINE other == [kind |-> "Other"]
  <2>1. unsent' = unsent /\ log' = Append(log, other) /\ view' = view
    BY <1>4 DEF OtherMarket
  <2>2. other \in Event /\ ~ Tells(other)
    BY DEF Event, OtherEvent, Tells
  <2> HIDE DEF other
  <2>3. /\ DOMAIN log' = 1 .. Len(log) + 1 /\ log'[Len(log) + 1] = other
        /\ DOMAIN log = 1 .. Len(log)
        /\ \A i \in DOMAIN log : i \in DOMAIN log' /\ log'[i] = log[i]
    BY <1>1, <2>1, <2>2
  <2>4. ASSUME NEW i \in DOMAIN log', Tells(log'[i]), QuietAfter(i)', NoneUnsent'
        PROVE  log'[i].book = view'.state
    <3>1. i \in DOMAIN log /\ QuietAfter(i) /\ NoneUnsent
      BY <2>1, <2>2, <2>3, <2>4 DEF QuietAfter, NoneUnsent
    <3> QED BY <2>1, <2>3, <2>4, <3>1 DEF LastBookSent
  <2> QED BY <2>1, <2>4 DEF LastBookSent
<1>5. CASE Finalize
  <2>1. UNCHANGED <<log, unsent>> /\ view'.state = view.state
    BY <1>5, FinalizeStep
  <2> QED BY <2>1 DEF LastBookSent, QuietAfter, NoneUnsent
<1>6. CASE Abandon
  <2>1. /\ log' = log /\ view'.state = view.state /\ unsent = <<>>
        /\ unsent' = <<>> \/ \E event \in RetractedEvent : unsent' = <<event>>
    BY <1>6, AbandonStep
  <2>2. NoneUnsent /\ NoneUnsent'
    BY <2>1 DEF NoneUnsent, Tells, RetractedEvent
  <2> QED BY <2>1, <2>2 DEF LastBookSent, QuietAfter, NoneUnsent
<1>7. CASE UNCHANGED <<view, log, unsent>>
  BY <1>7 DEF LastBookSent, QuietAfter, NoneUnsent
<1> QED
  BY <1>2, <1>3, <1>4, <1>5, <1>6, <1>7, ForwardCases, LagCases
     DEF Next, Ingest, Connect, SendSnapshot, ReadFrame, Break, Handle, ingest, vars

-----------------------------------------------------------------------------
(* The last book in the queue. *)

LEMMA QueuedBook ==
  ASSUME Shape, NEW m, Sent(m), Carries(m), m.book = view.state
  PROVE  LastBookQueued'
<1>1. \A n \in DOMAIN Pipe' : n = Len(Pipe) + 1 \/ n < Len(Pipe) + 1
  BY QueueGrows
<1>2. Len(Pipe) + 1 \in DOMAIN Pipe' /\ Pipe'[Len(Pipe) + 1] = m /\ view'.state = view.state
  BY QueueGrows DEF Sent
<1> QED BY <1>1, <1>2 DEF LastBookQueued

LEMMA QueuedNoBook ==
  ASSUME Shape, NEW m, Sent(m), ~ Carries(m), LastBookQueued
  PROVE  LastBookQueued'
<1>1. /\ DOMAIN Pipe' = 1 .. Len(Pipe) + 1 /\ DOMAIN Pipe = 1 .. Len(Pipe) /\ Len(Pipe) \in Nat
      /\ \A n \in DOMAIN Pipe : n \in DOMAIN Pipe' /\ Pipe'[n] = Pipe[n]
      /\ Pipe'[Len(Pipe) + 1] = m /\ view' = view /\ feed' = feed
  BY QueueGrows DEF Sent
<1>2. \A n \in DOMAIN Pipe' : Carries(Pipe'[n]) => n \in DOMAIN Pipe
  BY <1>1
<1> QED BY <1>1, <1>2 DEF LastBookQueued

LEMMA ShownBook ==
  ASSUME Shape, Shown, LastBookQueued
  PROVE  LastBookQueued'
<1>1. /\ Head(Pipe) = Pipe[1] /\ 1 \in DOMAIN Pipe /\ DOMAIN Pipe \subseteq Nat
      /\ \A n \in DOMAIN Pipe' : n \in Nat /\ n + 1 \in DOMAIN Pipe /\ Pipe'[n] = Pipe[n + 1]
      /\ \A n \in DOMAIN Pipe : n # 1 => n - 1 \in DOMAIN Pipe' /\ Pipe'[n - 1] = Pipe[n]
      /\ view' = view
  BY QueueTail, PipeType DEF Shown, ingest
<1>2. /\ Carries(Pipe[1]) => feed'.book = Pipe[1].book
      /\ ~ Carries(Pipe[1]) => feed'.book = feed.book
  BY QueueTail, ShownFrame, ZenonT(30)
<1>3. ASSUME NEW n \in DOMAIN Pipe', Carries(Pipe'[n]),
             \A k \in DOMAIN Pipe' : k > n => ~ Carries(Pipe'[k])
      PROVE  Pipe'[n].book = view'.state
  <2>1. ASSUME NEW k \in DOMAIN Pipe, k > n + 1 PROVE ~ Carries(Pipe[k])
    <3>1. k # 1 /\ k - 1 \in DOMAIN Pipe' /\ k - 1 > n /\ Pipe'[k - 1] = Pipe[k]
      BY <1>1, <2>1
    <3> QED BY <1>3, <3>1
  <2> QED BY <1>1, <1>3, <2>1 DEF LastBookQueued
<1>4. ASSUME \A n \in DOMAIN Pipe' : ~ Carries(Pipe'[n])
      PROVE  feed'.book = view'.state
  <2>1. \A k \in DOMAIN Pipe : k # 1 => ~ Carries(Pipe[k])
    BY <1>1, <1>4
  <2>2. CASE Carries(Pipe[1])
    BY <1>1, <1>2, <2>1, <2>2 DEF LastBookQueued
  <2>3. CASE ~ Carries(Pipe[1])
    BY <1>1, <1>2, <2>1, <2>3 DEF LastBookQueued
  <2> QED BY <2>2, <2>3
<1> QED BY <1>3, <1>4 DEF LastBookQueued

(* A socket that is sound after a step was sound before it, unless the     *)
(* step sent its snapshot.                                                 *)
LEMMA SoundStep ==
  ASSUME Shape, [Next]_vars, Sound'
  PROVE  \/ SendSnapshot
         \/ Sound /\ (Ingest \/ UNCHANGED vars) /\ UNCHANGED session
         \/ Sound /\ Forward
         \/ Sound /\ Handle
         \/ Sound /\ Stays /\ UNCHANGED <<ingest, server>>
<1>1. server'.phase = "streaming" /\ \A n \in DOMAIN wire' : wire'[n].kind # "Lagged"
  BY DEF Sound
<1>2. wire \in Seq(Frames)
  BY DEF Shape
<1>3. CASE Ingest \/ UNCHANGED vars
  <2>1. UNCHANGED session
    BY <1>3 DEF Ingest, Derive, Broadcast, OtherMarket, Finalize, Abandon, session, vars
  <2> QED BY <1>1, <1>3, <2>1 DEF session, Sound
<1>4. CASE Connect
  BY <1>1, <1>4 DEF Connect
<1>5. CASE Forward
  <2> DEFINE event == log[server.next]
  <2>1. /\ event \in Event /\ server.phase = "streaming"
        /\ \/ Shows(event) /\ wire' = Append(wire, Frame(event))
           \/ ~ Shows(event) /\ wire' = wire
    BY <1>5, ForwardCases
  <2>2. Shows(event) => Frame(event) \in Frames
    BY <2>1, EventFrame
  <2> HIDE DEF event
  <2>3. \A n \in DOMAIN wire : n \in DOMAIN wire' /\ wire'[n] = wire[n]
    BY <1>2, <2>1, <2>2
  <2> QED BY <1>1, <1>5, <2>1, <2>3 DEF Sound
<1>6. CASE Lag
  <2> DEFINE frame == [kind |-> "Lagged", missed |-> Oldest - server.next]
  <2>1. frame \in Frames /\ wire' = Append(wire, frame)
    BY <1>6, LagCases
  <2>2. frame.kind = "Lagged"
    OBVIOUS
  <2> HIDE DEF frame
  <2>3. Len(wire) + 1 \in DOMAIN wire' /\ wire'[Len(wire) + 1] = frame
    BY <1>2, <2>1
  <2> QED BY <1>1, <2>2, <2>3
<1>7. CASE ReadFrame
  <2>1. CASE Cut
    BY <1>1, <2>1 DEF Cut
  <2>2. CASE /\ Stays /\ wire # <<>> /\ wire' = Tail(wire) /\ ~ Ends(Head(wire))
             /\ UNCHANGED <<ingest, server>>
    <3>1. /\ Head(wire) = wire[1] /\ DOMAIN wire = 1 .. Len(wire) /\ Len(wire) \in Nat
          /\ \A i \in DOMAIN wire : i # 1 => i - 1 \in DOMAIN wire' /\ wire'[i - 1] = wire[i]
      BY <1>2, <2>2
    <3>2. wire[1].kind # "Lagged"
      BY <2>2, <3>1 DEF Ends
    <3>3. \A n \in DOMAIN wire : wire[n].kind # "Lagged"
      BY <1>1, <3>1, <3>2
    <3> QED BY <1>1, <2>2, <3>3 DEF Sound
  <2> QED BY <1>7, <2>1, <2>2, ReadStep
<1>8. CASE Break
  BY <1>1, <1>8 DEF Break, Drop, NoServer
<1>9. CASE Handle
  BY <1>1, <1>9 DEF Handle, Sound
<1> QED BY <1>3, <1>4, <1>5, <1>6, <1>7, <1>8, <1>9 DEF Next

(* What ingest adds while nothing is pending has no book, and the book it  *)
(* leaves is the one that was there.                                       *)
LEMMA PendingIngest ==
  ASSUME Shape, Sound, Ingest \/ UNCHANGED vars, UNCHANGED session, NothingPending'
  PROVE  NothingPending /\ view'.state = view.state
<1>1. /\ log \in Seq(Event) /\ unsent \in Seq(Event) /\ Len(unsent) <= 1
      /\ server' = server /\ server.next \in 1 .. Len(log) + 1 /\ Len(log) \in Nat
  BY DEF Shape, Sound, Subscribed, session
<1>2. CASE Derive
  <2>1. PICK event \in ChangeEvent :
          /\ unsent' = <<event>> /\ view'.state = event.book
          /\ event.empty => event.book = view.state
    BY <1>2, DeriveStep
  <2>2. unsent = <<>> /\ log' = log
    BY <1>2, DeriveStep
  <2>3. event.empty
    BY <2>1 DEF NothingPending, NoneUnsent, Tells, ChangeEvent
  <2> QED BY <1>1, <2>1, <2>2, <2>3 DEF NothingPending, NoneUnsent, QuietAfter
<1>3. CASE Broadcast
  <2>1. /\ unsent # <<>> /\ log' = Append(log, Head(unsent)) /\ view' = view
    BY <1>3 DEF Broadcast
  <2>2. /\ Head(unsent) = unsent[1] /\ unsent[1] \in Event
        /\ DOMAIN unsent = 1 .. Len(unsent) /\ Len(unsent) \in Nat
    BY <1>1, <2>1
  <2>3. /\ Len(log) + 1 \in DOMAIN log' /\ log'[Len(log) + 1] = unsent[1]
        /\ \A i \in DOMAIN log : i \in DOMAIN log' /\ log'[i] = log[i]
    BY <1>1, <2>1, <2>2
  <2>4. \A j \in DOMAIN log' : j > server.next - 1 => ~ Tells(log'[j])
    BY <1>1 DEF NothingPending, QuietAfter
  <2>5. ~ Tells(unsent[1])
    BY <1>1, <2>3, <2>4
  <2>6. NoneUnsent
    BY <1>1, <2>2, <2>5 DEF NoneUnsent
  <2> QED BY <2>1, <2>3, <2>4, <2>6 DEF NothingPending, QuietAfter
<1>4. CASE OtherMarket
  <2>1. unsent' = unsent /\ log' = Append(log, [kind |-> "Other"]) /\ view' = view
    BY <1>4 DEF OtherMarket
  <2>2. [kind |-> "Other"] \in Event
    BY DEF Event, OtherEvent
  <2>3. \A i \in DOMAIN log : i \in DOMAIN log' /\ log'[i] = log[i]
    BY <1>1, <2>1, <2>2
  <2> QED BY <1>1, <2>1, <2>3 DEF NothingPending, QuietAfter, NoneUnsent
<1>5. CASE Finalize
  <2>1. UNCHANGED <<log, unsent>> /\ view'.state = view.state
    BY <1>5, FinalizeStep
  <2> QED BY <1>1, <2>1 DEF NothingPending, QuietAfter, NoneUnsent
<1>6. CASE Abandon
  <2>1. log' = log /\ view'.state = view.state /\ unsent = <<>>
    BY <1>6, AbandonStep
  <2> QED BY <1>1, <2>1 DEF NothingPending, QuietAfter, NoneUnsent
<1>7. CASE UNCHANGED vars
  BY <1>1, <1>7 DEF NothingPending, QuietAfter, NoneUnsent, ingest, vars
<1> QED BY <1>2, <1>3, <1>4, <1>5, <1>6, <1>7 DEF Ingest

LEMMA DeliversStep ==
  ASSUME Shape, Real, LastBookSent, Delivers, [Next]_vars
  PROVE  Delivers'
<1> SUFFICES ASSUME Sound', NothingPending' PROVE LastBookQueued'
  BY DEF Delivers
<1>1. CASE SendSnapshot
  <2>1. Carries(Snapshot(view)) /\ Snapshot(view).book = view.state
    BY DEF Carries, Snapshot
  <2> QED BY <1>1, <2>1, SnapshotStep, QueuedBook
<1>2. CASE Sound /\ (Ingest \/ UNCHANGED vars) /\ UNCHANGED session
  <2>1. LastBookQueued /\ view'.state = view.state
    BY <1>2, PendingIngest DEF Delivers
  <2>2. Pipe' = Pipe /\ feed' = feed
    BY <1>2 DEF Pipe, session
  <2> QED BY <2>1, <2>2 DEF LastBookQueued
<1>3. CASE Sound /\ Forward
  <2> DEFINE event == log[server.next]
  <2>1. /\ server.next \in DOMAIN log /\ event \in Event
        /\ server' = [server EXCEPT !.next = server.next + 1]
        /\ UNCHANGED <<view, log, unsent, feed>>
    BY <1>3, ForwardCases DEF ingest
  <2>2. server'.next - 1 = server.next /\ server.next \in Nat
    BY <2>1 DEF Shape
  <2>3. NoneUnsent /\ QuietAfter(server.next)
    BY <2>1, <2>2 DEF NothingPending, NoneUnsent, QuietAfter
  <2>4. CASE Tells(event)
    <3>1. event.book = view.state
      BY <2>1, <2>3, <2>4 DEF LastBookSent
    <3>2. Shows(event) /\ event.kind = "Change"
      BY <2>4 DEF Shows, Tells
    <3>3. Carries(Frame(event)) /\ Frame(event).book = view.state
      BY <2>1, <3>1, <3>2, EventFrame
    <3>4. Sent(Frame(event))
      BY <1>3, <3>2, ForwardStep
    <3> QED BY <3>3, <3>4, QueuedBook
  <2>5. CASE ~ Tells(event)
    <3>1. QuietAfter(server.next - 1)
      <4>1. \A j \in DOMAIN log : j > server.next - 1 => j = server.next \/ j > server.next
        BY <2>2 DEF Shape
      <4> QED BY <2>3, <2>5, <4>1 DEF QuietAfter
    <3>2. LastBookQueued
      BY <1>3, <2>3, <3>1 DEF Delivers, NothingPending
    <3>3. CASE Shows(event)
      <4>1. event.kind # "Change"
        BY <2>5, <3>3 DEF Shows, Tells
      <4>2. ~ Carries(Frame(event)) /\ Sent(Frame(event))
        BY <1>3, <2>1, <3>3, <4>1, EventFrame, ForwardStep
      <4> QED BY <3>2, <4>2, QueuedNoBook
    <3>4. CASE ~ Shows(event)
      <4>1. Stays
        BY <1>3, <3>4, ForwardStep
      <4> QED BY <2>1, <3>2, <4>1 DEF Stays, LastBookQueued
    <3> QED BY <3>3, <3>4
  <2> QED BY <2>4, <2>5
<1>4. CASE Sound /\ Handle
  <2>1. Shown
    BY <1>4, HandleStep
  <2>2. NothingPending
    BY <2>1 DEF Shown, NothingPending, NoneUnsent, QuietAfter, ingest
  <2> QED BY <1>4, <2>1, <2>2, ShownBook DEF Delivers
<1>5. CASE Sound /\ Stays /\ UNCHANGED <<ingest, server>>
  <2>1. NothingPending
    BY <1>5 DEF NothingPending, NoneUnsent, QuietAfter, ingest
  <2> QED BY <1>5, <2>1 DEF Delivers, Stays, LastBookQueued, ingest
<1> QED BY <1>1, <1>2, <1>3, <1>4, <1>5, SoundStep

LEMMA OpensStep ==
  ASSUME Shape, Real, Opens, [Next]_vars
  PROVE  Opens'
<1> DEFINE Open    == feed.ready /\ \A n \in DOMAIN Pipe : Pipe[n].kind # "Lagged"
           Opening == \E n \in DOMAIN Pipe :
                        /\ Pipe[n].kind = "Snapshot"
                        /\ \A k \in DOMAIN Pipe : k > n => Pipe[k].kind # "Lagged"
<1> SUFFICES ASSUME Sound' PROVE Open' \/ Opening'
  BY DEF Opens
<1>1. CASE SendSnapshot
  <2>1. Sent(Snapshot(view)) /\ Snapshot(view).kind = "Snapshot"
    BY <1>1, SnapshotStep DEF Snapshot
  <2>2. \A n \in DOMAIN Pipe' : ~ (n > Len(Pipe) + 1)
    BY <2>1, QueueGrows
  <2>3. Len(Pipe) + 1 \in DOMAIN Pipe' /\ Pipe'[Len(Pipe) + 1] = Snapshot(view)
    BY <2>1, QueueGrows
  <2> QED BY <2>1, <2>2, <2>3
<1>2. ASSUME Sound, Pipe' = Pipe, feed' = feed PROVE Open' \/ Opening'
  BY <1>2 DEF Opens
<1>3. CASE Sound /\ Forward
  <2> DEFINE event == log[server.next]
  <2>1. event \in Event
    BY <1>3, ForwardCases
  <2>2. CASE ~ Shows(event)
    BY <1>2, <1>3, <2>2, ForwardStep DEF Stays
  <2>3. CASE Shows(event)
    <3>1. Sent(Frame(event)) /\ Frame(event).kind # "Lagged"
      BY <1>3, <2>1, <2>3, EventFrame, ForwardStep
    <3> HIDE DEF event
    <3>2. /\ DOMAIN Pipe' = 1 .. Len(Pipe) + 1 /\ DOMAIN Pipe = 1 .. Len(Pipe)
          /\ Len(Pipe) \in Nat
          /\ \A n \in DOMAIN Pipe : n \in DOMAIN Pipe' /\ Pipe'[n] = Pipe[n]
          /\ Pipe'[Len(Pipe) + 1] = Frame(event) /\ feed' = feed
      BY <3>1, QueueGrows DEF Sent
    <3>3. \A n \in DOMAIN Pipe' : n = Len(Pipe) + 1 \/ n \in DOMAIN Pipe
      BY <3>2
    <3>4. CASE Open
      BY <3>1, <3>2, <3>3, <3>4
    <3>5. CASE Opening
      BY <3>1, <3>2, <3>3, <3>5
    <3> QED BY <1>3, <3>4, <3>5 DEF Opens
  <2> QED BY <2>2, <2>3
<1>4. CASE Sound /\ Handle
  <2>1. Shown
    BY <1>4, HandleStep
  <2>2. /\ Head(Pipe) = Pipe[1] /\ 1 \in DOMAIN Pipe /\ Pipe[1] \in Frames
        /\ \A n \in DOMAIN Pipe : n \in Nat
        /\ \A n \in DOMAIN Pipe' : n + 1 \in DOMAIN Pipe /\ Pipe'[n] = Pipe[n + 1] /\ n \in Nat
        /\ \A n \in DOMAIN Pipe : n # 1 => n - 1 \in DOMAIN Pipe' /\ Pipe'[n - 1] = Pipe[n]
    BY <2>1, QueueTail, PipeType
  <2>3. feed'.ready = CASE Pipe[1].kind = "Snapshot" -> TRUE
                        [] Pipe[1].kind = "Lagged"   -> FALSE
                        [] OTHER                     -> feed.ready
    BY <2>1, <2>2, AppliedFrame DEF Shown, Shape
  <2>4. CASE Open
    BY <2>2, <2>3, <2>4
  <2>5. CASE Opening
    <3>1. PICK n \in DOMAIN Pipe : /\ Pipe[n].kind = "Snapshot"
                                   /\ \A k \in DOMAIN Pipe : k > n => Pipe[k].kind # "Lagged"
      BY <2>5
    <3>2. CASE n = 1
      <4>1. feed'.ready
        BY <2>3, <3>1, <3>2
      <4>2. \A k \in DOMAIN Pipe' : Pipe'[k].kind # "Lagged"
        <5> SUFFICES ASSUME NEW k \in DOMAIN Pipe' PROVE Pipe'[k].kind # "Lagged"
          OBVIOUS
        <5>1. k + 1 \in DOMAIN Pipe /\ Pipe'[k] = Pipe[k + 1] /\ k \in Nat /\ k + 1 \in Nat
          BY <2>2
        <5>2. k + 1 > n
          BY <2>1, <3>2, <5>1, QueueTail
        <5> QED BY <3>1, <5>1, <5>2
      <4> QED BY <4>1, <4>2
    <3>3. CASE n # 1
      <4>1. n - 1 \in DOMAIN Pipe' /\ Pipe'[n - 1] = Pipe[n] /\ n \in Nat
        BY <2>2, <3>3
      <4>2. \A k \in DOMAIN Pipe' : k > n - 1 => Pipe'[k].kind # "Lagged"
        <5> SUFFICES ASSUME NEW k \in DOMAIN Pipe', k > n - 1 PROVE Pipe'[k].kind # "Lagged"
          OBVIOUS
        <5>1. k + 1 \in DOMAIN Pipe /\ Pipe'[k] = Pipe[k + 1] /\ k + 1 > n
          BY <2>2, <4>1
        <5> QED BY <3>1, <5>1
      <4> QED BY <3>1, <4>1, <4>2
    <3> QED BY <3>2, <3>3
  <2> QED BY <1>4, <2>4, <2>5 DEF Opens
<1> QED
  <2>1. CASE Sound /\ UNCHANGED session
    BY <1>2, <2>1 DEF Pipe, session
  <2>2. CASE Sound /\ Stays
    BY <1>2, <2>2 DEF Stays
  <2> QED BY <1>1, <1>3, <1>4, <2>1, <2>2, SoundStep

-----------------------------------------------------------------------------
(* The theorems. *)

LEMMA FeedInvInit ==
  ASSUME Init
  PROVE  FeedInv
<1>1. log = <<>> /\ unsent = <<>> /\ ~ Sound
  BY DEF Init, Sound, NoServer
<1>2. LastBookSent /\ Delivers /\ Opens
  BY <1>1 DEF LastBookSent, Delivers, Opens
<1> QED BY <1>2, ShapeInit, RealInit, RisingInit DEF FeedInv

LEMMA FeedInvStep ==
  ASSUME FeedInv, [Next]_vars
  PROVE  FeedInv'
  BY ShapeStep, RealStep, RisingStep, LastBookSentStep, DeliversStep, OpensStep DEF FeedInv

(* The inductive invariant. *)
THEOREM FeedInvariant == Spec => []FeedInv
  BY FeedInvInit, FeedInvStep, PTL DEF Spec

(* The screen never shows a book the market did not have, and a screen     *)
(* that has been sent everything shows the registry's, however often the   *)
(* ring overran it or the connection was lost on the way.                  *)
THEOREM BookAlwaysTrue == Spec => []BookIsTrue
<1>1. FeedInv => BookWasReal
  BY DEF FeedInv, Real, BookWasReal
<1>2. ASSUME FeedInv, CaughtUp PROVE feed.ready /\ feed.book = view.state
  <2>1. /\ server.phase = "streaming" /\ server.next = Len(log) + 1
        /\ unsent = <<>> /\ wire = <<>> /\ inbox = <<>>
    BY <1>2 DEF CaughtUp
  <2>2. Pipe = <<>> /\ DOMAIN Pipe = {}
    BY <2>1 DEF Pipe
  <2>3. Sound
    BY <2>1 DEF Sound
  <2>4. NothingPending
    BY <1>2, <2>1 DEF NothingPending, NoneUnsent, QuietAfter, FeedInv, Shape
  <2>5. LastBookQueued
    BY <1>2, <2>3, <2>4 DEF FeedInv, Delivers
  <2> QED BY <1>2, <2>2, <2>3, <2>5 DEF FeedInv, Opens, LastBookQueued
<1>3. FeedInv => BookIsTrue
  BY <1>1, <1>2 DEF BookIsTrue, BookCatchesUp
<1> QED BY <1>3, FeedInvariant, PTL

(* What a terminal has been told is rooted stays rooted: an update older   *)
(* than the snapshot it follows still carries a later watermark.           *)
THEOREM WatermarkHolds == Spec => WatermarkNeverFalls
<1>1. ASSUME FeedInv, [Next]_vars
      PROVE  [feed'.finalized_through >= feed.finalized_through]_vars
  <2>1. feed.finalized_through <= feed'.finalized_through
    BY <1>1, RisingStep DEF FeedInv
  <2> QED BY <2>1
<1> QED BY <1>1, FeedInvariant, PTL DEF Spec, WatermarkNeverFalls

-----------------------------------------------------------------------------
(* The tape.  Story is every event there has been, the unsent one last; an *)
(* event has an effect on tapes if it has fills or withdraws some.         *)

Story == log \o unsent

Prints(i) == Story[i].kind = "Change" /\ Story[i].trades # <<>>
Withdraws(i) == Story[i].kind = "Retracted"
Effect(i) == Prints(i) \/ Withdraws(i)

Fills(i) == IF Prints(i) THEN Range(Story[i].trades) ELSE {}
AllFills == UNION {Fills(i) : i \in DOMAIN Story}

(* Changes are numbered, and the fills of one listed in order. *)
Numbered ==
  \A i \in DOMAIN Story : Story[i].kind = "Change" =>
    /\ Story[i].slot <= view.slot
    /\ Story[i].trades # <<>> => ~ Story[i].empty
    /\ \A a \in DOMAIN Story[i].trades :
         LET t == Story[i].trades[a]
         IN  /\ t.slot = Story[i].slot /\ t.n = a
             /\ t.change = Story[i].trades[1].change /\ t.change <= Changes

(* Slots are in order, and a slot trades no more once it is withdrawn. *)
InTurn ==
  \A i, j \in DOMAIN Story : i < j /\ Story[j].kind = "Change" =>
    /\ Story[i].kind = "Change" => Story[i].slot <= Story[j].slot
    /\ \A t \in Fills(i), u \in Fills(j) : t.change < u.change
    /\ Withdraws(i) => Story[i].slot # Story[j].slot

WithdrawnOnce ==
  \A i \in DOMAIN Story : Withdraws(i) =>
    /\ Story[i].slot \in dead
    /\ \A j \in DOMAIN Story : Withdraws(j) /\ Story[i].slot = Story[j].slot => i = j

(* The registry's tape: fills in order, of no abandoned slot. *)
Earlier(t, u) == t.change < u.change \/ (t.change = u.change /\ t.n < u.n)

RegistryTape ==
  /\ view.tape \in Seq(Fill) /\ Len(view.tape) <= TapeCapacity
  /\ \A a \in DOMAIN view.tape : view.tape[a].slot \notin dead /\ view.tape[a] \in AllFills
  /\ \A a, b \in DOMAIN view.tape : a < b =>
       Earlier(view.tape[a], view.tape[b]) /\ view.tape[a].slot <= view.tape[b].slot

(* By event p a full tape of fills later than those of event i had been    *)
(* sent, and none of them withdrawn.                                       *)
Overtakes(G, p, i) ==
  /\ Prints(p) /\ IsFiniteSet(G) /\ Cardinality(G) >= ViewerTape
  /\ \A g \in G :
       /\ \E k \in i + 1 .. p : g \in Fills(k)
       /\ \A j \in 1 .. p : Withdraws(j) => Story[j].slot # g.slot

Overtaken(p, i) == \E G \in SUBSET AllFills : Overtakes(G, p, i)

(* The slot of a fill is one the registry can still withdraw, or it has    *)
(* been withdrawn, or the fill has been overtaken.                         *)
Accounted ==
  \A i \in DOMAIN Story : Prints(i) =>
    \/ \E a \in DOMAIN view.tape : view.tape[a].slot = Story[i].slot
    \/ \E j \in DOMAIN Story : Withdraws(j) /\ Story[j].slot = Story[i].slot
    \/ \E p \in DOMAIN Story : Overtaken(p, i)

History == Numbered /\ InTurn /\ WithdrawnOnce /\ RegistryTape /\ Accounted

-----------------------------------------------------------------------------
(* Steps of the story. *)

LEMMA StoryType ==
  ASSUME Shape
  PROVE  /\ Story \in Seq(Event) /\ Len(Story) \in Nat /\ DOMAIN Story = 1 .. Len(Story)
         /\ \A i \in DOMAIN Story : i \in Nat /\ Story[i] \in Event
         /\ Len(Story) = Len(log) + Len(unsent) /\ Len(log) \in Nat
         /\ \A i \in DOMAIN log : i \in DOMAIN Story /\ Story[i] = log[i]
<1>1. log \in Seq(Event) /\ unsent \in Seq(Event)
  BY DEF Shape
<1> QED BY <1>1 DEF Story

LEMMA StoryTypeNext ==
  ASSUME Shape, [Next]_vars
  PROVE  /\ Story' \in Seq(Event) /\ Len(Story') \in Nat /\ DOMAIN Story' = 1 .. Len(Story')
         /\ \A i \in DOMAIN Story' : i \in Nat /\ Story'[i] \in Event
<1>1. log' \in Seq(Event) /\ unsent' \in Seq(Event)
  BY ShapeStep DEF Shape
<1>2. Story' \in Seq(Event)
  BY <1>1 DEF Story
<1> QED BY <1>2

(* A new event goes last. *)
LEMMA StoryAppends ==
  ASSUME Shape, NEW e \in Event, Story' = Append(Story, e)
  PROVE  /\ Len(Story') = Len(Story) + 1 /\ DOMAIN Story' = 1 .. Len(Story) + 1
         /\ Story'[Len(Story) + 1] = e
         /\ \A i \in DOMAIN Story : i \in DOMAIN Story' /\ Story'[i] = Story[i] /\ i < Len(Story) + 1
         /\ \A i \in DOMAIN Story' : i \in DOMAIN Story \/ i = Len(Story) + 1
<1>1. Story \in Seq(Event) /\ Len(Story) \in Nat /\ DOMAIN Story = 1 .. Len(Story)
  BY StoryType
<1> HIDE DEF Story
<1> QED BY <1>1

(* The event of a derivation. *)
LEMMA DerivedEvent ==
  ASSUME Shape, Derive
  PROVE  \E e \in ChangeEvent :
           /\ Story' = Append(Story, e) /\ e \in Event
           /\ e.slot \in 1 .. MaxSlot /\ e.slot \notin dead /\ e.slot >= view.slot
           /\ e.trades # <<>> => ~ e.empty
           /\ \A a \in DOMAIN e.trades :
                /\ e.trades[a].slot = e.slot /\ e.trades[a].n = a
                /\ e.trades[a].change = Changes + 1
           /\ e.book \in {view.state, Changes + 1}
           /\ Changes < MaxChanges
           /\ view'.slot = e.slot /\ view'.state = e.book
           /\ view'.finalized_through = view.finalized_through
           /\ view'.tape = Newest(view.tape \o e.trades)
           /\ log' = log /\ unsent = <<>> /\ UNCHANGED <<dead, session>>
<1>1. PICK slot \in view.slot .. MaxSlot, moves \in BOOLEAN, count \in TradeCounts :
        LET state  == IF moves THEN Changes + 1 ELSE view.state
            trades == [n \in 1 .. count |-> [slot |-> slot, change |-> Changes + 1, n |-> n]]
        IN  /\ unsent = <<>> /\ Changes < MaxChanges
            /\ slot > 0 /\ slot \notin dead /\ (count > 0 => moves)
            /\ view' = ApplyDerived(view, state, slot, trades)
            /\ unsent' = <<[kind |-> "Change", slot |-> slot, book |-> state,
                            trades |-> trades, empty |-> ~ moves]>>
            /\ UNCHANGED <<log, dead, session>>
  BY Zenon DEF Derive
<1> DEFINE state == IF moves THEN Changes + 1 ELSE view.state
           trades == [n \in 1 .. count |-> [slot |-> slot, change |-> Changes + 1, n |-> n]]
           event == [kind |-> "Change", slot |-> slot, book |-> state,
                     trades |-> trades, empty |-> ~ moves]
<1>2. /\ view' = ApplyDerived(view, state, slot, trades) /\ unsent' = <<event>>
      /\ unsent = <<>> /\ UNCHANGED <<log, dead, session>> /\ Changes < MaxChanges
      /\ slot > 0 /\ slot \notin dead /\ (count > 0 => moves)
  BY <1>1, Zenon
<1>3. slot \in Nat /\ state \in Nat /\ count \in Nat /\ slot >= view.slot /\ slot <= MaxSlot
  <2>1. Changes \in Nat
    BY CountsAreNat
  <2>2. view.state \in Nat /\ view.slot \in Nat
    BY DEF Shape, ViewShape
  <2>3. state \in Nat
    BY ONLY <2>1, <2>2
  <2>4. count \in Nat /\ MaxSlot \in Nat
    BY FeedAssumption
  <2> QED BY ONLY <2>2, <2>3, <2>4, slot \in view.slot .. MaxSlot
<1>4. trades \in Seq(Fill)
  BY <1>3, DerivedTrades, Zenon
<1>5. trades # <<>> => moves
  BY <1>2, <1>3
<1>6. state \in {view.state, Changes + 1}
  OBVIOUS
<1>7. \A a \in DOMAIN trades :
        trades[a].slot = slot /\ trades[a].n = a /\ trades[a].change = Changes + 1
  OBVIOUS
<1>8. /\ view'.slot = slot /\ view'.state = state
      /\ view'.tape = Newest(view.tape \o trades)
      /\ view'.finalized_through = view.finalized_through
  <2> HIDE DEF trades, state
  <2> QED BY <1>2, FieldNames DEF Shape, ViewShape, ApplyDerived, SeedView, ViewFields
<1> HIDE DEF trades, state
<1>9. event \in ChangeEvent
  BY <1>3, <1>4 DEF ChangeEvent
<1>10. Story' = Append(Story, event)
  <2>1. event \in Event /\ log \in Seq(Event)
    BY <1>9 DEF Event, Shape
  <2> HIDE DEF event
  <2> QED BY <1>2, <2>1 DEF Story
<1>11. slot \in 1 .. MaxSlot
  BY <1>2, <1>3, FeedAssumption
<1>12. /\ event.slot = slot /\ event.trades = trades /\ event.book = state
       /\ event.empty = ~ moves
  OBVIOUS
<1> HIDE DEF event
<1>13. event \in Event
  BY <1>9 DEF Event
<1> WITNESS event \in ChangeEvent
<1> QED BY <1>2, <1>3, <1>5, <1>6, <1>7, <1>8, <1>10, <1>11, <1>12, <1>13

(* A tape without the fills of a slot. *)
IsWithout(kept, tape, slot) ==
  /\ kept \in Seq(Fill) /\ Len(kept) \in Nat /\ Len(kept) <= Len(tape)
  /\ \E m \in [DOMAIN kept -> DOMAIN tape] :
       /\ \A a \in DOMAIN kept : kept[a] = tape[m[a]] /\ kept[a].slot # slot
       /\ \A a, b \in DOMAIN kept : a < b => m[a] < m[b]
  /\ \A j \in DOMAIN tape : tape[j].slot # slot => \E a \in DOMAIN kept : kept[a] = tape[j]
  /\ (\E j \in DOMAIN tape : tape[j].slot = slot) => Len(kept) < Len(tape)

LEMMA WithoutSlot ==
  ASSUME NEW tape \in Seq(Fill), NEW slot
  PROVE  IsWithout(Sublist(tape, {i \in DOMAIN tape : tape[i].slot # slot}), tape, slot)
<1> PICK kept : kept = Sublist(tape, {i \in DOMAIN tape : tape[i].slot # slot})
  OBVIOUS
<1> DEFINE keep == {i \in DOMAIN tape : tape[i].slot # slot}
<1>1. kept \in Seq(Fill) /\ Len(kept) <= Len(tape)
  BY SublistIs
<1>2. /\ \E m : Picks(m, kept, tape, keep, Len(tape))
      /\ (\E j \in 1 .. Len(tape) : j \notin keep) => Len(kept) < Len(tape)
  BY SublistPicks
<1>3. DOMAIN kept = 1 .. Len(kept) /\ DOMAIN tape = 1 .. Len(tape) /\ Len(kept) \in Nat
  BY <1>1
<1>4. PICK m : Picks(m, kept, tape, keep, Len(tape))
  BY <1>2
<1>5. /\ m \in [DOMAIN kept -> DOMAIN tape]
      /\ \A a \in DOMAIN kept : kept[a] = tape[m[a]] /\ kept[a].slot # slot
      /\ \A a, b \in DOMAIN kept : a < b => m[a] < m[b]
  BY <1>3, <1>4 DEF Picks
<1>6. ASSUME NEW j \in DOMAIN tape, tape[j].slot # slot
      PROVE  \E a \in DOMAIN kept : kept[a] = tape[j]
  <2>1. PICK a \in 1 .. Len(kept) : m[a] = j
    BY <1>3, <1>4, <1>6 DEF Picks
  <2> QED BY <1>3, <1>5, <2>1
<1>7. (\E j \in DOMAIN tape : tape[j].slot = slot) => Len(kept) < Len(tape)
  BY <1>2, <1>3
<1>8. IsWithout(kept, tape, slot)
  BY <1>1, <1>3, <1>5, <1>6, <1>7 DEF IsWithout
<1> QED BY <1>8, Zenon

(* Abandoning a slot says so if it withdraws a fill. *)
LEMMA AbandonedEvent ==
  ASSUME Shape, view.tape \in Seq(Fill), Abandon
  PROVE  \E slot \in 1 .. MaxSlot :
           /\ unsent = <<>> /\ slot \notin dead /\ dead' = dead \cup {slot}
           /\ view'.tape = SurvivesSlot(view.tape, slot)
           /\ view'.slot = view.slot
           /\ IF Len(SurvivesSlot(view.tape, slot)) = Len(view.tape)
              THEN Story' = Story
              ELSE \E e \in RetractedEvent :
                     Story' = Append(Story, e) /\ e.slot = slot /\ e \in Event
           /\ log' = log /\ UNCHANGED session
<1>1. PICK slot \in 1 .. MaxSlot :
        LET after == RetractView(view, slot)
            removed == Len(view.tape) - Len(after.tape)
        IN  /\ unsent = <<>> /\ slot \notin dead
            /\ view' = after
            /\ dead' = dead \cup {slot}
            /\ unsent' = IF removed = 0 THEN <<>>
                         ELSE <<[kind |-> "Retracted", slot |-> slot, trades |-> removed]>>
            /\ UNCHANGED <<log, session>>
  BY Zenon DEF Abandon
<1> DEFINE kept == SurvivesSlot(view.tape, slot)
           removed == Len(view.tape) - Len(kept)
           event == [kind |-> "Retracted", slot |-> slot, trades |-> removed]
<1>2. /\ view'.tape = kept /\ view'.slot = view.slot
      /\ RetractView(view, slot).tape = kept
  <2> HIDE DEF kept
  <2>1. view' = RetractView(view, slot)
    BY <1>1
  <2> QED BY <2>1, FieldNames DEF kept, Shape, ViewShape, RetractView, ViewFields
<1>3. /\ unsent' = IF removed = 0 THEN <<>> ELSE <<event>>
      /\ unsent = <<>> /\ slot \notin dead /\ dead' = dead \cup {slot}
      /\ UNCHANGED <<log, session>>
  BY <1>1, <1>2
<1>4. Len(view.tape) - Len(kept) \in Int
  BY <1>2, RetractedView DEF Shape
<1>4a. removed = 0 <=> Len(kept) = Len(view.tape)
  BY WithoutSlot DEF SurvivesSlot, IsWithout
<1> HIDE DEF kept
<1>5. event \in RetractedEvent /\ event.slot = slot
  BY <1>4, FeedAssumption DEF RetractedEvent
<1>6. log \in Seq(Event) /\ event \in Event
  BY <1>5 DEF Shape, Event
<1> HIDE DEF event
<1>7. CASE removed = 0
  <2>1. Story' = Story
    BY <1>3, <1>7 DEF Story
  <2> QED BY <1>2, <1>3, <1>4, <1>4a, <1>7, <2>1 DEF kept
<1>8. CASE removed # 0
  <2>1. Story' = Append(Story, event)
    BY <1>3, <1>6, <1>8 DEF Story
  <2> QED BY <1>2, <1>3, <1>4, <1>4a, <1>5, <1>6, <1>8, <2>1 DEF kept
<1> QED BY <1>7, <1>8

(* What a step does to the story and to what the registry serves. *)
LEMMA StoryCases ==
  ASSUME Shape, [Next]_vars
  PROVE  \/ Derive
         \/ Abandon
         \/ \E e \in OtherEvent :
              /\ Story' = Append(Story, e) /\ e \in Event
              /\ dead' = dead /\ view'.tape = view.tape /\ view'.slot = view.slot
              /\ UNCHANGED session
         \/ Story' = Story /\ dead' = dead /\ view'.tape = view.tape /\ view'.slot = view.slot
<1>1. CASE UNCHANGED <<view, log, unsent, dead>>
  BY <1>1 DEF Story
<1>2. CASE Broadcast
  <2>1. log' \o unsent' = log \o unsent /\ UNCHANGED <<view, dead>>
    BY <1>2 DEF Broadcast, Shape
  <2> QED BY <2>1 DEF Story
<1>3. CASE OtherMarket
  <2> DEFINE e == [kind |-> "Other"]
  <2>1. e \in OtherEvent /\ e \in Event
    BY DEF OtherEvent, Event
  <2>2. log' = Append(log, e) /\ unsent' = <<>> /\ unsent = <<>> /\ UNCHANGED <<view, dead, session>>
    BY <1>3 DEF OtherMarket
  <2> HIDE DEF e
  <2>3. Story' = Append(Story, e)
    BY <2>1, <2>2 DEF Story, Shape
  <2> QED BY <2>1, <2>2, <2>3
<1>4. CASE Finalize
  <2>1. PICK slot \in 1 .. MaxSlot : view' = FinalizeView(view, slot)
    BY <1>4 DEF Finalize
  <2>2. view'.tape = view.tape /\ view'.slot = view.slot
    BY <2>1, FieldNames DEF Shape, ViewShape, FinalizeView, ViewFields
  <2> QED BY <1>4, <2>2 DEF Finalize, Story
<1> QED
  BY <1>1, <1>2, <1>3, <1>4, ForwardCases, LagCases
     DEF Next, Ingest, Connect, SendSnapshot, ReadFrame, Break, Handle, ingest, vars

(* Events are never changed. *)
LEMMA StoryGrows ==
  ASSUME Shape, view.tape \in Seq(Fill), [Next]_vars
  PROVE  /\ \A i \in DOMAIN Story :
              /\ i \in DOMAIN Story' /\ Story'[i] = Story[i]
              /\ Prints(i)' = Prints(i) /\ Withdraws(i)' = Withdraws(i)
              /\ Effect(i)' = Effect(i) /\ Fills(i)' = Fills(i)
         /\ AllFills \subseteq AllFills'
         /\ DOMAIN Story' \subseteq Nat
<1>1. \A i \in DOMAIN Story : i \in DOMAIN Story' /\ Story'[i] = Story[i]
  <2>1. CASE Story' = Story
    BY <2>1
  <2>2. CASE \E e \in Event : Story' = Append(Story, e)
    BY <2>2, StoryAppends
  <2>3. CASE Derive
    BY <2>2, <2>3, DerivedEvent
  <2>4. CASE Abandon
    BY <2>1, <2>2, <2>4, AbandonedEvent
  <2> QED BY <2>1, <2>2, <2>3, <2>4, StoryCases
<1>2. \A i \in DOMAIN Story :
        /\ Prints(i)' = Prints(i) /\ Withdraws(i)' = Withdraws(i)
        /\ Effect(i)' = Effect(i) /\ Fills(i)' = Fills(i)
  BY <1>1 DEF Prints, Withdraws, Effect, Fills
<1>3. AllFills \subseteq AllFills'
  BY <1>1, <1>2 DEF AllFills
<1>4. DOMAIN Story' \subseteq Nat
  <2>1. log' \in Seq(Event) /\ unsent' \in Seq(Event)
    BY ShapeStep DEF Shape
  <2> QED BY <2>1 DEF Story
<1> QED BY <1>1, <1>2, <1>3, <1>4

(* A fill names the slot and the change of its event, and so the event. *)
LEMMA FillIs ==
  ASSUME Shape, Numbered, NEW i \in DOMAIN Story, NEW t \in Fills(i)
  PROVE  /\ Prints(i) /\ t \in Fill /\ t.slot = Story[i].slot /\ t.slot \in Nat
         /\ t.change <= Changes /\ t.change = Story[i].trades[1].change
         /\ t.change \in Nat /\ t.n \in Nat
<1>1. Prints(i) /\ t \in Range(Story[i].trades)
  BY DEF Fills
<1>2. PICK a \in DOMAIN Story[i].trades : t = Story[i].trades[a]
  BY <1>1 DEF Range
<1>3. Story[i] \in ChangeEvent
  BY <1>1, StoryType, EventKinds DEF Prints
<1>4. t \in Fill
  BY <1>2, <1>3 DEF ChangeEvent
<1> QED BY <1>1, <1>2, <1>4 DEF Numbered, Prints, Fill

LEMMA FillOnce ==
  ASSUME Shape, Numbered, InTurn, NEW i \in DOMAIN Story, NEW j \in DOMAIN Story,
         NEW t \in Fills(i), NEW u \in Fills(j)
  PROVE  /\ t.change < u.change <=> i < j
         /\ t.change = u.change <=> i = j
         /\ t = u => i = j
<1>1. Prints(i) /\ Prints(j) /\ t.change \in Nat /\ u.change \in Nat /\ i \in Nat /\ j \in Nat
  BY FillIs, StoryType
<1>2. i < j => t.change < u.change
  BY <1>1 DEF InTurn, Prints
<1>3. j < i => u.change < t.change
  BY <1>1 DEF InTurn, Prints
<1>4. i = j => t.change = u.change
  BY FillIs
<1> QED BY <1>1, <1>2, <1>3, <1>4

(* Changes are counted one by one. *)
LEMMA ChangesStep ==
  ASSUME Shape, NEW e \in Event, Story' = Append(Story, e)
  PROVE  Changes' = IF e.kind = "Change" THEN Changes + 1 ELSE Changes
<1> DEFINE these == {n \in DOMAIN Story : Story[n].kind = "Change"}
<1>1. /\ DOMAIN Story = 1 .. Len(Story) /\ Len(Story) \in Nat
      /\ DOMAIN Story' = 1 .. Len(Story) + 1 /\ Story'[Len(Story) + 1] = e
      /\ \A i \in DOMAIN Story : Story'[i] = Story[i]
  BY StoryType, StoryAppends
<1>2. Len(Story) + 1 \notin these
  BY <1>1
<1>3. these' = IF e.kind = "Change" THEN these \cup {Len(Story) + 1} ELSE these
  BY <1>1
<1>4. IsFiniteSet(these)
  <2>1. IsFiniteSet(1 .. Len(Story))
    BY <1>1, FS_Interval
  <2>2. these \in SUBSET (1 .. Len(Story))
    BY <1>1
  <2> HIDE DEF these
  <2> QED BY <2>1, <2>2, FS_Subset
<1>5. Changes = Cardinality(these) /\ Changes' = Cardinality(these')
  BY DEF Changes, Count, Story
<1> HIDE DEF these
<1>6. Cardinality(these \cup {Len(Story) + 1}) = Cardinality(these) + 1
  BY <1>2, <1>4, FS_AddElement
<1> QED BY <1>3, <1>5, <1>6

(* A sequence without repetitions has as many members as places. *)
LEMMA MembersCounted ==
  ASSUME NEW s \in Seq(Fill)
  PROVE  /\ IsFiniteSet(Range(s)) /\ Cardinality(Range(s)) \in Nat
         /\ Cardinality(Range(s)) <= Len(s)
         /\ (\A a, b \in DOMAIN s : a < b => s[a] # s[b]) => Cardinality(Range(s)) = Len(s)
<1>1. DOMAIN s = 1 .. Len(s) /\ Len(s) \in Nat
  OBVIOUS
<1>2. IsFiniteSet(1 .. Len(s)) /\ Cardinality(1 .. Len(s)) = Len(s)
  BY <1>1, FS_Interval
<1>3. s \in Surjection(1 .. Len(s), Range(s))
  BY <1>1 DEF Range, Surjection
<1>4. /\ IsFiniteSet(Range(s)) /\ Cardinality(Range(s)) <= Len(s)
      /\ Cardinality(Range(s)) = Len(s) <=> s \in Injection(1 .. Len(s), Range(s))
  BY <1>2, <1>3, FS_Surjection
<1>5. ASSUME \A a, b \in DOMAIN s : a < b => s[a] # s[b]
      PROVE  s \in Injection(1 .. Len(s), Range(s))
  <2>1. \A a, b \in 1 .. Len(s) : s[a] = s[b] => a = b
    BY <1>1, <1>5
  <2> QED BY <1>3, <2>1 DEF Injection, Surjection, IsInjective
<1>6. Cardinality(Range(s)) \in Nat
  BY <1>4, FS_CardinalityType
<1> QED BY <1>4, <1>5, <1>6

(* The newest part of a tape is what is left of it after some of the front *)
(* is cut off, and nothing is unless the tape is full.                     *)
LEMMA NewestIs ==
  ASSUME NEW tape \in Seq(Fill)
  PROVE  \E cut \in 0 .. Len(tape) :
           /\ Newest(tape) \in Seq(Fill) /\ Len(Newest(tape)) = Len(tape) - cut
           /\ Len(Newest(tape)) <= TapeCapacity
           /\ \A a \in DOMAIN Newest(tape) : a + cut \in DOMAIN tape /\ Newest(tape)[a] = tape[a + cut]
           /\ cut > 0 => Len(Newest(tape)) = TapeCapacity /\ Len(tape) > TapeCapacity
<1>1. TapeCapacity \in Nat \ {0} /\ Len(tape) \in Nat
  BY RegistryAssumption
<1>2. CASE Len(tape) > TapeCapacity
  <2> DEFINE cut == Len(tape) - TapeCapacity
  <2>1. Newest(tape) = SubSeq(tape, cut + 1, Len(tape))
    BY <1>2 DEF Newest
  <2>2. /\ Newest(tape) \in Seq(Fill) /\ Len(Newest(tape)) = TapeCapacity
        /\ \A a \in 1 .. TapeCapacity : Newest(tape)[a] = tape[a + cut]
    BY <1>1, <1>2, <2>1
  <2>3. cut \in 0 .. Len(tape)
    BY <1>1, <1>2
  <2>4. \A a \in DOMAIN Newest(tape) : a \in 1 .. TapeCapacity /\ a + cut \in DOMAIN tape
    BY <1>1, <1>2, <2>2
  <2> QED BY <1>1, <1>2, <2>2, <2>3, <2>4
<1>3. CASE ~ (Len(tape) > TapeCapacity)
  <2>1. Newest(tape) = tape
    BY <1>3 DEF Newest
  <2> WITNESS 0 \in 0 .. Len(tape)
  <2> QED BY <1>1, <1>3, <2>1
<1> QED BY <1>2, <1>3

(* Whether an event has been overtaken is decided when the last of those   *)
(* that overtake it is recorded.                                           *)
LEMMA OvertakenStays ==
  ASSUME Shape, view.tape \in Seq(Fill), [Next]_vars,
         NEW p \in DOMAIN Story, NEW i \in DOMAIN Story
  PROVE  Overtaken(p, i)' <=> Overtaken(p, i)
<1>1. /\ \A k \in DOMAIN Story :
           /\ k \in DOMAIN Story' /\ Story'[k] = Story[k]
           /\ Prints(k)' = Prints(k) /\ Withdraws(k)' = Withdraws(k) /\ Fills(k)' = Fills(k)
      /\ AllFills \subseteq AllFills'
  BY StoryGrows
<1>2. DOMAIN Story = 1 .. Len(Story) /\ Len(Story) \in Nat /\ p \in Nat /\ i \in Nat
  BY StoryType
<1>3. \A k \in 1 .. p : k \in DOMAIN Story
  BY <1>2
<1>4. \A k \in i + 1 .. p : k \in DOMAIN Story
  BY <1>2
<1>5. \A G : Overtakes(G, p, i)' <=> Overtakes(G, p, i)
  <2> SUFFICES ASSUME NEW G PROVE Overtakes(G, p, i)' <=> Overtakes(G, p, i)
    OBVIOUS
  <2>1. \A g : (\E k \in i + 1 .. p : g \in Fills(k)') <=> (\E k \in i + 1 .. p : g \in Fills(k))
    BY <1>1, <1>4
  <2>2. \A g : (\A j \in 1 .. p : Withdraws(j)' => Story'[j].slot # g.slot)
                 <=> (\A j \in 1 .. p : Withdraws(j) => Story[j].slot # g.slot)
    BY <1>1, <1>3
  <2>3. Prints(p)' <=> Prints(p)
    BY <1>1
  <2> QED BY <2>1, <2>2, <2>3 DEF Overtakes
<1>6. ASSUME NEW G, Overtakes(G, p, i) PROVE G \subseteq AllFills
  BY <1>4, <1>6 DEF Overtakes, AllFills
<1>7. CASE Overtaken(p, i)
  <2>1. PICK G \in SUBSET AllFills : Overtakes(G, p, i)
    BY <1>7 DEF Overtaken
  <2>2. Overtakes(G, p, i)' /\ G \in SUBSET AllFills'
    BY <1>1, <1>5, <2>1
  <2> QED BY <1>7, <2>2 DEF Overtaken
<1>8. CASE Overtaken(p, i)'
  <2>1. PICK G \in SUBSET AllFills' : Overtakes(G, p, i)'
    BY <1>8 DEF Overtaken
  <2>2. Overtakes(G, p, i) /\ G \in SUBSET AllFills
    BY <1>5, <1>6, <2>1
  <2> QED BY <1>8, <2>2 DEF Overtaken
<1> QED BY <1>7, <1>8

(* An event that is no change leaves the numbering alone. *)
LEMMA NumberedStep ==
  ASSUME Shape, History, [Next]_vars
  PROVE  Numbered'
<1> USE DEF History
<1>1. view.tape \in Seq(Fill) /\ Changes \in Nat /\ view.slot \in Nat
  BY CountsAreNat DEF RegistryTape, Shape, ViewShape
<1>2. \A i \in DOMAIN Story : Story[i].kind = "Change" => Story[i] \in ChangeEvent
  BY StoryType, EventKinds
<1>3. ASSUME view'.slot = view.slot,
             Story' = Story \/ \E e \in Event : Story' = Append(Story, e) /\ e.kind # "Change"
      PROVE  Numbered'
  <2>1. CASE Story' = Story
    <3>1. Changes' = Changes
      BY <2>1 DEF Changes, Count, Story
    <3> QED BY <1>3, <2>1, <3>1 DEF Numbered
  <2>2. ASSUME NEW e \in Event, Story' = Append(Story, e), e.kind # "Change" PROVE Numbered'
    <3>1. Changes' = Changes
      BY <2>2, ChangesStep
    <3>2. \A i \in DOMAIN Story' : Story'[i].kind = "Change" =>
            i \in DOMAIN Story /\ Story'[i] = Story[i]
      BY <2>2, StoryAppends
    <3> QED BY <1>3, <3>1, <3>2 DEF Numbered
  <2> QED BY <1>3, <2>1, <2>2
<1>4. CASE Derive
  <2>1. PICK e \in ChangeEvent :
          /\ Story' = Append(Story, e) /\ e \in Event /\ e.slot >= view.slot /\ view'.slot = e.slot
          /\ e.trades # <<>> => ~ e.empty
          /\ \A a \in DOMAIN e.trades :
               /\ e.trades[a].slot = e.slot /\ e.trades[a].n = a
               /\ e.trades[a].change = Changes + 1
    BY <1>4, DerivedEvent
  <2>2. Changes' = Changes + 1
    BY <2>1, ChangesStep DEF ChangeEvent
  <2>3. ASSUME NEW i \in DOMAIN Story, Story[i].kind = "Change"
        PROVE  /\ Story[i].slot <= e.slot
               /\ \A a \in DOMAIN Story[i].trades : Story[i].trades[a].change <= Changes + 1
    <3>1. Story[i].slot \in Nat /\ e.slot \in Nat
      BY <1>2, <2>3 DEF ChangeEvent
    <3>2. \A a \in DOMAIN Story[i].trades : Story[i].trades[a].change \in Nat
      <4>1. Story[i].trades \in Seq(Fill)
        BY <1>2, <2>3 DEF ChangeEvent
      <4>2. \A a \in DOMAIN Story[i].trades : Story[i].trades[a] \in Fill
        BY <4>1
      <4> QED BY <4>2 DEF Fill
    <3> QED BY <1>1, <2>1, <2>3, <3>1, <3>2 DEF Numbered
  <2>4. \A a \in DOMAIN e.trades : 1 \in DOMAIN e.trades
    BY DEF ChangeEvent
  <2>5. \A i \in DOMAIN Story' :
          (i \in DOMAIN Story /\ Story'[i] = Story[i]) \/ Story'[i] = e
    BY <2>1, StoryAppends
  <2>6. e.slot <= e.slot /\ Changes + 1 <= Changes + 1
    BY <1>1 DEF ChangeEvent
  <2> SUFFICES ASSUME NEW i \in DOMAIN Story', Story'[i].kind = "Change"
               PROVE  /\ Story'[i].slot <= view'.slot
                      /\ Story'[i].trades # <<>> => ~ Story'[i].empty
                      /\ \A a \in DOMAIN Story'[i].trades :
                           LET t == Story'[i].trades[a]
                           IN  /\ t.slot = Story'[i].slot /\ t.n = a
                               /\ t.change = Story'[i].trades[1].change /\ t.change <= Changes'
    BY DEF Numbered
  <2>7. CASE i \in DOMAIN Story /\ Story'[i] = Story[i]
    BY <2>1, <2>2, <2>3, <2>7 DEF Numbered
  <2>8. CASE Story'[i] = e
    <3>1. \A a \in DOMAIN e.trades : e.trades[a].change = e.trades[1].change
      BY <2>1, <2>4
    <3> QED BY <2>1, <2>2, <2>6, <2>8, <3>1
  <2> QED BY <2>5, <2>7, <2>8
<1>5. CASE Abandon
  <2>1. view'.slot = view.slot
        /\ (Story' = Story \/ \E e \in RetractedEvent : Story' = Append(Story, e) /\ e \in Event)
    BY <1>1, <1>5, AbandonedEvent
  <2> QED BY <1>3, <2>1 DEF RetractedEvent
<1>6. ASSUME view'.slot = view.slot,
             Story' = Story \/ \E e \in OtherEvent : Story' = Append(Story, e) /\ e \in Event
      PROVE  Numbered'
  BY <1>3, <1>6 DEF OtherEvent
<1> QED BY <1>4, <1>5, <1>6, StoryCases

LEMMA InTurnStep ==
  ASSUME Shape, History, [Next]_vars
  PROVE  InTurn'
<1> USE DEF History
<1>1. view.tape \in Seq(Fill) /\ Changes \in Nat /\ view.slot \in Nat
  BY CountsAreNat DEF RegistryTape, Shape, ViewShape
<1>2. \A i \in DOMAIN Story :
        /\ i \in DOMAIN Story' /\ Story'[i] = Story[i] /\ i \in Nat
        /\ Withdraws(i)' = Withdraws(i) /\ Fills(i)' = Fills(i)
  BY <1>1, StoryGrows, StoryType
<1>3. ASSUME \A j \in DOMAIN Story' : Story'[j].kind = "Change" => j \in DOMAIN Story
      PROVE  InTurn'
  <2> SUFFICES ASSUME NEW i \in DOMAIN Story', NEW j \in DOMAIN Story',
                      i < j, Story'[j].kind = "Change"
               PROVE  /\ Story'[i].kind = "Change" => Story'[i].slot <= Story'[j].slot
                      /\ \A t \in Fills(i)', u \in Fills(j)' : t.change < u.change
                      /\ Withdraws(i)' => Story'[i].slot # Story'[j].slot
    BY DEF InTurn
  <2>1. j \in DOMAIN Story /\ i \in Nat /\ i > 0
    <3>1. log' \in Seq(Event) /\ unsent' \in Seq(Event)
      BY ShapeStep DEF Shape
    <3> QED BY <1>3, <3>1 DEF Story
  <2>2. i \in DOMAIN Story
    BY <2>1, StoryType
  <2> QED BY <1>2, <2>1, <2>2 DEF InTurn
<1>4. CASE Derive
  <2>1. PICK e \in ChangeEvent :
          /\ Story' = Append(Story, e) /\ e \in Event /\ e.slot >= view.slot /\ e.slot \notin dead
          /\ \A a \in DOMAIN e.trades :
               /\ e.trades[a].slot = e.slot /\ e.trades[a].n = a
               /\ e.trades[a].change = Changes + 1
    BY <1>4, DerivedEvent
  <2> PICK last \in Nat : last = Len(Story) + 1
    BY StoryType
  <2>2. /\ DOMAIN Story' = 1 .. last /\ Story'[last] = e /\ last \in Nat
        /\ \A i \in DOMAIN Story' : i \in DOMAIN Story \/ i = last
        /\ \A i \in DOMAIN Story : i < last
    BY <2>1, StoryAppends, StoryType
  <2>3. ASSUME NEW i \in DOMAIN Story
        PROVE  /\ Story'[i].kind = "Change" => Story'[i].slot <= Story'[last].slot
               /\ \A t \in Fills(i)', u \in Fills(last)' : t.change < u.change
               /\ Withdraws(i)' => Story'[i].slot # Story'[last].slot
    <3>1. Story'[i].kind = "Change" => Story'[i].slot <= Story'[last].slot
      <4>1. Story[i].kind = "Change" => Story[i].slot \in Nat /\ Story[i].slot <= view.slot
        BY StoryType, EventKinds DEF ChangeEvent, Numbered
      <4>2. e.slot \in Nat
        BY DEF ChangeEvent
      <4> QED BY <1>1, <1>2, <2>1, <2>2, <4>1, <4>2
    <3>2. ASSUME NEW t \in Fills(i), NEW u \in Fills(last)' PROVE t.change < u.change
      <4>1. t.change \in Nat /\ t.change <= Changes
        BY <3>2, FillIs
      <4>2. u \in Range(e.trades)
        BY <2>2, <3>2 DEF Fills
      <4>3. u.change = Changes + 1
        <5>1. PICK a \in DOMAIN e.trades : u = e.trades[a]
          BY <4>2 DEF Range
        <5> QED BY <2>1, <5>1
      <4> QED BY <1>1, <4>1, <4>3
    <3>3. Withdraws(i)' => Story'[i].slot # Story'[last].slot
      BY <1>2, <2>1, <2>2 DEF WithdrawnOnce
    <3> QED BY <1>2, <3>1, <3>2, <3>3
  <2>4. ASSUME NEW i \in DOMAIN Story, NEW j \in DOMAIN Story, i < j, Story'[j].kind = "Change"
        PROVE  /\ Story'[i].kind = "Change" => Story'[i].slot <= Story'[j].slot
               /\ \A t \in Fills(i)', u \in Fills(j)' : t.change < u.change
               /\ Withdraws(i)' => Story'[i].slot # Story'[j].slot
    BY <1>2, <2>4 DEF InTurn
  <2> SUFFICES ASSUME NEW i \in DOMAIN Story', NEW j \in DOMAIN Story',
                      i < j, Story'[j].kind = "Change"
               PROVE  /\ Story'[i].kind = "Change" => Story'[i].slot <= Story'[j].slot
                      /\ \A t \in Fills(i)', u \in Fills(j)' : t.change < u.change
                      /\ Withdraws(i)' => Story'[i].slot # Story'[j].slot
    BY DEF InTurn
  <2>5. i \in DOMAIN Story /\ (j \in DOMAIN Story \/ j = last)
    BY <2>2
  <2>6. CASE j \in DOMAIN Story
    BY <2>4, <2>5, <2>6
  <2>7. CASE j = last
    BY <2>3, <2>5, <2>7
  <2> QED BY <2>5, <2>6, <2>7
<1>5. ASSUME NEW e \in Event, Story' = Append(Story, e), e.kind # "Change" PROVE InTurn'
  BY <1>3, <1>5, StoryAppends
<1>6. CASE Story' = Story
  BY <1>3, <1>6
<1>7. CASE Abandon
  BY <1>1, <1>5, <1>6, <1>7, AbandonedEvent DEF RetractedEvent
<1> QED BY <1>4, <1>5, <1>6, <1>7, StoryCases DEF OtherEvent

LEMMA WithdrawnOnceStep ==
  ASSUME Shape, History, [Next]_vars
  PROVE  WithdrawnOnce'
<1> USE DEF History
<1>1. view.tape \in Seq(Fill)
  BY DEF RegistryTape
<1>2. \A i \in DOMAIN Story :
        i \in DOMAIN Story' /\ Story'[i] = Story[i] /\ Withdraws(i)' = Withdraws(i)
  BY <1>1, StoryGrows
<1>3. ASSUME dead \subseteq dead',
             \A i \in DOMAIN Story' : Withdraws(i)' => i \in DOMAIN Story
      PROVE  WithdrawnOnce'
  BY <1>2, <1>3 DEF WithdrawnOnce
<1>4. ASSUME NEW e \in Event, Story' = Append(Story, e), e.kind # "Retracted", dead' = dead
      PROVE  WithdrawnOnce'
  BY <1>3, <1>4, StoryAppends DEF Withdraws
<1>5. CASE Abandon
  <2>1. PICK slot \in 1 .. MaxSlot :
          /\ slot \notin dead /\ dead' = dead \cup {slot}
          /\ \/ Story' = Story
             \/ \E e \in RetractedEvent : Story' = Append(Story, e) /\ e.slot = slot /\ e \in Event
    BY <1>1, <1>5, AbandonedEvent
  <2>2. CASE Story' = Story
    BY <1>3, <2>1, <2>2
  <2>3. ASSUME NEW e \in Event, Story' = Append(Story, e), e.slot = slot
        PROVE  WithdrawnOnce'
    <3> PICK last \in Nat : last = Len(Story) + 1
      BY StoryType
    <3>1. /\ Story'[last] = e /\ \A i \in DOMAIN Story' : i \in DOMAIN Story \/ i = last
      BY <2>3, StoryAppends
    <3>2. \A i \in DOMAIN Story : Withdraws(i) => Story[i].slot # slot
      BY <2>1 DEF WithdrawnOnce
    <3>3. \A i \in DOMAIN Story' : Withdraws(i)' => Story'[i].slot \in dead'
      BY <1>2, <2>1, <2>3, <3>1 DEF WithdrawnOnce
    <3>4. \A i, j \in DOMAIN Story' :
            Withdraws(i)' /\ Withdraws(j)' /\ Story'[i].slot = Story'[j].slot => i = j
      BY <1>2, <2>3, <3>1, <3>2 DEF WithdrawnOnce
    <3> QED BY <3>3, <3>4 DEF WithdrawnOnce
  <2> QED BY <2>1, <2>2, <2>3
<1>6. CASE Derive
  BY <1>4, <1>6, DerivedEvent DEF ChangeEvent
<1>7. CASE Story' = Story /\ dead' = dead
  BY <1>3, <1>7
<1>8. ASSUME NEW e \in OtherEvent, Story' = Append(Story, e), e \in Event, dead' = dead
      PROVE  WithdrawnOnce'
  BY <1>4, <1>8 DEF OtherEvent
<1> QED BY <1>5, <1>6, <1>7, <1>8, StoryCases

(* Two tapes joined. *)
IsJoined(both, s, t) ==
  /\ both \in Seq(Fill) /\ Len(both) = Len(s) + Len(t)
  /\ Len(s) \in Nat /\ Len(t) \in Nat /\ Len(both) \in Nat
  /\ DOMAIN s = 1 .. Len(s) /\ DOMAIN t = 1 .. Len(t) /\ DOMAIN both = 1 .. Len(both)
  /\ \A a \in DOMAIN s : a \in DOMAIN both /\ both[a] = s[a]
  /\ \A a \in DOMAIN t : Len(s) + a \in DOMAIN both /\ both[Len(s) + a] = t[a]
  /\ \A a \in DOMAIN both : a \in DOMAIN s
       \/ (a > Len(s) /\ a - Len(s) \in DOMAIN t /\ both[a] = t[a - Len(s)])

LEMMA Joined ==
  ASSUME NEW s \in Seq(Fill), NEW t \in Seq(Fill)
  PROVE  IsJoined(s \o t, s, t)
<1> DEFINE both == s \o t
<1>1. both \in Seq(Fill) /\ Len(both) = Len(s) + Len(t)
  OBVIOUS
<1>2. \A a \in 1 .. Len(s) : both[a] = s[a]
  OBVIOUS
<1>3. \A a \in 1 .. Len(both) : a > Len(s) => both[a] = t[a - Len(s)]
  OBVIOUS
<1>4. /\ Len(s) \in Nat /\ Len(t) \in Nat /\ DOMAIN s = 1 .. Len(s) /\ DOMAIN t = 1 .. Len(t)
      /\ DOMAIN both = 1 .. Len(both)
  BY <1>1
<1>5. \A a \in DOMAIN s : a \in DOMAIN both /\ both[a] = s[a]
  BY <1>1, <1>2, <1>4
<1>6. \A a \in DOMAIN t : Len(s) + a \in DOMAIN both /\ both[Len(s) + a] = t[a]
  <2> SUFFICES ASSUME NEW a \in DOMAIN t
               PROVE  Len(s) + a \in DOMAIN both /\ both[Len(s) + a] = t[a]
    OBVIOUS
  <2>1. Len(s) + a \in DOMAIN both /\ Len(s) + a > Len(s) /\ Len(s) + a - Len(s) = a
    BY <1>1, <1>4
  <2> QED BY <1>3, <1>4, <2>1
<1> HIDE DEF both
<1>7. IsJoined(both, s, t)
  BY <1>1, <1>3, <1>4, <1>5, <1>6 DEF IsJoined
<1> QED BY <1>7, Zenon DEF both

(* The registry's tape after a derivation: the fills of the change come    *)
(* after those it held.                                                    *)
LEMMA JoinedTape ==
  ASSUME Shape, History, NEW e \in ChangeEvent,
         Story' = Append(Story, e), e \in Event, e.slot \notin dead, e.slot >= view.slot,
         \A a \in DOMAIN e.trades :
           /\ e.trades[a].slot = e.slot /\ e.trades[a].n = a
           /\ e.trades[a].change = Changes + 1,
         NEW both, both = view.tape \o e.trades
  PROVE  /\ both \in Seq(Fill) /\ Len(both) = Len(view.tape) + Len(e.trades)
         /\ \A a \in DOMAIN view.tape : a \in DOMAIN both /\ both[a] = view.tape[a]
         /\ \A a \in DOMAIN both : both[a].slot \notin dead /\ both[a] \in AllFills'
         /\ \A a, b \in DOMAIN both : a < b =>
              Earlier(both[a], both[b]) /\ both[a].slot <= both[b].slot
<1> USE DEF History
<1>1. view.tape \in Seq(Fill) /\ e.trades \in Seq(Fill) /\ e.kind = "Change"
  BY DEF RegistryTape, ChangeEvent
<1>2. /\ both \in Seq(Fill) /\ Len(both) = Len(view.tape) + Len(e.trades)
      /\ Len(view.tape) \in Nat /\ Len(e.trades) \in Nat
      /\ DOMAIN view.tape = 1 .. Len(view.tape) /\ DOMAIN e.trades = 1 .. Len(e.trades)
      /\ DOMAIN both = 1 .. Len(both)
      /\ \A a \in DOMAIN view.tape : a \in DOMAIN both /\ both[a] = view.tape[a]
      /\ \A a \in DOMAIN both : a \in DOMAIN view.tape
           \/ (a > Len(view.tape) /\ a - Len(view.tape) \in DOMAIN e.trades
               /\ both[a] = e.trades[a - Len(view.tape)])
  <2>1. view.tape \in Seq(Fill)
    BY <1>1
  <2>2. e.trades \in Seq(Fill)
    BY <1>1
  <2>3. IsJoined(both, view.tape, e.trades)
    BY <2>1, <2>2, Joined, Zenon
  <2> QED BY <2>3 DEF IsJoined
<1>3. PICK last \in Nat : last = Len(Story) + 1
  BY StoryType
<1>4. last \in DOMAIN Story' /\ Story'[last] = e
  BY <1>3, StoryAppends
<1>5. ASSUME NEW a \in DOMAIN e.trades PROVE e.trades[a] \in AllFills'
  <2>1. e.trades # <<>>
    BY <1>2, <1>5
  <2>2. e.trades[a] \in Fills(last)'
    BY <1>1, <1>4, <1>5, <2>1 DEF Fills, Prints, Range
  <2> QED BY <1>4, <2>2 DEF AllFills
<1>6. AllFills \subseteq AllFills'
  <2>1. \A i \in DOMAIN Story : i \in DOMAIN Story' /\ Story'[i] = Story[i]
    BY StoryAppends
  <2> QED BY <2>1 DEF AllFills, Fills, Prints
<1>7. ASSUME NEW a \in DOMAIN both PROVE both[a].slot \notin dead /\ both[a] \in AllFills'
  <2>1. CASE a \in DOMAIN view.tape
    BY <1>2, <1>6, <2>1 DEF RegistryTape
  <2>2. ASSUME NEW k \in DOMAIN e.trades, both[a] = e.trades[k]
        PROVE  both[a].slot \notin dead /\ both[a] \in AllFills'
    BY <1>5, <2>2
  <2> QED BY <1>2, <2>1, <2>2
<1>8. ASSUME NEW a \in DOMAIN view.tape
      PROVE  /\ view.tape[a].change \in Nat /\ view.tape[a].change <= Changes
             /\ view.tape[a].slot <= e.slot
  <2>1. PICK i \in DOMAIN Story : view.tape[a] \in Fills(i)
    BY <1>8 DEF RegistryTape, AllFills
  <2>2. /\ Prints(i) /\ view.tape[a].slot = Story[i].slot /\ view.tape[a].slot \in Nat
        /\ view.tape[a].change <= Changes /\ view.tape[a].change \in Nat
    BY <2>1, FillIs
  <2>3. Story[i].slot <= view.slot
    BY <2>2 DEF Numbered, Prints
  <2>4. view.slot \in Nat /\ e.slot \in Nat
    BY DEF Shape, ViewShape, ChangeEvent
  <2> QED BY <2>2, <2>3, <2>4
<1>9. Changes \in Nat /\ e.slot \in Nat
  BY CountsAreNat DEF ChangeEvent
<1>10. ASSUME NEW a \in DOMAIN both, NEW b \in DOMAIN both, a < b
       PROVE  Earlier(both[a], both[b]) /\ both[a].slot <= both[b].slot
  <2>1. CASE b \in DOMAIN view.tape
    <3>1. a \in DOMAIN view.tape
      BY <1>2, <1>10, <2>1
    <3> QED BY <1>2, <1>10, <2>1, <3>1 DEF RegistryTape
  <2>2. CASE a \in DOMAIN view.tape /\ b \notin DOMAIN view.tape
    <3>1. PICK k \in DOMAIN e.trades : both[b] = e.trades[k]
      BY <1>2, <2>2
    <3>2. both[b].change = Changes + 1 /\ both[b].slot = e.slot /\ both[a] = view.tape[a]
      BY <1>2, <2>2, <3>1
    <3> QED BY <1>8, <1>9, <2>2, <3>2 DEF Earlier
  <2>3. CASE a \notin DOMAIN view.tape /\ b \notin DOMAIN view.tape
    <3>1. PICK k \in DOMAIN e.trades : k = a - Len(view.tape) /\ both[a] = e.trades[k]
      BY <1>2, <2>3
    <3>2. PICK m \in DOMAIN e.trades : m = b - Len(view.tape) /\ both[b] = e.trades[m]
      BY <1>2, <2>3
    <3>3. k < m
      BY <1>2, <1>10, <3>1, <3>2
    <3> QED BY <1>9, <3>1, <3>2, <3>3 DEF Earlier
  <2>4. a \in DOMAIN view.tape \/ a \notin DOMAIN view.tape
    OBVIOUS
  <2> QED BY <2>1, <2>2, <2>3, <2>4
<1> QED BY <1>2, <1>7, <1>10

LEMMA RegistryTapeStep ==
  ASSUME Shape, History, [Next]_vars
  PROVE  RegistryTape'
<1> USE DEF History
<1>1. view.tape \in Seq(Fill) /\ AllFills \subseteq AllFills'
  BY StoryGrows DEF RegistryTape
<1>2. CASE Derive
  <2>1. PICK e \in ChangeEvent :
          /\ Story' = Append(Story, e) /\ e \in Event /\ e.slot >= view.slot /\ e.slot \notin dead
          /\ \A a \in DOMAIN e.trades :
               /\ e.trades[a].slot = e.slot /\ e.trades[a].n = a
               /\ e.trades[a].change = Changes + 1
          /\ view'.tape = Newest(view.tape \o e.trades) /\ dead' = dead
    BY <1>2, DerivedEvent
  <2> DEFINE both == view.tape \o e.trades
  <2>2. /\ both \in Seq(Fill)
        /\ \A a \in DOMAIN both : both[a].slot \notin dead /\ both[a] \in AllFills'
        /\ \A a, b \in DOMAIN both : a < b =>
             Earlier(both[a], both[b]) /\ both[a].slot <= both[b].slot
    BY <2>1, JoinedTape
  <2> HIDE DEF both
  <2>3. PICK cut \in 0 .. Len(both) :
           /\ Newest(both) \in Seq(Fill) /\ Len(Newest(both)) <= TapeCapacity
           /\ \A a \in DOMAIN Newest(both) : a + cut \in DOMAIN both /\ Newest(both)[a] = both[a + cut]
    BY <2>2, NewestIs
  <2>4. \A a, b \in DOMAIN Newest(both) : a < b => a + cut < b + cut
    BY <2>2, <2>3
  <2>5. view'.tape = Newest(both)
    BY <2>1 DEF both
  <2> QED BY <2>1, <2>2, <2>3, <2>4, <2>5 DEF RegistryTape
<1>3. CASE Abandon
  <2>1. PICK slot \in 1 .. MaxSlot :
           dead' = dead \cup {slot} /\ view'.tape = SurvivesSlot(view.tape, slot)
    BY <1>1, <1>3, AbandonedEvent
  <2> PICK kept : kept = SurvivesSlot(view.tape, slot)
    OBVIOUS
  <2>2. /\ kept \in Seq(Fill) /\ Len(kept) \in Nat /\ Len(kept) <= Len(view.tape)
        /\ \E m \in [DOMAIN kept -> DOMAIN view.tape] :
             /\ \A a \in DOMAIN kept : kept[a] = view.tape[m[a]] /\ kept[a].slot # slot
             /\ \A a, b \in DOMAIN kept : a < b => m[a] < m[b]
    <3>1. IsWithout(kept, view.tape, slot)
      BY <1>1, WithoutSlot, Zenon DEF SurvivesSlot
    <3> QED BY <3>1 DEF IsWithout
  <2>3. PICK m \in [DOMAIN kept -> DOMAIN view.tape] :
          /\ \A a \in DOMAIN kept : kept[a] = view.tape[m[a]] /\ kept[a].slot # slot
          /\ \A a, b \in DOMAIN kept : a < b => m[a] < m[b]
    BY <2>2
  <2>4. \A a \in DOMAIN kept : kept[a].slot \notin dead' /\ kept[a] \in AllFills'
    BY <1>1, <2>1, <2>3 DEF RegistryTape
  <2>5. \A a, b \in DOMAIN kept : a < b =>
          Earlier(kept[a], kept[b]) /\ kept[a].slot <= kept[b].slot
    BY <2>3 DEF RegistryTape
  <2>6. Len(kept) <= TapeCapacity
    BY <1>1, <2>2, RegistryAssumption DEF RegistryTape
  <2>7. view'.tape = kept
    BY <2>1
  <2> QED BY <2>2, <2>4, <2>5, <2>6, <2>7 DEF RegistryTape
<1>4. CASE dead' = dead /\ view'.tape = view.tape
  BY <1>1, <1>4 DEF RegistryTape
<1> QED BY <1>2, <1>3, <1>4, StoryCases

(* A fill whose slot has just left the registry's tape has been overtaken  *)
(* by all that is on it.                                                   *)
LEMMA PushedOff ==
  ASSUME Shape, History, [Next]_vars, NEW e \in ChangeEvent,
         Story' = Append(Story, e), e \in Event, e.slot \notin dead, e.slot >= view.slot,
         \A a \in DOMAIN e.trades :
           /\ e.trades[a].slot = e.slot /\ e.trades[a].n = a
           /\ e.trades[a].change = Changes + 1,
         view'.tape = Newest(view.tape \o e.trades), dead' = dead,
         NEW i \in DOMAIN Story, Prints(i),
         \E a \in DOMAIN view.tape : view.tape[a].slot = Story[i].slot,
         \A b \in DOMAIN view'.tape : view'.tape[b].slot # Story[i].slot
  PROVE  \E p \in DOMAIN Story' : Overtaken(p, i)'
<1> USE DEF History
<1> DEFINE both == view.tape \o e.trades
<1>1. /\ both \in Seq(Fill) /\ Len(both) = Len(view.tape) + Len(e.trades)
      /\ \A a \in DOMAIN view.tape : a \in DOMAIN both /\ both[a] = view.tape[a]
      /\ \A a \in DOMAIN both : both[a].slot \notin dead /\ both[a] \in AllFills'
      /\ \A a, b \in DOMAIN both : a < b =>
           Earlier(both[a], both[b]) /\ both[a].slot <= both[b].slot
  BY JoinedTape
<1>2. view'.tape = Newest(both)
  OBVIOUS
<1>3. view.tape \in Seq(Fill) /\ e.trades \in Seq(Fill)
  BY DEF RegistryTape, ChangeEvent
<1> HIDE DEF both
<1>4. PICK new : new = Newest(both)
  OBVIOUS
<1>5a. both \in Seq(Fill)
  BY <1>1
<1>5. PICK cut \in 0 .. Len(both) :
        /\ new \in Seq(Fill) /\ Len(new) = Len(both) - cut
        /\ \A a \in DOMAIN new : a + cut \in DOMAIN both /\ new[a] = both[a + cut]
        /\ cut > 0 => Len(new) = TapeCapacity /\ Len(both) > TapeCapacity
  BY <1>1, <1>4, NewestIs
<1>6. /\ Len(both) \in Nat /\ DOMAIN both = 1 .. Len(both) /\ cut \in Nat
      /\ DOMAIN new = 1 .. Len(new) /\ Len(new) \in Nat /\ Len(e.trades) \in Nat
  <2>1. Len(both) \in Nat /\ DOMAIN both = 1 .. Len(both)
    BY <1>5a
  <2>2. DOMAIN new = 1 .. Len(new) /\ Len(new) \in Nat
    BY <1>5
  <2>3. Len(e.trades) \in Nat
    BY <1>3
  <2> QED BY <1>5, <2>1, <2>2, <2>3
<1>7. PICK a \in DOMAIN view.tape : view.tape[a].slot = Story[i].slot
  OBVIOUS
<1>8. a \in DOMAIN both /\ both[a].slot = Story[i].slot
  BY <1>1, <1>7
<1>9. a <= cut
  <2> SUFFICES ASSUME a > cut PROVE FALSE
    BY <1>6, <1>8
  <2>1. a - cut \in DOMAIN new /\ (a - cut) + cut = a
    BY <1>5, <1>6, <1>8
  <2>2. new[a - cut] = both[a]
    BY <1>5, <2>1
  <2> QED BY <1>2, <1>4, <1>8, <2>1, <2>2
<1>10. Len(new) = TapeCapacity /\ Len(both) > TapeCapacity
  BY <1>5, <1>6, <1>8, <1>9
<1>11. e.trades # <<>>
  <2> SUFFICES ASSUME e.trades = <<>> PROVE FALSE
    OBVIOUS
  <2>1. Len(e.trades) = 0
    OBVIOUS
  <2>2. Len(view.tape) \in Nat /\ Len(view.tape) <= TapeCapacity /\ TapeCapacity \in Nat
    BY <1>3, RegistryAssumption DEF RegistryTape
  <2>3. Len(both) = Len(view.tape) + 0
    BY <1>1, <2>1
  <2> QED BY <1>10, <2>2, <2>3
<1>12. PICK p \in Nat : p = Len(Story) + 1
  BY StoryType
<1>13. /\ p \in DOMAIN Story' /\ Story'[p] = e /\ DOMAIN Story' = 1 .. p
       /\ i \in DOMAIN Story' /\ Story'[i] = Story[i] /\ i \in Nat
  BY <1>12, StoryAppends, StoryType
<1>14. Prints(p)'
  BY <1>11, <1>13 DEF Prints, ChangeEvent
<1>15. ASSUME NEW b \in DOMAIN new
       PROVE  /\ new[b].slot \notin dead /\ new[b] \in AllFills'
              /\ Story[i].slot <= new[b].slot /\ new[b].slot # Story[i].slot
  <2>1. b + cut \in DOMAIN both /\ new[b] = both[b + cut] /\ a < b + cut
    BY <1>5, <1>6, <1>8, <1>9
  <2> QED BY <1>1, <1>2, <1>4, <1>8, <2>1
<1> DEFINE G == Range(new)
<1>16. IsFiniteSet(G) /\ Cardinality(G) >= ViewerTape
  <2>1. \A b, c \in DOMAIN new : b < c => new[b] # new[c]
    <3> SUFFICES ASSUME NEW b \in DOMAIN new, NEW c \in DOMAIN new, b < c, new[b] = new[c]
                 PROVE  FALSE
      OBVIOUS
    <3>1. /\ b + cut \in DOMAIN both /\ new[b] = both[b + cut]
          /\ c + cut \in DOMAIN both /\ new[c] = both[c + cut] /\ b + cut < c + cut
      BY <1>5, <1>6
    <3>2. Earlier(new[b], new[c])
      BY <1>1, <3>1
    <3>3. new[b] \in Fill
      BY <1>5
    <3> QED BY <3>2, <3>3 DEF Earlier, Fill
  <2>2. IsFiniteSet(G) /\ Cardinality(G) = Len(new)
    BY <1>5, <2>1, MembersCounted
  <2> QED BY <1>10, <2>2, TapesAssumption, RegistryAssumption, ViewerAssumption
<1>17. InTurn' /\ WithdrawnOnce' /\ Numbered'
  BY InTurnStep, WithdrawnOnceStep, NumberedStep
<1>18. ASSUME NEW g \in G
       PROVE  /\ \E k \in i + 1 .. p : g \in Fills(k)'
              /\ \A j \in 1 .. p : Withdraws(j)' => Story'[j].slot # g.slot
              /\ g \in AllFills'
  <2>1. PICK b \in DOMAIN new : g = new[b]
    BY <1>18 DEF Range
  <2>2. PICK k \in DOMAIN Story' : g \in Fills(k)'
    BY <1>15, <2>1 DEF AllFills
  <2>3. g.slot = Story'[k].slot /\ Story'[k].kind = "Change"
    <3>1. Prints(k)' /\ g \in Range(Story'[k].trades)
      BY <2>2 DEF Fills
    <3>2. PICK c \in DOMAIN Story'[k].trades : g = Story'[k].trades[c]
      BY <3>1 DEF Range
    <3> QED BY <1>17, <3>1, <3>2 DEF Numbered, Prints
  <2>4. Story'[i].kind = "Change" /\ Story'[i].slot \in Nat /\ Story'[k].slot \in Nat
    <3>3a. Story'[i] \in Event /\ Story'[k] \in Event
      BY <1>13, <2>2, StoryTypeNext
    <3>3. Story'[i].kind = "Change"
      BY <1>13 DEF Prints
    <3> QED BY <2>3, <3>3a, <3>3, EventKinds DEF ChangeEvent
  <2>5. ~ (k <= i)
    <3> SUFFICES ASSUME k <= i PROVE FALSE
      OBVIOUS
    <3>1. Story'[k].slot <= Story'[i].slot
      <4>1. CASE k = i
        BY <2>4, <4>1
      <4>2. CASE k < i
        BY <1>13, <1>17, <2>3, <2>4, <4>2 DEF InTurn
      <4> QED BY <1>13, <4>1, <4>2
    <3> QED BY <1>13, <1>15, <2>1, <2>3, <2>4, <3>1
  <2>6. k \in i + 1 .. p
    BY <1>13, <2>5
  <2>7. \A j \in 1 .. p : Withdraws(j)' => Story'[j].slot # g.slot
    BY <1>13, <1>15, <1>17, <2>1 DEF WithdrawnOnce
  <2> QED BY <1>15, <2>1, <2>2, <2>6, <2>7
<1> HIDE DEF G
<1>19. Overtakes(G, p, i)'
  BY <1>14, <1>16, <1>18 DEF Overtakes
<1>20. Overtaken(p, i)'
  BY <1>18, <1>19 DEF Overtaken
<1> QED BY <1>13, <1>20

(* The last fill of a derivation is on the registry's tape. *)
LEMMA LastIsOnTape ==
  ASSUME NEW tape \in Seq(Fill), NEW trades \in Seq(Fill), trades # <<>>,
         NEW both, IsJoined(both, tape, trades)
  PROVE  \E b \in DOMAIN Newest(both) : \E a \in DOMAIN trades : Newest(both)[b] = trades[a]
<1>1. IsJoined(both, tape, trades)
  OBVIOUS
<1> PICK new : new = Newest(both)
  OBVIOUS
<1>2. /\ both \in Seq(Fill) /\ Len(both) = Len(tape) + Len(trades)
      /\ Len(tape) \in Nat /\ Len(trades) \in Nat
  BY <1>1 DEF IsJoined
<1>3. PICK cut \in 0 .. Len(both) :
        /\ new \in Seq(Fill) /\ Len(new) = Len(both) - cut
        /\ \A a \in DOMAIN new : a + cut \in DOMAIN both /\ new[a] = both[a + cut]
        /\ cut > 0 => Len(new) = TapeCapacity
  BY <1>2, NewestIs
<1>4. Len(trades) >= 1
  BY <1>2, EmptySeq
<1>5. Len(new) \in DOMAIN new /\ Len(new) + cut = Len(tape) + Len(trades) /\ Len(new) \in Nat
  BY <1>2, <1>3, <1>4, RegistryAssumption
<1>6. new[Len(new)] = both[Len(tape) + Len(trades)]
  BY <1>3, <1>5
<1>7. Len(trades) \in DOMAIN trades
  BY <1>1, <1>4 DEF IsJoined
<1>8. both[Len(tape) + Len(trades)] = trades[Len(trades)]
  BY <1>1, <1>7 DEF IsJoined
<1>9. new[Len(new)] = trades[Len(trades)]
  BY <1>6, <1>8
<1>10. \E b \in DOMAIN new : \E a \in DOMAIN trades : new[b] = trades[a]
  BY <1>5, <1>7, <1>9
<1> QED BY <1>10, Zenon

LEMMA AccountedStep ==
  ASSUME Shape, History, [Next]_vars
  PROVE  Accounted'
<1> USE DEF History
<1>1. view.tape \in Seq(Fill)
  BY DEF RegistryTape
<1>2. \A i \in DOMAIN Story :
        /\ i \in DOMAIN Story' /\ Story'[i] = Story[i]
        /\ Prints(i)' = Prints(i) /\ Withdraws(i)' = Withdraws(i)
  BY <1>1, StoryGrows
<1> DEFINE Safe(i) ==
      \/ \E a \in DOMAIN view'.tape : view'.tape[a].slot = Story'[i].slot
      \/ \E j \in DOMAIN Story' : Withdraws(j)' /\ Story'[j].slot = Story'[i].slot
      \/ \E p \in DOMAIN Story' : Overtaken(p, i)'
<1>3. ASSUME NEW i \in DOMAIN Story, Prints(i),
             (\E a \in DOMAIN view.tape : view.tape[a].slot = Story[i].slot) => Safe(i)
      PROVE  Safe(i)
  <2>1. CASE \E j \in DOMAIN Story : Withdraws(j) /\ Story[j].slot = Story[i].slot
    BY <1>2, <2>1
  <2>2. ASSUME NEW p \in DOMAIN Story, Overtaken(p, i) PROVE Safe(i)
    BY <1>1, <1>2, <2>2, OvertakenStays
  <2> HIDE DEF Safe
  <2> QED BY <1>3, <2>1, <2>2 DEF Accounted
<1>4. ASSUME \A i \in DOMAIN Story' : Prints(i)' => Safe(i) PROVE Accounted'
  BY <1>4 DEF Accounted
<1>5. CASE Derive
  <2>1. PICK e \in ChangeEvent :
          /\ Story' = Append(Story, e) /\ e \in Event /\ e.slot >= view.slot /\ e.slot \notin dead
          /\ \A a \in DOMAIN e.trades :
               /\ e.trades[a].slot = e.slot /\ e.trades[a].n = a
               /\ e.trades[a].change = Changes + 1
          /\ view'.tape = Newest(view.tape \o e.trades) /\ dead' = dead
    BY <1>5, DerivedEvent
  <2> SUFFICES ASSUME NEW i \in DOMAIN Story', Prints(i)' PROVE Safe(i)
    BY <1>4
  <2>2. CASE i \in DOMAIN Story
    <3>1. Prints(i) /\ Story'[i] = Story[i]
      BY <1>2, <2>2
    <3>2. CASE \E b \in DOMAIN view'.tape : view'.tape[b].slot = Story[i].slot
      BY <3>1, <3>2
    <3>3. CASE /\ \A b \in DOMAIN view'.tape : view'.tape[b].slot # Story[i].slot
               /\ \E a \in DOMAIN view.tape : view.tape[a].slot = Story[i].slot
      <4>1. \E p \in DOMAIN Story' : Overtaken(p, i)'
        BY <2>1, <2>2, <3>1, <3>3, PushedOff
      <4> QED BY <4>1
    <3> HIDE DEF Safe
    <3> QED BY <1>3, <2>2, <3>1, <3>2, <3>3
  <2>3. CASE i \notin DOMAIN Story
    <3>1. Story'[i] = e
      BY <2>1, <2>3, StoryAppends
    <3>2. e.trades # <<>> /\ e.trades \in Seq(Fill)
      BY <3>1 DEF Prints, ChangeEvent
    <3>3. \E b \in DOMAIN view'.tape : view'.tape[b].slot = e.slot
      <4>1. IsJoined(view.tape \o e.trades, view.tape, e.trades)
        BY <1>1, <3>2, Joined, Zenon
      <4>2. \E both : IsJoined(both, view.tape, e.trades) /\ view'.tape = Newest(both)
        BY <2>1, <4>1, Zenon
      <4>3. PICK both : IsJoined(both, view.tape, e.trades) /\ view'.tape = Newest(both)
        BY <4>2
      <4>4. \A a \in DOMAIN e.trades : e.trades[a].slot = e.slot
        BY <2>1
      <4>5. \E b \in DOMAIN Newest(both) : \E a \in DOMAIN e.trades : Newest(both)[b] = e.trades[a]
        BY <1>1, <3>2, <4>3, LastIsOnTape
      <4> QED BY <4>3, <4>4, <4>5
    <3> QED BY <3>1, <3>3
  <2> QED BY <2>2, <2>3
<1>6. ASSUME \A i \in DOMAIN Story' : Prints(i)' => i \in DOMAIN Story,
             \A i \in DOMAIN Story :
               (\E a \in DOMAIN view.tape : view.tape[a].slot = Story[i].slot) => Safe(i)
      PROVE  Accounted'
  <2> HIDE DEF Safe
  <2>1. \A i \in DOMAIN Story' : Prints(i)' => Safe(i)
    BY <1>2, <1>3, <1>6
  <2> QED BY <1>4, <2>1
<1>7. CASE Abandon
  <2>1. PICK slot \in 1 .. MaxSlot :
          /\ view'.tape = SurvivesSlot(view.tape, slot)
          /\ IF Len(SurvivesSlot(view.tape, slot)) = Len(view.tape)
             THEN Story' = Story
             ELSE \E e \in RetractedEvent :
                    Story' = Append(Story, e) /\ e.slot = slot /\ e \in Event
    BY <1>1, <1>7, AbandonedEvent
  <2> PICK kept : kept = SurvivesSlot(view.tape, slot)
    OBVIOUS
  <2>2. IsWithout(kept, view.tape, slot)
    BY <1>1, WithoutSlot, Zenon DEF SurvivesSlot
  <2>3. view'.tape = kept
    BY <2>1
  <2>4. \A i \in DOMAIN Story' : Prints(i)' => i \in DOMAIN Story
    <3>1. CASE Story' = Story
      BY <3>1
    <3>2. ASSUME NEW e \in RetractedEvent, Story' = Append(Story, e), e \in Event
          PROVE  \A i \in DOMAIN Story' : Prints(i)' => i \in DOMAIN Story
      BY <3>2, StoryAppends DEF Prints, RetractedEvent
    <3> QED BY <2>1, <3>1, <3>2
  <2>5. ASSUME NEW i \in DOMAIN Story, NEW a \in DOMAIN view.tape, view.tape[a].slot = Story[i].slot
        PROVE  Safe(i)
    <3>1. CASE Story[i].slot = slot
      <4>1. Len(kept) < Len(view.tape) /\ Len(kept) \in Nat
        BY <2>2, <2>5, <3>1 DEF IsWithout
      <4>2. Len(kept) # Len(view.tape)
        BY <1>1, <4>1
      <4>3. PICK e \in RetractedEvent : Story' = Append(Story, e) /\ e.slot = slot /\ e \in Event
        BY <2>1, <4>2
      <4>4. PICK last \in DOMAIN Story' : Story'[last] = e
        BY <4>3, StoryAppends, StoryType
      <4>5. Withdraws(last)' /\ Story'[last].slot = Story'[i].slot
        BY <1>2, <3>1, <4>3, <4>4 DEF Withdraws, RetractedEvent
      <4> QED BY <4>4, <4>5
    <3>2. CASE Story[i].slot # slot
      <4>1. PICK b \in DOMAIN kept : kept[b] = view.tape[a]
        BY <2>2, <2>5, <3>2 DEF IsWithout
      <4> QED BY <1>2, <2>3, <2>5, <4>1
    <3> QED BY <3>1, <3>2
  <2> HIDE DEF Safe
  <2> QED BY <1>6, <2>4, <2>5
<1>8. ASSUME view'.tape = view.tape,
             \A i \in DOMAIN Story' : Prints(i)' => i \in DOMAIN Story
      PROVE  Accounted'
  <2>1. ASSUME NEW i \in DOMAIN Story,
               \E a \in DOMAIN view.tape : view.tape[a].slot = Story[i].slot
        PROVE  Safe(i)
    BY <1>2, <1>8, <2>1
  <2> HIDE DEF Safe
  <2> QED BY <1>6, <1>8, <2>1
<1>9. ASSUME NEW e \in OtherEvent, Story' = Append(Story, e), e \in Event, view'.tape = view.tape
      PROVE  Accounted'
  <2>1. \A i \in DOMAIN Story' : Prints(i)' => i \in DOMAIN Story
    BY <1>9, StoryAppends DEF Prints, OtherEvent
  <2> QED BY <1>8, <1>9, <2>1
<1>10. CASE Story' = Story /\ view'.tape = view.tape
  BY <1>8, <1>10
<1> HIDE DEF Safe
<1> QED BY <1>5, <1>7, <1>9, <1>10, StoryCases

LEMMA HistoryStep ==
  ASSUME Shape, History, [Next]_vars
  PROVE  History'
BY NumberedStep, InTurnStep, WithdrawnOnceStep, RegistryTapeStep, AccountedStep DEF History

LEMMA HistoryInit ==
  ASSUME Init
  PROVE  History
<1>1. log = <<>> /\ unsent = <<>> /\ view.tape = <<>>
  BY DEF Init, SeedView, NewView, NoView
<1>2. Story = <<>> /\ DOMAIN Story = {}
  BY <1>1 DEF Story
<1>3. view.tape \in Seq(Fill) /\ Len(view.tape) = 0 /\ DOMAIN view.tape = {}
  BY <1>1
<1>4. RegistryTape
  BY <1>3, RegistryAssumption DEF RegistryTape
<1> QED BY <1>2, <1>4 DEF History, Numbered, InTurn, WithdrawnOnce, Accounted

-----------------------------------------------------------------------------
(* The frames on their way, and the fills on the screen, are those of      *)
(* events, in order.                                                       *)

(* The frame of an event that has an effect on tapes. *)
IsFrameOf(m, i) ==
  \/ m.kind = "Update" /\ Prints(i) /\ m.trades = Story[i].trades
  \/ m.kind = "Retract" /\ Withdraws(i) /\ m.slot = Story[i].slot

Effective(m) == m.kind = "Retract" \/ (m.kind = "Update" /\ m.trades # <<>>)

(* Events the socket's task is past. *)
Past == {i \in DOMAIN log : Subscribed => i < server.next}

QueueInTurn ==
  /\ \A n \in DOMAIN Pipe : Effective(Pipe[n]) => \E i \in Past : IsFrameOf(Pipe[n], i)
  /\ \A n, k \in DOMAIN Pipe : \A i, j \in DOMAIN Story :
       n < k /\ IsFrameOf(Pipe[n], i) /\ IsFrameOf(Pipe[k], j) => i < j

ScreenTape ==
  /\ feed.tape \in Seq(Fill) /\ Len(feed.tape) <= ViewerTape
  /\ \A n \in DOMAIN feed.tape : \E i \in Past : feed.tape[n] \in Fills(i)
  /\ \A n \in DOMAIN feed.tape : \A i, j \in DOMAIN Story : \A k \in DOMAIN Pipe :
       feed.tape[n] \in Fills(i) /\ IsFrameOf(Pipe[k], j) => i < j
  /\ TapeIsOrdered

LEMMA PastIs ==
  ASSUME Shape, NEW i \in Past
  PROVE  i \in DOMAIN Story /\ Story[i] = log[i] /\ i \in Nat /\ (Subscribed => i < server.next)
BY StoryType DEF Past

(* A frame is that of one event. *)
LEMMA FrameOnce ==
  ASSUME Shape, History, NEW i \in DOMAIN Story, NEW j \in DOMAIN Story,
         NEW m, IsFrameOf(m, i), IsFrameOf(m, j)
  PROVE  i = j
<1>1. CASE m.kind = "Update"
  <2>1. Prints(i) /\ Prints(j) /\ Story[i].trades = Story[j].trades
    BY <1>1 DEF IsFrameOf
  <2>2. Story[i] \in ChangeEvent /\ Story[j] \in ChangeEvent
    BY <2>1, StoryType, EventKinds DEF Prints
  <2>3. 1 \in DOMAIN Story[i].trades
    BY <2>1, <2>2 DEF Prints, ChangeEvent
  <2>4. Story[i].trades[1] \in Fills(i) /\ Story[i].trades[1] \in Fills(j)
    BY <2>1, <2>3 DEF Fills, Range
  <2> QED BY <2>4, FillOnce DEF History
<1>2. CASE m.kind # "Update"
  BY <1>2 DEF IsFrameOf, History, WithdrawnOnce
<1> QED BY <1>1, <1>2

LEMMA FramesStay ==
  ASSUME Shape, History, [Next]_vars, NEW i \in DOMAIN Story, NEW m
  PROVE  IsFrameOf(m, i)' <=> IsFrameOf(m, i)
BY StoryGrows DEF IsFrameOf, History, RegistryTape

(* The same, one step later. *)
LEMMA FrameOnceNext ==
  ASSUME Shape, History, [Next]_vars, NEW i \in DOMAIN Story, NEW k \in DOMAIN Story',
         NEW m, IsFrameOf(m, i), IsFrameOf(m, k)'
  PROVE  k = i
<1>1. History'
  BY HistoryStep
<1>2. IsFrameOf(m, i)' /\ i \in DOMAIN Story'
  BY FramesStay, StoryGrows DEF History, RegistryTape
<1>3. CASE m.kind = "Update"
  <2>1. Prints(i)' /\ Prints(k)' /\ Story'[i].trades = Story'[k].trades
    BY <1>2, <1>3 DEF IsFrameOf
  <2>2. Story'[i] \in ChangeEvent /\ Story'[k] \in ChangeEvent
    BY <1>2, <2>1, StoryTypeNext, EventKinds DEF Prints
  <2>3. 1 \in DOMAIN Story'[i].trades /\ 1 \in DOMAIN Story'[k].trades
    BY <2>1, <2>2 DEF Prints, ChangeEvent
  <2>4. Story'[i].trades[1] \in Fills(i)' /\ Story'[i].trades[1] \in Fills(k)'
    BY <2>1, <2>3 DEF Fills, Range
  <2>5. Story'[i].trades[1] \in Fill
    BY <2>2, <2>3 DEF ChangeEvent
  <2>6. ~ (i < k) /\ ~ (k < i)
    BY <1>1, <1>2, <2>1, <2>4, <2>5 DEF History, InTurn, Prints, Fill
  <2> QED BY <1>2, <2>6, StoryTypeNext
<1>4. CASE m.kind # "Update"
  BY <1>1, <1>2, <1>4 DEF IsFrameOf, History, WithdrawnOnce
<1> QED BY <1>3, <1>4

LEMMA LogGrows ==
  ASSUME Shape, [Next]_vars
  PROVE  \A i \in DOMAIN log : i \in DOMAIN log' /\ log'[i] = log[i]
<1>1. CASE UNCHANGED log
  BY <1>1
<1>2. CASE Broadcast
  <2>1. log' = Append(log, Head(unsent)) /\ Head(unsent) \in Event /\ log \in Seq(Event)
    BY <1>2, Shifted DEF Broadcast, Shape
  <2> QED BY <2>1
<1>3. CASE OtherMarket
  <2>1. log' = Append(log, [kind |-> "Other"]) /\ [kind |-> "Other"] \in Event
    BY <1>3 DEF OtherMarket, Event, OtherEvent
  <2>2. log \in Seq(Event)
    BY DEF Shape
  <2> QED BY <2>1, <2>2
<1> QED
  BY <1>1, <1>2, <1>3, ForwardCases, LagCases
     DEF Next, Ingest, Derive, Finalize, Abandon, Connect, SendSnapshot, ReadFrame, Break, Handle,
         ingest, vars

LEMMA PastStep ==
  ASSUME Shape, [Next]_vars
  PROVE  Past \subseteq Past'
<1> SUFFICES ASSUME NEW i \in Past, Subscribed' PROVE i < server'.next
  BY LogGrows DEF Past
<1>1. i \in DOMAIN log /\ i \in Nat /\ i <= Len(log) /\ Len(log) \in Nat /\ (Subscribed => i < server.next)
  BY DEF Past, Shape
<1>2. CASE Connect
  BY <1>1, <1>2 DEF Connect
<1>3. CASE Forward
  <2>1. server'.next = server.next + 1 /\ Subscribed /\ server.next \in Nat
    BY <1>3, ForwardCases DEF Shape, Subscribed
  <2> QED BY <1>1, <2>1
<1>4. CASE Lag
  <2>1. server'.next = Oldest /\ Subscribed /\ server.next \in Nat /\ Oldest \in Nat
    BY <1>4, LagCases DEF Shape, Subscribed
  <2>2. server.next < Oldest
    BY <1>4 DEF Lag
  <2> QED BY <1>1, <2>1, <2>2
<1>5. CASE server' = server
  BY <1>1, <1>5 DEF Subscribed
<1>6. CASE SendSnapshot
  <2>1. Subscribed /\ server'.next = server.next
    BY <1>6 DEF SendSnapshot, Subscribed, Shape
  <2> QED BY <1>1, <2>1
<1>7. CASE Drop
  BY <1>7 DEF Drop, NoServer, Subscribed
<1> QED
  BY <1>2, <1>3, <1>4, <1>5, <1>6, <1>7
     DEF Next, Ingest, Derive, Broadcast, OtherMarket, Finalize, Abandon, ReadFrame, Break, Handle,
         session, vars

(* What the socket's task forwards is the frame of the event it comes to.  *)
LEMMA ForwardedFrame ==
  ASSUME Shape, History, Forward
  PROVE  /\ server.next \in DOMAIN Story /\ server.next \in Nat
         /\ Effect(server.next) => /\ Shows(log[server.next])
                                   /\ IsFrameOf(Frame(log[server.next]), server.next)
         /\ Shows(log[server.next]) /\ Effective(Frame(log[server.next])) => Effect(server.next)
<1>1. server.next \in DOMAIN log /\ log[server.next] \in Event /\ server.next \in Nat
  BY ForwardCases DEF Shape
<1>2. server.next \in DOMAIN Story /\ Story[server.next] = log[server.next]
  BY <1>1, StoryType
<1> PICK i \in DOMAIN Story : i = server.next
  BY <1>2
<1> PICK event : event = log[i]
  OBVIOUS
<1>3. Story[i] = event /\ event \in Event
  BY <1>1, <1>2
<1>4. CASE event.kind = "Change"
  <2>1. event \in ChangeEvent
    BY <1>3, <1>4, EventKinds
  <2>2. Frame(event) = Update(event)
    BY <1>4 DEF Frame
  <2>3. Frame(event).kind = "Update" /\ Frame(event).trades = event.trades
    BY <2>2 DEF Update
  <2>4. Prints(i) <=> event.trades # <<>>
    BY <1>3, <1>4 DEF Prints
  <2>5. Prints(i) => Shows(event)
    BY <1>3, <1>4, <2>4 DEF Shows, History, Numbered
  <2>6. ~ Withdraws(i)
    BY <1>3, <1>4 DEF Withdraws
  <2>7. Effect(i) => Shows(event) /\ IsFrameOf(Frame(event), i)
    BY <1>3, <2>3, <2>5, <2>6 DEF Effect, IsFrameOf
  <2>8. Effective(Frame(event)) => Effect(i)
    BY <2>3, <2>4 DEF Effective, Effect
  <2> QED BY <1>1, <1>2, <2>7, <2>8
<1>5. CASE event.kind = "Retracted"
  <2>1. Frame(event).kind = "Retract" /\ Frame(event).slot = event.slot
    BY <1>5 DEF Frame
  <2>2. Withdraws(i) /\ Shows(event)
    BY <1>3, <1>5 DEF Withdraws, Shows
  <2>3. IsFrameOf(Frame(event), i) /\ Effect(i)
    BY <1>3, <2>1, <2>2 DEF IsFrameOf, Effect
  <2> QED BY <1>1, <1>2, <2>2, <2>3
<1>6. CASE event.kind = "Other"
  <2>1. ~ Effect(i) /\ ~ Shows(event)
    BY <1>3, <1>6 DEF Effect, Prints, Withdraws, Shows
  <2> QED BY <1>1, <1>2, <2>1
<1> QED BY <1>3, <1>4, <1>5, <1>6, EventKinds

(* A new frame has an effect only if it is that of the next event.         *)
LEMMA SentFrame ==
  ASSUME Shape, History, Real, [Next]_vars
  PROVE  \/ Stays \/ Cut \/ Shown
         \/ \E m : Sent(m) /\ ~ Effective(m)
         \/ \E m : \E i \in Past' :
              /\ Sent(m) /\ i \in DOMAIN Story /\ IsFrameOf(m, i)
              /\ \A k \in Past : k < i
<1>1. ~ Effective(Snapshot(view)) /\ ~ Effective(LagNotice)
  BY DEF Effective, Snapshot, LagNotice
<1>2. ASSUME Forward, Shows(log[server.next]), Sent(Frame(log[server.next])),
             Effective(Frame(log[server.next]))
      PROVE  \E m : \E i \in Past' :
              /\ Sent(m) /\ i \in DOMAIN Story /\ IsFrameOf(m, i)
              /\ \A k \in Past : k < i
  <2>1. server.next \in DOMAIN Story /\ IsFrameOf(Frame(log[server.next]), server.next)
    BY <1>2, ForwardedFrame
  <2>2. Subscribed /\ server.next \in DOMAIN log' /\ server'.next = server.next + 1
        /\ server.next \in Nat
    BY <1>2, ForwardCases, LogGrows DEF Subscribed, Shape
  <2>3. server.next \in Past'
    BY <2>2 DEF Past
  <2>4. \A k \in Past : k < server.next
    BY <2>2 DEF Past
  <2> QED BY <1>2, <2>1, <2>3, <2>4
<1> QED BY <1>1, <1>2, QueueStep

LEMMA QueueInTurnStep ==
  ASSUME Shape, History, Real, QueueInTurn, [Next]_vars
  PROVE  QueueInTurn'
<1>1. Shape' /\ History' /\ Past \subseteq Past'
  BY ShapeStep, HistoryStep, PastStep
<1>2. \A i \in DOMAIN Story : i \in DOMAIN Story' /\ \A m : IsFrameOf(m, i)' <=> IsFrameOf(m, i)
  BY StoryGrows, FramesStay DEF History, RegistryTape
<1>3. \A i \in Past : i \in DOMAIN Story
  BY PastIs
<1>4. ASSUME NEW m, NEW i \in DOMAIN Story, IsFrameOf(m, i), NEW k \in DOMAIN Story', IsFrameOf(m, k)'
      PROVE  k = i
  BY <1>1, <1>2, <1>4, FrameOnceNext
<1>5. ASSUME \A n \in DOMAIN Pipe' : \E k \in DOMAIN Pipe : Pipe'[n] = Pipe[k],
             \A n, k \in DOMAIN Pipe' : n < k =>
               \E a, b \in DOMAIN Pipe : a < b /\ Pipe'[n] = Pipe[a] /\ Pipe'[k] = Pipe[b]
      PROVE  QueueInTurn'
  <2>1. \A n \in DOMAIN Pipe' : Effective(Pipe'[n]) => \E i \in Past' : IsFrameOf(Pipe[n], i)'
    BY <1>1, <1>2, <1>3, <1>5 DEF QueueInTurn
  <2>2. ASSUME NEW n \in DOMAIN Pipe', NEW k \in DOMAIN Pipe', n < k,
               NEW i \in DOMAIN Story', NEW j \in DOMAIN Story',
               IsFrameOf(Pipe[n], i)', IsFrameOf(Pipe[k], j)'
        PROVE  i < j
    <3>1. PICK a \in DOMAIN Pipe, b \in DOMAIN Pipe :
            a < b /\ Pipe'[n] = Pipe[a] /\ Pipe'[k] = Pipe[b]
      BY <1>5, <2>2
    <3>2. Effective(Pipe[a]) /\ Effective(Pipe[b])
      BY <2>2, <3>1 DEF IsFrameOf, Effective, Prints
    <3>3. PICK p \in Past : IsFrameOf(Pipe[a], p)
      BY <3>2 DEF QueueInTurn
    <3>4. PICK q \in Past : IsFrameOf(Pipe[b], q)
      BY <3>2 DEF QueueInTurn
    <3>5. p < q
      BY <1>3, <3>1, <3>3, <3>4 DEF QueueInTurn
    <3>6. i = p /\ j = q
      BY <1>3, <1>4, <2>2, <3>1, <3>3, <3>4
    <3> QED BY <3>5, <3>6
  <2> QED BY <2>1, <2>2 DEF QueueInTurn
<1>6. CASE Stays
  BY <1>5, <1>6 DEF Stays
<1>7. CASE Cut
  BY <1>1, <1>5, <1>7, QueueCut
<1>8. CASE Shown
  <2>1. DOMAIN Pipe' \subseteq Nat
    BY <1>8, QueueTail, PipeType
  <2> QED BY <1>5, <1>8, <2>1, QueueTail
<1>9. ASSUME NEW m, Sent(m),
             Effective(m) => \E i \in Past' : i \in DOMAIN Story /\ IsFrameOf(m, i) /\ \A k \in Past : k < i
      PROVE  QueueInTurn'
  <2> PICK last \in Nat : last = Len(Pipe) + 1
    BY PipeType
  <2>0. /\ DOMAIN Pipe' = 1 .. last /\ DOMAIN Pipe = 1 .. last - 1 /\ Pipe'[last] = m
        /\ \A n \in DOMAIN Pipe : n \in DOMAIN Pipe' /\ Pipe'[n] = Pipe[n]
    BY <1>9, QueueGrows
  <2>1. ASSUME NEW n \in DOMAIN Pipe', Effective(Pipe'[n])
        PROVE  \E i \in Past' : IsFrameOf(Pipe[n], i)'
    <3>1. CASE n \in DOMAIN Pipe
      BY <1>1, <1>2, <1>3, <2>0, <2>1, <3>1 DEF QueueInTurn
    <3>2. CASE n = last
      BY <1>2, <1>9, <2>0, <2>1, <3>2
    <3> QED BY <2>0, <3>1, <3>2
  <2>2. ASSUME NEW n \in DOMAIN Pipe', NEW k \in DOMAIN Pipe', n < k,
               NEW i \in DOMAIN Story', NEW j \in DOMAIN Story',
               IsFrameOf(Pipe[n], i)', IsFrameOf(Pipe[k], j)'
        PROVE  i < j
    <3>1. n \in DOMAIN Pipe /\ Pipe'[n] = Pipe[n] /\ (k \in DOMAIN Pipe \/ k = last)
      BY <2>0, <2>2
    <3>2. Effective(Pipe[n]) /\ Effective(Pipe'[k])
      BY <2>2, <3>1 DEF IsFrameOf, Effective, Prints
    <3>3. PICK p \in Past : IsFrameOf(Pipe[n], p)
      BY <3>1, <3>2 DEF QueueInTurn
    <3>4. i = p
      BY <1>3, <1>4, <2>2, <3>1, <3>3
    <3>5. CASE k \in DOMAIN Pipe
      <4>1. PICK q \in Past : IsFrameOf(Pipe[k], q)
        BY <2>0, <3>2, <3>5 DEF QueueInTurn
      <4>2. p < q
        BY <1>3, <2>2, <3>1, <3>3, <3>5, <4>1 DEF QueueInTurn
      <4>3. j = q
        BY <1>3, <1>4, <2>0, <2>2, <3>5, <4>1
      <4> QED BY <3>4, <4>2, <4>3
    <3>6. CASE k = last
      <4>1. PICK q \in Past' : q \in DOMAIN Story /\ IsFrameOf(m, q) /\ \A l \in Past : l < q
        BY <1>9, <2>0, <3>2, <3>6
      <4>2. j = q
        BY <1>4, <2>0, <2>2, <3>6, <4>1
      <4> QED BY <3>4, <4>1, <4>2
    <3> QED BY <3>1, <3>5, <3>6
  <2> QED BY <2>1, <2>2 DEF QueueInTurn
<1> QED BY <1>6, <1>7, <1>8, <1>9, SentFrame

-----------------------------------------------------------------------------
(* What a frame does to the tape. *)

(* The new tape is the top of the fills and the tape joined. *)
IsTopOf(new, trades, tape) ==
  /\ new \in Seq(Fill) /\ Len(new) \in Nat /\ Len(new) <= ViewerTape
  /\ DOMAIN new = 1 .. Len(new)
  /\ \A n \in DOMAIN new :
       \/ n \in DOMAIN trades /\ new[n] = trades[n]
       \/ n > Len(trades) /\ n - Len(trades) \in DOMAIN tape /\ new[n] = tape[n - Len(trades)]
  /\ \A n \in DOMAIN trades : n \in DOMAIN new \/ Len(new) = ViewerTape
  /\ \A n \in DOMAIN trades : n \in DOMAIN new => new[n] = trades[n]
  /\ \A n \in DOMAIN tape : Len(trades) + n \in DOMAIN new \/ Len(new) = ViewerTape
  /\ \A n \in DOMAIN tape : Len(trades) + n \in DOMAIN new => new[Len(trades) + n] = tape[n]

LEMMA PrintedIs ==
  ASSUME NEW tape \in Seq(Fill), NEW trades \in Seq(Fill)
  PROVE  IsTopOf(Printed(tape, trades), trades, tape)
<1> PICK both : both = trades \o tape
  OBVIOUS
<1>1. IsJoined(both, trades, tape)
  BY Joined, Zenon
<1> PICK new : new = Truncated(both)
  OBVIOUS
<1>2. both \in Seq(Fill) /\ Len(both) \in Nat /\ DOMAIN both = 1 .. Len(both)
  BY <1>1 DEF IsJoined
<1> PICK size : size = IF Len(both) < ViewerTape THEN Len(both) ELSE ViewerTape
  OBVIOUS
<1>3. size \in 0 .. Len(both) /\ size <= ViewerTape /\ (size = Len(both) \/ size = ViewerTape)
  BY <1>2, ViewerAssumption
<1>4. new = SubSeq(both, 1, size)
  BY DEF Truncated
<1>5. /\ new \in Seq(Fill) /\ Len(new) = size /\ DOMAIN new = 1 .. size
      /\ \A n \in 1 .. size : new[n] = both[n]
  BY <1>2, <1>3, <1>4
<1>6. /\ Len(trades) \in Nat /\ Len(tape) \in Nat /\ Len(both) = Len(trades) + Len(tape)
      /\ DOMAIN trades = 1 .. Len(trades) /\ DOMAIN tape = 1 .. Len(tape)
  BY <1>1 DEF IsJoined
<1>7. \A n \in DOMAIN new :
       \/ n \in DOMAIN trades /\ new[n] = trades[n]
       \/ n > Len(trades) /\ n - Len(trades) \in DOMAIN tape /\ new[n] = tape[n - Len(trades)]
  BY <1>1, <1>2, <1>3, <1>5 DEF IsJoined
<1>8. \A n \in DOMAIN trades : n \in DOMAIN new \/ Len(new) = ViewerTape
  BY <1>3, <1>5, <1>6
<1>9. \A n \in DOMAIN trades : n \in DOMAIN new => new[n] = trades[n]
  BY <1>1, <1>5 DEF IsJoined
<1>10. \A n \in DOMAIN tape : Len(trades) + n \in DOMAIN new \/ Len(new) = ViewerTape
  BY <1>3, <1>5, <1>6
<1>11. \A n \in DOMAIN tape : Len(trades) + n \in DOMAIN new => new[Len(trades) + n] = tape[n]
  BY <1>1, <1>5 DEF IsJoined
<1>12. Len(new) \in Nat /\ Len(new) <= ViewerTape /\ DOMAIN new = 1 .. Len(new)
  BY <1>3, <1>5
<1>13. IsTopOf(new, trades, tape)
  BY <1>5, <1>7, <1>8, <1>9, <1>10, <1>11, <1>12 DEF IsTopOf
<1>14. Printed(tape, trades) = new
  BY Zenon DEF Printed
<1> QED BY <1>13, <1>14

(* The tape after a frame is shown. *)
LEMMA ShownTape ==
  ASSUME Shape, feed.tape \in Seq(Fill), Shown
  PROVE  \/ /\ Head(Pipe).kind = "Update" /\ Head(Pipe).trades \in Seq(Fill)
            /\ IsTopOf(feed'.tape, Head(Pipe).trades, feed.tape)
         \/ /\ Head(Pipe).kind = "Retract"
            /\ IsWithout(feed'.tape, feed.tape, Head(Pipe).slot)
         \/ ~ Effective(Head(Pipe)) /\ feed'.tape = feed.tape
<1> PICK m : m = Head(Pipe)
  OBVIOUS
<1>1. m \in Frames /\ feed' = Apply(feed, m) /\ DOMAIN feed = FeedFields
  BY QueueTail, FieldNames DEF Shown, Shape, FeedShape
<1>2. CASE m.kind = "Update"
  <2>1. m.trades \in Seq(Fill)
    BY <1>1, <1>2, FrameKinds DEF UpdateFrame
  <2>2. feed' = ApplyUpdate(feed, m)
    BY <1>1, <1>2 DEF Apply
  <2>3. feed'.tape = Printed(feed.tape, m.trades)
    BY <1>1, <2>2 DEF ApplyUpdate, FeedFields
  <2> QED BY <1>2, <2>1, <2>3, PrintedIs
<1>3. CASE m.kind = "Retract"
  <2> PICK kept : kept = Sublist(feed.tape, {n \in DOMAIN feed.tape : feed.tape[n].slot # m.slot})
    OBVIOUS
  <2>1. feed' = ApplyRetract(feed, m)
    BY <1>1, <1>3 DEF Apply
  <2>2. feed'.tape = kept
    BY <1>1, <2>1 DEF ApplyRetract, FeedFields
  <2>3. IsWithout(kept, feed.tape, m.slot)
    BY WithoutSlot, Zenon
  <2> QED BY <1>3, <2>2, <2>3
<1>4. CASE m.kind = "Snapshot"
  BY <1>1, <1>4 DEF Apply, ApplySnapshot, FeedFields, Effective
<1>5. CASE m.kind = "Lagged"
  BY <1>1, <1>5 DEF Apply, ApplyLagged, FeedFields, Effective
<1> QED BY <1>1, <1>2, <1>3, <1>4, <1>5, FrameKinds

LEMMA FillOnceNext ==
  ASSUME Shape, History, [Next]_vars, NEW i \in DOMAIN Story, NEW k \in DOMAIN Story',
         NEW t, t \in Fills(i), t \in Fills(k)'
  PROVE  k = i
<1>1. History'
  BY HistoryStep
<1>2. t \in Fills(i)' /\ i \in DOMAIN Story'
  BY StoryGrows DEF History, RegistryTape
<1>3. t \in Fill /\ t.change \in Nat
  BY FillIs DEF History, Fill
<1>4. Prints(i)' /\ Prints(k)'
  BY <1>2 DEF Fills
<1>5. ~ (i < k) /\ ~ (k < i)
  BY <1>1, <1>2, <1>3, <1>4 DEF History, InTurn, Prints
<1> QED BY <1>2, <1>5, StoryTypeNext

LEMMA ScreenTapeStep ==
  ASSUME Shape, History, Real, QueueInTurn, ScreenTape, [Next]_vars
  PROVE  ScreenTape'
<1>1. Shape' /\ Past \subseteq Past'
  BY ShapeStep, PastStep
<1>2. \A i \in DOMAIN Story : i \in DOMAIN Story' /\ Fills(i)' = Fills(i)
  BY StoryGrows DEF History, RegistryTape
<1>3. \A i \in Past : i \in DOMAIN Story /\ i \in Nat
  BY PastIs
<1> DEFINE Placed(t) ==
      \E i \in Past' : /\ i \in DOMAIN Story /\ t \in Fills(i)
                       /\ \A k \in DOMAIN Pipe' : Effective(Pipe'[k]) =>
                            \E j \in DOMAIN Story : IsFrameOf(Pipe'[k], j) /\ i < j
<1>4. ASSUME feed'.tape \in Seq(Fill), Len(feed'.tape) <= ViewerTape, TapeIsOrdered',
             \A n \in DOMAIN feed'.tape : Placed(feed'.tape[n])
      PROVE  ScreenTape'
  <2>1. ASSUME NEW n \in DOMAIN feed'.tape
        PROVE  \E i \in Past' : feed'.tape[n] \in Fills(i)'
    BY <1>2, <1>4, <2>1
  <2>2. ASSUME NEW n \in DOMAIN feed'.tape, NEW i \in DOMAIN Story', NEW j \in DOMAIN Story',
               NEW k \in DOMAIN Pipe', feed'.tape[n] \in Fills(i)', IsFrameOf(Pipe[k], j)'
        PROVE  i < j
    <3>1. PICK p \in Past' :
            /\ p \in DOMAIN Story /\ feed'.tape[n] \in Fills(p)
            /\ \A l \in DOMAIN Pipe' : Effective(Pipe'[l]) =>
                 \E q \in DOMAIN Story : IsFrameOf(Pipe'[l], q) /\ p < q
      BY <1>4, <2>2
    <3>2. Effective(Pipe'[k])
      BY <2>2 DEF IsFrameOf, Effective, Prints
    <3>3. PICK q \in DOMAIN Story : IsFrameOf(Pipe'[k], q) /\ p < q
      BY <2>2, <3>1, <3>2
    <3>4. i = p
      BY <2>2, <3>1, FillOnceNext
    <3>5. j = q
      BY <2>2, <3>3, FrameOnceNext
    <3> QED BY <3>3, <3>4, <3>5
  <2> QED BY <1>4, <2>1, <2>2 DEF ScreenTape
<1>5. ASSUME NEW n \in DOMAIN feed.tape,
             \A k \in DOMAIN Pipe' : \E l \in DOMAIN Pipe : Pipe'[k] = Pipe[l]
      PROVE  Placed(feed.tape[n])
  <2>1. PICK i \in Past : feed.tape[n] \in Fills(i)
    BY <1>5 DEF ScreenTape
  <2>2. ASSUME NEW k \in DOMAIN Pipe', Effective(Pipe'[k])
        PROVE  \E j \in DOMAIN Story : IsFrameOf(Pipe'[k], j) /\ i < j
    <3>1. PICK l \in DOMAIN Pipe : Pipe'[k] = Pipe[l]
      BY <1>5, <2>2
    <3>2. PICK j \in Past : IsFrameOf(Pipe[l], j)
      BY <2>2, <3>1 DEF QueueInTurn
    <3> QED BY <1>3, <1>5, <2>1, <3>1, <3>2 DEF ScreenTape
  <2> QED BY <1>1, <1>3, <2>1, <2>2
<1>6. ASSUME feed' = feed, \A k \in DOMAIN Pipe' : \E l \in DOMAIN Pipe : Pipe'[k] = Pipe[l]
      PROVE  ScreenTape'
  <2>1. \A n \in DOMAIN feed'.tape : Placed(feed'.tape[n])
    BY <1>5, <1>6
  <2> HIDE DEF Placed
  <2> QED BY <1>4, <1>6, <2>1 DEF ScreenTape, TapeIsOrdered
<1>7. ASSUME NEW m, Sent(m),
             Effective(m) => \E i \in Past' : i \in DOMAIN Story /\ IsFrameOf(m, i) /\ \A k \in Past : k < i
      PROVE  ScreenTape'
  <2>1. ASSUME NEW n \in DOMAIN feed.tape PROVE Placed(feed.tape[n])
    <3>1. PICK i \in Past : feed.tape[n] \in Fills(i)
      BY <2>1 DEF ScreenTape
    <3>2. ASSUME NEW k \in DOMAIN Pipe', Effective(Pipe'[k])
          PROVE  \E j \in DOMAIN Story : IsFrameOf(Pipe'[k], j) /\ i < j
      <4>1. CASE k \in DOMAIN Pipe
        <5>1. PICK j \in Past : IsFrameOf(Pipe[k], j)
          BY <1>7, <3>2, <4>1, QueueGrows DEF QueueInTurn
        <5> QED BY <1>3, <1>7, <2>1, <3>1, <4>1, <5>1, QueueGrows DEF ScreenTape
      <4>2. CASE k \notin DOMAIN Pipe
        <5>1. Pipe'[k] = m
          BY <1>7, <3>2, <4>2, QueueGrows
        <5> QED BY <1>7, <3>1, <3>2, <5>1
      <4> QED BY <4>1, <4>2
    <3> QED BY <1>1, <1>3, <3>1, <3>2
  <2> HIDE DEF Placed
  <2>2. feed' = feed
    BY <1>7 DEF Sent
  <2> QED BY <1>4, <2>1, <2>2 DEF ScreenTape, TapeIsOrdered
<1>8. CASE Shown
  <2>1. /\ Head(Pipe) = Pipe[1] /\ 1 \in DOMAIN Pipe /\ DOMAIN Pipe' \subseteq Nat
        /\ \A n \in DOMAIN Pipe' : n + 1 \in DOMAIN Pipe /\ Pipe'[n] = Pipe[n + 1]
    BY <1>8, QueueTail, PipeType
  <2>2. \A n \in DOMAIN feed.tape : Placed(feed.tape[n])
    BY <1>5, <2>1
  <2>3. \A n \in DOMAIN feed.tape : feed.tape[n] \in Fill
    BY DEF ScreenTape
  <2>4. CASE ~ Effective(Head(Pipe)) /\ feed'.tape = feed.tape
    <3> HIDE DEF Placed
    <3> QED BY <1>4, <2>2, <2>4 DEF ScreenTape, TapeIsOrdered
  <2>5. CASE IsWithout(feed'.tape, feed.tape, Head(Pipe).slot)
    <3>1. PICK f \in [DOMAIN feed'.tape -> DOMAIN feed.tape] :
            /\ \A a \in DOMAIN feed'.tape : feed'.tape[a] = feed.tape[f[a]]
            /\ \A a, b \in DOMAIN feed'.tape : a < b => f[a] < f[b]
      BY <2>5 DEF IsWithout
    <3> HIDE DEF Placed
    <3>2. \A n \in DOMAIN feed'.tape : Placed(feed'.tape[n])
      BY <2>2, <3>1
    <3>3. TapeIsOrdered'
      BY <3>1 DEF ScreenTape, TapeIsOrdered
    <3>4. Len(feed'.tape) <= ViewerTape /\ feed'.tape \in Seq(Fill)
      BY <2>5, ViewerAssumption DEF IsWithout, ScreenTape
    <3> QED BY <1>4, <3>2, <3>3, <3>4
  <2>6. CASE /\ Head(Pipe).kind = "Update" /\ Head(Pipe).trades \in Seq(Fill)
             /\ IsTopOf(feed'.tape, Head(Pipe).trades, feed.tape)
             /\ Head(Pipe).trades # <<>>
    <3> PICK trades \in Seq(Fill) : trades = Pipe[1].trades
      BY <2>1, <2>6
    <3>1. PICK i \in Past : IsFrameOf(Pipe[1], i)
      BY <2>1, <2>6 DEF QueueInTurn, Effective
    <3>2. Prints(i) /\ Story[i].trades = trades /\ i \in DOMAIN Story
      BY <1>3, <2>1, <2>6, <3>1 DEF IsFrameOf
    <3>3. ASSUME NEW a \in DOMAIN trades
          PROVE  /\ trades[a] \in Fills(i) /\ trades[a].n = a /\ trades[a] \in Fill
                 /\ trades[a].change = trades[1].change
      BY <3>2, <3>3 DEF Fills, Range, History, Numbered, Prints
    <3>4. ASSUME NEW a \in DOMAIN trades PROVE Placed(trades[a])
      <4>1. ASSUME NEW k \in DOMAIN Pipe', Effective(Pipe'[k])
            PROVE  \E j \in DOMAIN Story : IsFrameOf(Pipe'[k], j) /\ i < j
        <5>1. PICK j \in Past : IsFrameOf(Pipe[k + 1], j)
          BY <2>1, <4>1 DEF QueueInTurn
        <5>2. 1 < k + 1 /\ k + 1 \in DOMAIN Pipe
          BY <1>8, <2>1, <4>1, QueueTail, PipeType
        <5> QED BY <1>3, <2>1, <3>1, <5>1, <5>2 DEF QueueInTurn
      <4> QED BY <1>1, <3>2, <3>3, <3>4, <4>1
    <3> HIDE DEF Placed
    <3>5. /\ feed'.tape \in Seq(Fill) /\ Len(feed'.tape) <= ViewerTape
          /\ DOMAIN feed'.tape \subseteq Nat /\ Len(trades) \in Nat
          /\ \A n \in DOMAIN feed'.tape :
               \/ n \in DOMAIN trades /\ feed'.tape[n] = trades[n]
               \/ /\ n > Len(trades) /\ n - Len(trades) \in DOMAIN feed.tape
                  /\ feed'.tape[n] = feed.tape[n - Len(trades)]
      BY <2>1, <2>6 DEF IsTopOf
    <3>6. \A n \in DOMAIN feed'.tape : Placed(feed'.tape[n])
      BY <2>2, <3>4, <3>5
    <3>7. ASSUME NEW a \in DOMAIN feed'.tape, NEW b \in DOMAIN feed'.tape, a < b
          PROVE  Above(feed'.tape[a], feed'.tape[b])
      <4>1. CASE b \in DOMAIN trades /\ feed'.tape[b] = trades[b]
        <5>1. a \in DOMAIN trades /\ feed'.tape[a] = trades[a]
          BY <3>5, <3>7, <4>1
        <5> QED BY <3>3, <3>7, <4>1, <5>1 DEF Above, Fill
      <4>2. ASSUME NEW c \in DOMAIN feed.tape, feed'.tape[b] = feed.tape[c], c = b - Len(trades)
            PROVE  Above(feed'.tape[a], feed'.tape[b])
        <5>1. ASSUME NEW d \in DOMAIN trades, feed'.tape[a] = trades[d]
              PROVE  Above(feed'.tape[a], feed'.tape[b])
          <6>1. PICK p \in Past : feed.tape[c] \in Fills(p)
            BY DEF ScreenTape
          <6>2. p < i
            BY <1>3, <2>1, <3>1, <3>2, <6>1 DEF ScreenTape
          <6>3. feed.tape[c].change < trades[d].change
            BY <1>3, <3>2, <3>3, <6>1, <6>2, FillOnce DEF History
          <6>4. feed.tape[c].change \in Nat /\ trades[d].change \in Nat
            BY <2>3, <3>3 DEF Fill
          <6> QED BY <4>2, <5>1, <6>3, <6>4 DEF Above
        <5>2. ASSUME NEW d \in DOMAIN feed.tape, feed'.tape[a] = feed.tape[d], d = a - Len(trades)
              PROVE  Above(feed'.tape[a], feed'.tape[b])
          <6>1. d < c
            BY <3>5, <3>7, <4>2, <5>2
          <6> QED BY <4>2, <5>2, <6>1 DEF ScreenTape, TapeIsOrdered
        <5> QED BY <3>5, <5>1, <5>2
      <4> QED BY <3>5, <4>1, <4>2
    <3> QED BY <1>4, <3>5, <3>6, <3>7 DEF TapeIsOrdered
  <2>7. CASE /\ Head(Pipe).trades = <<>>
             /\ IsTopOf(feed'.tape, Head(Pipe).trades, feed.tape)
    <3>1. /\ feed'.tape \in Seq(Fill) /\ Len(feed'.tape) <= ViewerTape
          /\ \A n \in DOMAIN feed'.tape : n \in DOMAIN feed.tape /\ feed'.tape[n] = feed.tape[n]
      BY <2>7 DEF IsTopOf
    <3> HIDE DEF Placed
    <3>2. TapeIsOrdered'
      BY <3>1 DEF TapeIsOrdered, ScreenTape
    <3> QED BY <1>4, <2>2, <3>1, <3>2
  <2>8. feed.tape \in Seq(Fill)
    BY DEF ScreenTape
  <2> QED BY <1>8, <2>4, <2>5, <2>6, <2>7, <2>8, ShownTape
<1>9. CASE Stays
  BY <1>6, <1>9 DEF Stays
<1>10. CASE Cut
  BY <1>1, <1>6, <1>10, QueueCut DEF Cut
<1> QED BY <1>7, <1>8, <1>9, <1>10, SentFrame

-----------------------------------------------------------------------------
(* What the present connection has brought, and has still to bring.        *)

(* No notice of a lag is in flight: frames are lost only with the socket.  *)
Live == Subscribed /\ \A n \in DOMAIN wire : wire[n].kind # "Lagged"

(* To be sent, or sent and not yet shown. *)
Coming(i) ==
  /\ Effect(i)
  /\ i >= server.next \/ \E n \in DOMAIN Pipe : IsFrameOf(Pipe[n], i)

(* Events since the connection was made, and their fills. *)
Recent == {i \in DOMAIN Story : i > since}
RecentFills == UNION {Fills(i) : i \in Recent}

(* More fills than a terminal keeps. *)
Crowded == \E G \in SUBSET RecentFills : IsFiniteSet(G) /\ Cardinality(G) > ViewerTape

(* Pushed off the bottom of a full tape. *)
Missed(t) == Crowded /\ \A n \in DOMAIN feed.tape : Above(feed.tape[n], t)

(* No withdrawal of the slot has been shown. *)
Standing(slot) ==
  \A j \in DOMAIN Story : Withdraws(j) /\ Story[j].slot = slot => Coming(j)

(* What is to come comes after what has come. *)
InOrder ==
  \A i \in DOMAIN Story, j \in Recent : i <= j /\ Coming(i) /\ Effect(j) => Coming(j)

(* A fill whose turn has passed is shown, withdrawn or missed. *)
NoneLost ==
  \A i \in Recent : \A t \in Fills(i) :
    Standing(t.slot) => Coming(i) \/ t \in Range(feed.tape) \/ Missed(t)

(* A withdrawal shown leaves no fill of its slot. *)
NoneLeft ==
  \A j \in Recent : Withdraws(j) /\ ~ Coming(j) =>
    \A n \in DOMAIN feed.tape : feed.tape[n].slot # Story[j].slot

(* A fill overtaken by a full tape of shown ones is off the screen. *)
NoneOvertaken ==
  \A i \in Recent, p \in DOMAIN Story : Overtaken(p, i) /\ ~ Coming(p) =>
    \A n \in DOMAIN feed.tape : feed.tape[n] \notin Fills(i)

Screen == InOrder /\ NoneLost /\ NoneLeft /\ NoneOvertaken

SinceIsPast ==
  since \in Nat /\ since <= Len(log) /\ (Subscribed => server.next > since)

LEMMA SinceStep ==
  ASSUME Shape, SinceIsPast, [Next]_vars
  PROVE  SinceIsPast'
<1>1. Len(log) \in Nat /\ Len(log') \in Nat /\ Len(log) <= Len(log') /\ server.next \in Nat
  <2>1. log \in Seq(Event) /\ log' \in Seq(Event)
    BY ShapeStep DEF Shape
  <2>2. Len(log) \in Nat /\ Len(log') \in Nat
    BY <2>1
  <2>3. Len(log) > 0 => Len(log) \in DOMAIN log'
    <3>1. Len(log) > 0 => Len(log) \in DOMAIN log
      BY <2>1
    <3> QED BY <3>1, LogGrows
  <2>4. DOMAIN log' = 1 .. Len(log')
    BY <2>1
  <2>5. Len(log) <= Len(log')
    BY <2>2, <2>3, <2>4
  <2> QED BY <2>2, <2>5 DEF Shape
<1>2. CASE Connect
  BY <1>1, <1>2 DEF Connect, SinceIsPast, ingest
<1>3. CASE Forward
  <2>1. server'.next = server.next + 1 /\ Subscribed /\ since' = since
    BY <1>3, ForwardCases DEF Shape, Subscribed
  <2> QED BY <1>1, <2>1 DEF SinceIsPast
<1>4. CASE Lag
  <2>1. server'.next = Oldest /\ Subscribed /\ since' = since /\ Oldest \in Nat
    BY <1>4, LagCases DEF Shape, Subscribed
  <2>2. server.next < Oldest
    BY <1>4 DEF Lag
  <2> QED BY <1>1, <2>1, <2>2 DEF SinceIsPast
<1>5. CASE server' = server /\ since' = since
  BY <1>1, <1>5 DEF Subscribed, SinceIsPast
<1>6. CASE SendSnapshot
  <2>1. Subscribed /\ server'.next = server.next /\ since' = since
    BY <1>6 DEF SendSnapshot, Subscribed, Shape
  <2> QED BY <1>1, <2>1 DEF SinceIsPast
<1>7. CASE Drop /\ since' = since
  BY <1>1, <1>7 DEF Drop, NoServer, Subscribed, SinceIsPast
<1> QED
  BY <1>2, <1>3, <1>4, <1>5, <1>6, <1>7
     DEF Next, Ingest, Derive, Broadcast, OtherMarket, Finalize, Abandon, ReadFrame, Break, Handle,
         session, vars

LEMMA OvertakenIs ==
  ASSUME NEW p \in Nat, NEW i \in Nat, Overtaken(p, i)
  PROVE  i < p /\ Prints(p)
<1>1. PICK G \in SUBSET AllFills : Overtakes(G, p, i)
  BY DEF Overtaken
<1>2. G # {}
  <2> SUFFICES ASSUME G = {} PROVE FALSE
    OBVIOUS
  <2>1. Cardinality(G) = 0
    BY FS_EmptySet
  <2> QED BY <1>1, <2>1, ViewerAssumption DEF Overtakes
<1>3. PICK g \in G : TRUE
  BY <1>2
<1>4. \E k \in i + 1 .. p : g \in Fills(k)
  BY <1>1 DEF Overtakes
<1> QED BY <1>1, <1>4 DEF Overtakes

(* A step that leaves the screen alone, and to come what was to come.      *)
LEMMA QuietScreen ==
  ASSUME Shape, History, ScreenTape, Screen, [Next]_vars,
         feed'.tape = feed.tape, since' = since,
         \A i \in DOMAIN Story : Coming(i)' <=> Coming(i),
         \A i \in DOMAIN Story' : i \notin DOMAIN Story /\ Effect(i)' => Coming(i)'
  PROVE  Screen'
<1>1. view.tape \in Seq(Fill)
  BY DEF History, RegistryTape
<1>2. \A i \in DOMAIN Story :
        /\ i \in DOMAIN Story' /\ Story'[i] = Story[i] /\ i \in Nat
        /\ Withdraws(i)' = Withdraws(i) /\ Effect(i)' = Effect(i) /\ Fills(i)' = Fills(i)
  BY <1>1, StoryGrows, StoryType
<1>3. \A i \in Recent' : i \in Recent \/ i \notin DOMAIN Story
  BY DEF Recent
<1>4. \A i \in Recent : i \in Recent' /\ i \in DOMAIN Story
  BY <1>2 DEF Recent
<1>5. ASSUME NEW i \in DOMAIN Story', NEW j \in Recent', i <= j, Coming(i)', Effect(j)'
      PROVE  Coming(j)'
  <2>1. j \in DOMAIN Story'
    BY DEF Recent
  <2>2. CASE j \in DOMAIN Story
    <3>1. i \in DOMAIN Story
      BY <1>5, <2>1, <2>2, StoryType, StoryTypeNext
    <3> QED BY <1>2, <1>3, <1>5, <2>2, <3>1 DEF Screen, InOrder
  <2> QED BY <1>5, <2>1, <2>2
<1>6. Crowded => Crowded'
  <2>1. RecentFills \subseteq RecentFills'
    BY <1>2, <1>4 DEF RecentFills
  <2> QED BY <2>1 DEF Crowded
<1>7. ASSUME NEW i \in Recent', NEW t \in Fills(i)', Standing(t.slot)'
      PROVE  Coming(i)' \/ t \in Range(feed'.tape) \/ Missed(t)'
  <2>1. i \in DOMAIN Story' /\ Effect(i)'
    BY <1>7 DEF Recent, Fills, Effect
  <2>2. CASE i \in Recent
    <3>1. Standing(t.slot)
      BY <1>2, <1>7 DEF Standing
    <3>2. Coming(i) \/ t \in Range(feed.tape) \/ Missed(t)
      BY <1>2, <1>4, <1>7, <2>2, <3>1 DEF Screen, NoneLost
    <3>3. Missed(t) => Missed(t)'
      BY <1>6 DEF Missed
    <3> QED BY <1>4, <2>2, <3>2, <3>3
  <2> QED BY <1>3, <1>7, <2>1, <2>2
<1>8. ASSUME NEW j \in Recent', Withdraws(j)', ~ Coming(j)', NEW n \in DOMAIN feed'.tape
      PROVE  feed'.tape[n].slot # Story'[j].slot
  <2>1. j \in DOMAIN Story' /\ Effect(j)'
    BY <1>8 DEF Recent, Effect
  <2>2. j \in Recent
    BY <1>3, <1>8, <2>1
  <2> QED BY <1>2, <1>4, <1>8, <2>2 DEF Screen, NoneLeft
<1>9. ASSUME NEW i \in Recent', NEW p \in DOMAIN Story', Overtaken(p, i)', ~ Coming(p)',
             NEW n \in DOMAIN feed'.tape, feed'.tape[n] \in Fills(i)'
      PROVE  FALSE
  <2>1. i \in DOMAIN Story' /\ Effect(p)'
    BY <1>9 DEF Recent, Overtaken, Overtakes, Effect
  <2>2. p \in DOMAIN Story
    BY <1>9, <2>1
  <2>3. i \in DOMAIN Story
    <3>1. PICK q \in Past : feed.tape[n] \in Fills(q)
      BY <1>9 DEF ScreenTape
    <3>2. i = q /\ q \in DOMAIN Story
      BY <1>9, <2>1, <3>1, PastIs, FillOnceNext
    <3> QED BY <3>2
  <2>4. Overtaken(p, i)
    BY <1>1, <1>9, <2>2, <2>3, OvertakenStays
  <2> QED BY <1>2, <1>3, <1>9, <2>2, <2>3, <2>4 DEF Screen, NoneOvertaken
<1> QED BY <1>5, <1>7, <1>8, <1>9 DEF Screen, InOrder, NoneLost, NoneLeft, NoneOvertaken

(* A connection that is live after a step was live before it, unless the   *)
(* step made it.                                                           *)
LEMMA LiveStep ==
  ASSUME Shape, [Next]_vars, Live'
  PROVE  \/ Connect
         \/ Live /\ UNCHANGED session
         \/ Live /\ SendSnapshot
         \/ Live /\ Forward
         \/ Live /\ Handle
         \/ Live /\ Stays /\ UNCHANGED <<ingest, server, since>>
<1>1. Subscribed' /\ \A n \in DOMAIN wire' : wire'[n].kind # "Lagged"
  BY DEF Live
<1>2. wire \in Seq(Frames)
  BY DEF Shape
<1>3. CASE Ingest \/ UNCHANGED vars
  <2>1. UNCHANGED session
    BY <1>3 DEF Ingest, Derive, Broadcast, OtherMarket, Finalize, Abandon, session, vars
  <2> QED BY <1>1, <2>1 DEF session, Live, Subscribed
<1>4. CASE SendSnapshot
  <2>1. wire' = Append(wire, Snapshot(view)) /\ Snapshot(view) \in Frames /\ Subscribed
    BY <1>4, SnapshotIsFrame DEF SendSnapshot, Subscribed
  <2>2. \A n \in DOMAIN wire : n \in DOMAIN wire' /\ wire'[n] = wire[n]
    BY <1>2, <2>1
  <2> QED BY <1>1, <1>4, <2>1, <2>2 DEF Live
<1>5. CASE Forward
  <2> DEFINE event == log[server.next]
  <2>1. /\ event \in Event /\ server.phase = "streaming"
        /\ \/ Shows(event) /\ wire' = Append(wire, Frame(event))
           \/ ~ Shows(event) /\ wire' = wire
    BY <1>5, ForwardCases
  <2>2. Shows(event) => Frame(event) \in Frames
    BY <2>1, EventFrame
  <2> HIDE DEF event
  <2>3. \A n \in DOMAIN wire : n \in DOMAIN wire' /\ wire'[n] = wire[n]
    BY <1>2, <2>1, <2>2
  <2> QED BY <1>1, <1>5, <2>1, <2>3 DEF Live, Subscribed
<1>6. CASE Lag
  <2>1. LagNotice \in Frames /\ wire' = Append(wire, LagNotice)
    BY <1>6, LagCases DEF LagNotice
  <2>2. LagNotice.kind = "Lagged"
    BY DEF LagNotice
  <2>3. Len(wire) + 1 \in DOMAIN wire' /\ wire'[Len(wire) + 1] = LagNotice
    BY <1>2, <2>1
  <2> QED BY <1>1, <2>2, <2>3
<1>7. CASE ReadFrame
  <2>1. CASE Drop
    BY <1>1, <2>1 DEF Drop, NoServer, Subscribed
  <2>2. CASE /\ wire # <<>> /\ inbox' = Append(inbox, Head(wire)) /\ feed' = feed
             /\ wire' = Tail(wire) /\ ~ Ends(Head(wire)) /\ UNCHANGED <<ingest, server, since>>
    <3>1. /\ Head(wire) = wire[1] /\ DOMAIN wire = 1 .. Len(wire) /\ Len(wire) \in Nat
          /\ \A i \in DOMAIN wire : i # 1 => i - 1 \in DOMAIN wire' /\ wire'[i - 1] = wire[i]
      BY <1>2, <2>2
    <3>2. wire[1].kind # "Lagged"
      BY <2>2, <3>1 DEF Ends
    <3>3. \A n \in DOMAIN wire : wire[n].kind # "Lagged"
      BY <1>1, <3>1, <3>2
    <3>4. Stays
      BY <2>2, JoinedShift DEF Stays, Pipe, Shape
    <3> QED BY <1>1, <2>2, <3>3, <3>4 DEF Live, Subscribed
  <2> QED BY <1>7, <2>1, <2>2 DEF ReadFrame
<1>8. CASE Break
  BY <1>1, <1>8 DEF Break, Drop, NoServer, Subscribed
<1>9. CASE Handle
  BY <1>1, <1>9 DEF Handle, Live, Subscribed
<1> QED BY <1>3, <1>4, <1>5, <1>6, <1>7, <1>8, <1>9 DEF Next

(* While a connection is live, what ingest does is still to come.          *)
LEMMA NewIsComing ==
  ASSUME Shape, Subscribed, [Next]_vars, UNCHANGED server,
         NEW i \in DOMAIN Story', i \notin DOMAIN Story, Effect(i)'
  PROVE  Coming(i)'
<1>1. i \in Nat /\ i > Len(Story) /\ Len(Story) >= Len(log) /\ Len(log) \in Nat
  <2>1. Len(unsent) \in Nat
    BY DEF Shape
  <2> QED BY <2>1, StoryType, StoryTypeNext
<1>2. server.next \in Nat /\ server.next <= Len(log) + 1
  BY <1>1 DEF Shape
<1> QED BY <1>1, <1>2, StoryType DEF Coming

LEMMA ScreenQuietSteps ==
  ASSUME Shape, History, Real, QueueInTurn, ScreenTape, Screen, Subscribed, [Next]_vars,
         UNCHANGED session \/ SendSnapshot \/ Forward
           \/ (Stays /\ UNCHANGED <<ingest, server, since>>)
  PROVE  Screen'
<1>1. \A i \in DOMAIN Story :
        /\ i \in DOMAIN Story' /\ Effect(i)' = Effect(i) /\ i \in Nat
        /\ \A m : IsFrameOf(m, i)' <=> IsFrameOf(m, i)
  BY StoryGrows, FramesStay, StoryType DEF History, RegistryTape
<1>2. ASSUME Pipe' = Pipe, UNCHANGED <<feed, server, since>> PROVE Screen'
  <2>1. \A i \in DOMAIN Story : Coming(i)' <=> Coming(i)
    BY <1>1, <1>2 DEF Coming
  <2> QED BY <1>2, <2>1, QuietScreen, NewIsComing
<1>3. CASE UNCHANGED session
  BY <1>2, <1>3 DEF session, Pipe
<1>4. CASE Stays /\ UNCHANGED <<ingest, server, since>>
  BY <1>2, <1>4 DEF Stays
<1>5. ASSUME NEW m, Sent(m), since' = since,
             \A i \in DOMAIN Story : Effect(i) =>
               (i >= server'.next \/ IsFrameOf(m, i) <=> i >= server.next)
      PROVE  Screen'
  <2>1. ASSUME NEW i \in DOMAIN Story PROVE Coming(i)' <=> Coming(i)
    <3> PICK last \in Nat : last = Len(Pipe) + 1
      BY PipeType
    <3>1. /\ DOMAIN Pipe' = 1 .. last /\ DOMAIN Pipe = 1 .. last - 1 /\ Pipe'[last] = m
          /\ \A n \in DOMAIN Pipe : n \in DOMAIN Pipe' /\ Pipe'[n] = Pipe[n]
      BY <1>5, QueueGrows
    <3>2. (\E n \in DOMAIN Pipe' : IsFrameOf(Pipe'[n], i)) <=>
            IsFrameOf(m, i) \/ \E n \in DOMAIN Pipe : IsFrameOf(Pipe[n], i)
      <4>1. \A n \in DOMAIN Pipe' : n \in DOMAIN Pipe \/ n = last
        BY <3>1
      <4>2. last \in DOMAIN Pipe'
        BY <3>1
      <4> QED BY <3>1, <4>1, <4>2
    <3>3. (\E n \in DOMAIN Pipe' : IsFrameOf(Pipe[n], i)') <=>
            \E n \in DOMAIN Pipe' : IsFrameOf(Pipe'[n], i)
      BY <1>1
    <3> QED BY <1>1, <1>5, <3>2, <3>3 DEF Coming
  <2>2. Story' = Story /\ feed' = feed
    BY <1>5 DEF Sent, Story
  <2> QED BY <1>5, <2>1, <2>2, QuietScreen
<1>6. CASE SendSnapshot
  <2>1. Sent(Snapshot(view)) /\ since' = since /\ server'.next = server.next
    BY <1>6, SnapshotStep DEF SendSnapshot, Shape
  <2>2. \A i : ~ IsFrameOf(Snapshot(view), i)
    BY DEF Snapshot, IsFrameOf
  <2> QED BY <1>5, <2>1, <2>2
<1>7. CASE Forward
  <2>1. /\ server.next \in DOMAIN Story /\ server.next \in Nat
        /\ Effect(server.next) => /\ Shows(log[server.next])
                                  /\ IsFrameOf(Frame(log[server.next]), server.next)
        /\ Shows(log[server.next]) /\ Effective(Frame(log[server.next])) => Effect(server.next)
    BY <1>7, ForwardedFrame
  <2>2. server'.next = server.next + 1 /\ since' = since
    BY <1>7, ForwardCases DEF Shape
  <2>3. CASE Shows(log[server.next])
    <3>1. Sent(Frame(log[server.next]))
      BY <1>7, <2>3, ForwardStep
    <3>2. ASSUME NEW i \in DOMAIN Story, Effect(i)
          PROVE  i >= server'.next \/ IsFrameOf(Frame(log[server.next]), i) <=> i >= server.next
      <4>1. ASSUME IsFrameOf(Frame(log[server.next]), i) PROVE i = server.next
        <5>1. Effective(Frame(log[server.next]))
          BY <4>1 DEF IsFrameOf, Effective, Prints
        <5> QED BY <2>1, <2>3, <4>1, <5>1, FrameOnce
      <4> QED BY <1>1, <2>1, <2>2, <3>2, <4>1
    <3> QED BY <1>5, <2>2, <3>1, <3>2
  <2>4. CASE ~ Shows(log[server.next])
    <3>1. Stays
      BY <1>7, <2>4, ForwardStep
    <3>2. ~ Effect(server.next)
      BY <2>1, <2>4
    <3>3. Story' = Story
      BY <1>7, ForwardCases DEF ingest, Story
    <3>4. \A i \in DOMAIN Story : Effect(i) => (i >= server'.next <=> i >= server.next)
      BY <1>1, <2>1, <2>2, <3>2
    <3>5. \A i \in DOMAIN Story : Coming(i)' <=> Coming(i)
      BY <1>1, <3>1, <3>4 DEF Coming, Stays
    <3> QED BY <2>2, <3>1, <3>3, <3>5, QuietScreen DEF Stays
  <2> QED BY <2>3, <2>4
<1> QED BY <1>3, <1>4, <1>6, <1>7

(* All that a new connection will bring is still to come.                  *)
LEMMA ScreenConnect ==
  ASSUME Shape, SinceIsPast, ScreenTape, [Next]_vars, Connect
  PROVE  Screen'
<1>1. Story' = Story /\ since' = Len(log) /\ server'.next = Len(log) + 1 /\ Len(log) \in Nat
  BY DEF Connect, Story, ingest, Shape
<1>2. \A i \in Recent' : i \in Nat /\ i \in DOMAIN Story' /\ i >= server'.next
  BY <1>1, StoryType, StoryTypeNext DEF Recent
<1>3. \A i \in Recent' : Effect(i)' => Coming(i)'
  BY <1>2 DEF Coming
<1>4. InOrder'
  BY <1>3 DEF InOrder
<1>5. NoneLost'
  <2>1. \A i \in Recent' : \A t \in Fills(i)' : Effect(i)'
    BY DEF Fills, Effect
  <2> QED BY <1>3, <2>1 DEF NoneLost
<1>6. NoneLeft'
  BY <1>3 DEF NoneLeft, Effect
<1>7. NoneOvertaken'
  <2> SUFFICES ASSUME NEW i \in Recent', NEW p \in DOMAIN Story', Overtaken(p, i)', ~ Coming(p)'
               PROVE  FALSE
    BY DEF NoneOvertaken
  <2>1. p \in Nat /\ i \in Nat /\ i >= server'.next
    BY <1>2, StoryTypeNext
  <2>2. i < p /\ Prints(p)'
    <3>1. PICK G \in SUBSET AllFills' : Overtakes(G, p, i)'
      BY DEF Overtaken
    <3>2. G # {}
      <4> SUFFICES ASSUME G = {} PROVE FALSE
        OBVIOUS
      <4>1. Cardinality(G) = 0
        BY FS_EmptySet
      <4> QED BY <3>1, <4>1, ViewerAssumption DEF Overtakes
    <3>3. PICK g \in G : TRUE
      BY <3>2
    <3>4. \E k \in i + 1 .. p : g \in Fills(k)'
      BY <3>1 DEF Overtakes
    <3> QED BY <2>1, <3>1, <3>4 DEF Overtakes
  <2>3. p \in Recent'
    BY <1>1, <1>2, <2>1, <2>2 DEF Recent
  <2> QED BY <1>3, <2>2, <2>3 DEF Effect
<1> QED BY <1>4, <1>5, <1>6, <1>7 DEF Screen

-----------------------------------------------------------------------------
(* Showing the first frame of the queue. *)

(* The events are what they were. *)
LEMMA ShownSame ==
  ASSUME Shown, since' = since
  PROVE  /\ Story' = Story /\ Recent' = Recent /\ RecentFills' = RecentFills
         /\ Crowded' = Crowded
         /\ \A i \in DOMAIN Story :
              /\ Effect(i)' = Effect(i) /\ Fills(i)' = Fills(i)
              /\ Withdraws(i)' = Withdraws(i)
         /\ \A i, p \in DOMAIN Story : Overtaken(p, i)' <=> Overtaken(p, i)
<1>1. UNCHANGED <<log, unsent>>
  BY DEF Shown, ingest
<1>2. Story' = Story
  BY <1>1 DEF Story
<1>3. \A i : /\ Prints(i)' = Prints(i) /\ Withdraws(i)' = Withdraws(i)
             /\ Effect(i)' = Effect(i) /\ Fills(i)' = Fills(i)
  BY <1>2 DEF Prints, Withdraws, Effect, Fills
<1>4. Recent' = Recent
  BY <1>2 DEF Recent
<1>5. RecentFills' = RecentFills
  BY <1>3, <1>4 DEF RecentFills
<1>6. Crowded' = Crowded
  BY <1>5 DEF Crowded
<1>7. AllFills' = AllFills
  BY <1>2, <1>3 DEF AllFills
<1>8. ASSUME NEW p, NEW i, NEW G PROVE Overtakes(G, p, i)' <=> Overtakes(G, p, i)
  BY <1>2, <1>3 DEF Overtakes
<1>9. \A i, p \in DOMAIN Story : Overtaken(p, i)' <=> Overtaken(p, i)
  BY <1>7, <1>8 DEF Overtaken
<1> QED BY <1>2, <1>3, <1>4, <1>5, <1>6, <1>9

(* What was to come still is, except the event shown, and that came first. *)
LEMMA ShownComing ==
  ASSUME Shape, History, QueueInTurn, Shown, Subscribed, [Next]_vars, NEW i \in DOMAIN Story
  PROVE  /\ Coming(i)' <=> Coming(i) /\ ~ IsFrameOf(Head(Pipe), i)
         /\ IsFrameOf(Head(Pipe), i) => Coming(i)
         /\ \A j \in DOMAIN Story : IsFrameOf(Head(Pipe), j) /\ Coming(i)' => j < i
<1>1. /\ Head(Pipe) = Pipe[1] /\ 1 \in DOMAIN Pipe
      /\ \A n \in DOMAIN Pipe' : n + 1 \in DOMAIN Pipe /\ 1 < n + 1 /\ Pipe'[n] = Pipe[n + 1]
      /\ \A n \in DOMAIN Pipe : n = 1 \/ (1 < n /\ n - 1 \in DOMAIN Pipe' /\ Pipe'[n - 1] = Pipe[n])
  <2>1. \A n \in DOMAIN Pipe : n = 1 \/ (n - 1 \in 1 .. Len(Pipe) - 1 /\ n - 1 + 1 = n /\ 1 < n)
    BY PipeType
  <2>2. DOMAIN Pipe' = 1 .. Len(Pipe) - 1
    BY QueueTail
  <2> QED BY <2>1, <2>2, QueueTail, PipeType
<1>2. server' = server /\ Effect(i)' = Effect(i) /\ i \in Nat /\ server.next \in Nat
  <2>1. Story' = Story /\ server' = server
    BY DEF Shown, ingest, Story
  <2> QED BY <2>1, StoryType DEF Shape, Effect, Prints, Withdraws
<1>3. ASSUME NEW j \in DOMAIN Story, IsFrameOf(Pipe[1], j)
      PROVE  j < server.next /\ j \in Nat
  <2>1. Effective(Pipe[1])
    BY <1>3 DEF IsFrameOf, Effective, Prints
  <2>2. PICK k \in Past : IsFrameOf(Pipe[1], k)
    BY <1>1, <2>1 DEF QueueInTurn
  <2>3. k \in DOMAIN Story /\ k < server.next /\ k \in Nat
    BY PastIs
  <2>4. j = k
    BY <1>3, <2>2, <2>3, FrameOnce
  <2> QED BY <2>3, <2>4
<1>4. ASSUME NEW j \in DOMAIN Story, IsFrameOf(Pipe[1], j), NEW n \in DOMAIN Pipe, 1 < n,
             IsFrameOf(Pipe[n], i)
      PROVE  j < i
  BY <1>1, <1>4 DEF QueueInTurn
<1>5. (\E n \in DOMAIN Pipe' : IsFrameOf(Pipe[n], i)') <=>
        \E n \in DOMAIN Pipe : 1 < n /\ IsFrameOf(Pipe[n], i)
  <2>1. \A m : IsFrameOf(m, i)' <=> IsFrameOf(m, i)
    BY FramesStay
  <2>2. (\E n \in DOMAIN Pipe' : IsFrameOf(Pipe[n], i)') <=>
          \E n \in DOMAIN Pipe' : IsFrameOf(Pipe'[n], i)
    BY <2>1
  <2> QED BY <1>1, <2>2
<1>6. Coming(i)' <=> Effect(i) /\ (i >= server.next \/ \E n \in DOMAIN Pipe : 1 < n /\ IsFrameOf(Pipe[n], i))
  BY <1>2, <1>5 DEF Coming
<1>7. IsFrameOf(Head(Pipe), i) => Coming(i)
  BY <1>1 DEF Coming, IsFrameOf, Effect
<1>8. \A j \in DOMAIN Story : IsFrameOf(Head(Pipe), j) /\ Coming(i)' => j < i
  BY <1>1, <1>2, <1>3, <1>4, <1>6
<1>9. Coming(i) => IsFrameOf(Pipe[1], i) \/ Coming(i)'
  BY <1>1, <1>6 DEF Coming
<1>10. Coming(i)' => Coming(i)
  BY <1>6 DEF Coming
<1>11. Coming(i)' => ~ IsFrameOf(Head(Pipe), i)
  BY <1>2, <1>8
<1> QED BY <1>1, <1>7, <1>8, <1>9, <1>10, <1>11

(* Every fill on the tape was there or is one of the frame's. *)
LEMMA ShownEntries ==
  ASSUME Shape, QueueInTurn, ScreenTape, Shown, NEW n \in DOMAIN feed'.tape
  PROVE  \/ /\ \E k \in DOMAIN feed.tape : feed'.tape[n] = feed.tape[k]
            /\ Head(Pipe).kind = "Retract" => feed'.tape[n].slot # Head(Pipe).slot
         \/ \E p \in DOMAIN Story :
              /\ IsFrameOf(Head(Pipe), p) /\ Story[p].trades = Head(Pipe).trades
              /\ feed'.tape[n] \in Fills(p)
<1>1. feed.tape \in Seq(Fill)
  BY DEF ScreenTape
<1>2. CASE ~ Effective(Head(Pipe)) /\ feed'.tape = feed.tape
  BY <1>2 DEF Effective
<1>3. CASE IsWithout(feed'.tape, feed.tape, Head(Pipe).slot)
  BY <1>3 DEF IsWithout
<1>4. CASE /\ Head(Pipe).kind = "Update" /\ Head(Pipe).trades \in Seq(Fill)
           /\ IsTopOf(feed'.tape, Head(Pipe).trades, feed.tape)
  <2> PICK trades \in Seq(Fill) : trades = Head(Pipe).trades
    BY <1>4
  <2>1. CASE n \in DOMAIN trades /\ feed'.tape[n] = trades[n]
    <3>1. Effective(Head(Pipe)) /\ Head(Pipe) = Pipe[1] /\ 1 \in DOMAIN Pipe
      <4>1. trades # <<>>
        BY <2>1
      <4> QED BY <1>4, <4>1, QueueTail, PipeType DEF Effective
    <3>2. PICK p \in Past : IsFrameOf(Head(Pipe), p)
      BY <3>1 DEF QueueInTurn
    <3>3. p \in DOMAIN Story /\ Prints(p) /\ Story[p].trades = trades
      BY <1>4, <3>2, PastIs DEF IsFrameOf
    <3>4. trades[n] \in Fills(p)
      BY <2>1, <3>3 DEF Fills, Range
    <3> QED BY <2>1, <3>2, <3>3, <3>4
  <2>2. CASE n - Len(trades) \in DOMAIN feed.tape /\ feed'.tape[n] = feed.tape[n - Len(trades)]
    BY <1>4, <2>2
  <2> QED BY <1>4, <2>1, <2>2 DEF IsTopOf
<1> QED BY <1>1, <1>2, <1>3, <1>4, ShownTape

(* A fill is below all of a full tape. *)
PushedOut(t, tape) ==
  /\ tape \in Seq(Fill) /\ Len(tape) = ViewerTape
  /\ \A n \in DOMAIN tape : Above(tape[n], t)

(* A fill on the tape, or one of the frame's, is on the new tape, unless   *)
(* the frame withdraws it or the fills above it leave no room.             *)
LEMMA ShownKeeps ==
  ASSUME Shape, History, QueueInTurn, ScreenTape, Shown, NEW t,
         \/ t \in Range(feed.tape)
         \/ \E p \in DOMAIN Story : IsFrameOf(Head(Pipe), p) /\ t \in Fills(p)
  PROVE  \/ t \in Range(feed'.tape)
         \/ Head(Pipe).kind = "Retract" /\ t.slot = Head(Pipe).slot
         \/ PushedOut(t, feed'.tape)
<1>1. feed.tape \in Seq(Fill) /\ DOMAIN feed.tape \subseteq Nat
  BY DEF ScreenTape
<1>2. ASSUME t \notin Range(feed.tape)
      PROVE  \E p \in DOMAIN Story :
               /\ Head(Pipe).kind = "Update" /\ Prints(p) /\ Head(Pipe).trades = Story[p].trades
               /\ IsFrameOf(Head(Pipe), p) /\ t \in Range(Story[p].trades)
  BY <1>2 DEF IsFrameOf, Withdraws, Prints, Fills
<1>3. CASE ~ Effective(Head(Pipe)) /\ feed'.tape = feed.tape
  BY <1>2, <1>3 DEF Effective, Prints
<1>4. CASE Head(Pipe).kind = "Retract" /\ IsWithout(feed'.tape, feed.tape, Head(Pipe).slot)
  <2>1. t \in Range(feed.tape)
    BY <1>2, <1>4
  <2>2. PICK j \in DOMAIN feed.tape : feed.tape[j] = t
    BY <2>1 DEF Range
  <2>3. t.slot # Head(Pipe).slot => \E a \in DOMAIN feed'.tape : feed'.tape[a] = t
    BY <1>4, <2>2 DEF IsWithout
  <2> QED BY <1>4, <2>3 DEF Range
<1>5. CASE /\ Head(Pipe).kind = "Update" /\ Head(Pipe).trades \in Seq(Fill)
           /\ IsTopOf(feed'.tape, Head(Pipe).trades, feed.tape)
  <2> PICK trades \in Seq(Fill) : trades = Head(Pipe).trades
    BY <1>5
  <2>1. DOMAIN trades = 1 .. Len(trades) /\ Len(trades) \in Nat
    OBVIOUS
  <2>2. IsTopOf(feed'.tape, trades, feed.tape)
    BY <1>5
  <2>3. PICK new \in Seq(Fill) : new = feed'.tape
    BY <2>2 DEF IsTopOf
  <2>4. DOMAIN new = 1 .. Len(new) /\ Len(new) \in Nat
    BY <2>3
  <2>5. trades # <<>> =>
          \E p \in DOMAIN Story :
            /\ Prints(p) /\ Story[p].trades = trades
            /\ \A k \in DOMAIN feed.tape : \E i \in DOMAIN Story : i < p /\ feed.tape[k] \in Fills(i)
    <3> SUFFICES ASSUME trades # <<>>
                 PROVE  \E p \in DOMAIN Story :
                          /\ Prints(p) /\ Story[p].trades = trades
                          /\ \A k \in DOMAIN feed.tape :
                               \E i \in DOMAIN Story : i < p /\ feed.tape[k] \in Fills(i)
      OBVIOUS
    <3>1. Effective(Head(Pipe)) /\ Head(Pipe) = Pipe[1] /\ 1 \in DOMAIN Pipe
      BY <1>5, QueueTail, PipeType DEF Effective
    <3>2. PICK p \in Past : IsFrameOf(Pipe[1], p)
      BY <3>1 DEF QueueInTurn
    <3>3. p \in DOMAIN Story /\ Prints(p) /\ Story[p].trades = trades
      BY <1>5, <3>1, <3>2, PastIs DEF IsFrameOf
    <3>4. ASSUME NEW k \in DOMAIN feed.tape
          PROVE  \E i \in DOMAIN Story : i < p /\ feed.tape[k] \in Fills(i)
      <4>1. PICK i \in Past : feed.tape[k] \in Fills(i)
        BY <3>4 DEF ScreenTape
      <4> QED BY <3>1, <3>2, <3>3, <4>1, PastIs DEF ScreenTape
    <3> QED BY <3>3, <3>4
  <2>6. \A a, b \in DOMAIN trades : a < b => Above(trades[a], trades[b])
    <3> SUFFICES ASSUME NEW a \in DOMAIN trades, NEW b \in DOMAIN trades, a < b
                 PROVE  Above(trades[a], trades[b])
      OBVIOUS
    <3>1. trades # <<>>
      BY <2>1
    <3>2. PICK p \in DOMAIN Story : Prints(p) /\ Story[p].trades = trades
      BY <2>5, <3>1
    <3>3. /\ trades[a].n = a /\ trades[b].n = b
          /\ trades[a].change = trades[1].change /\ trades[b].change = trades[1].change
      BY <3>2 DEF History, Numbered, Prints
    <3> QED BY <3>3 DEF Above
  <2>7. ASSUME NEW a \in DOMAIN trades, NEW k \in DOMAIN feed.tape
        PROVE  Above(trades[a], feed.tape[k])
    <3>1. trades # <<>>
      BY <2>1
    <3>2. PICK p \in DOMAIN Story :
            /\ Prints(p) /\ Story[p].trades = trades
            /\ \E i \in DOMAIN Story : i < p /\ feed.tape[k] \in Fills(i)
      BY <2>5, <3>1
    <3>3. PICK i \in DOMAIN Story : i < p /\ feed.tape[k] \in Fills(i)
      BY <3>2
    <3>4. trades[a] \in Fills(p)
      BY <3>2 DEF Fills, Range
    <3>5. feed.tape[k].change < trades[a].change
      BY <3>3, <3>4, FillOnce DEF History
    <3>6. feed.tape[k].change \in Nat /\ trades[a].change \in Nat
      BY <3>3, <3>4, FillIs DEF History
    <3> QED BY <3>5, <3>6 DEF Above
  <2>8. \A n \in DOMAIN new :
          \/ n \in DOMAIN trades /\ new[n] = trades[n]
          \/ n > Len(trades) /\ n - Len(trades) \in DOMAIN feed.tape /\ new[n] = feed.tape[n - Len(trades)]
    BY <2>2, <2>3 DEF IsTopOf
  <2>9. ASSUME NEW a \in DOMAIN trades, trades[a] = t
        PROVE  t \in Range(new) \/ PushedOut(t, new)
    <3>1. CASE a \in DOMAIN new
      <4>1. new[a] = t
        BY <2>2, <2>3, <2>9, <3>1 DEF IsTopOf
      <4> QED BY <3>1, <4>1 DEF Range
    <3>2. CASE a \notin DOMAIN new
      <4>1. Len(new) = ViewerTape
        BY <2>2, <2>3, <2>9, <3>2 DEF IsTopOf
      <4>2. ASSUME NEW n \in DOMAIN new PROVE Above(new[n], t)
        <5>1. n < a /\ n \in DOMAIN trades
          BY <2>1, <2>4, <3>2, <4>2
        <5>2. new[n] = trades[n]
          BY <2>1, <2>8, <4>2, <5>1
        <5> QED BY <2>6, <2>9, <5>1, <5>2
      <4> QED BY <4>1, <4>2 DEF PushedOut
    <3> QED BY <3>1, <3>2
  <2>10. ASSUME NEW k \in DOMAIN feed.tape, feed.tape[k] = t
         PROVE  t \in Range(new) \/ PushedOut(t, new)
    <3> PICK a \in Nat : a = Len(trades) + k
      BY <1>1, <2>1
    <3>1. CASE a \in DOMAIN new
      <4>1. new[a] = t
        BY <2>2, <2>3, <2>10, <3>1 DEF IsTopOf
      <4> QED BY <3>1, <4>1 DEF Range
    <3>2. CASE a \notin DOMAIN new
      <4>1. Len(new) = ViewerTape
        BY <2>2, <2>3, <2>10, <3>2 DEF IsTopOf
      <4>2. ASSUME NEW n \in DOMAIN new PROVE Above(new[n], t)
        <5>1. CASE n \in DOMAIN trades /\ new[n] = trades[n]
          BY <2>7, <2>10, <5>1
        <5>2. ASSUME NEW j \in DOMAIN feed.tape, new[n] = feed.tape[j], j = n - Len(trades)
              PROVE  Above(new[n], t)
          <6>1. j < k
            BY <1>1, <2>1, <2>4, <3>2, <4>2, <5>2
          <6> QED BY <2>10, <5>2, <6>1 DEF ScreenTape, TapeIsOrdered
        <5> QED BY <2>8, <5>1, <5>2
      <4> QED BY <4>1, <4>2 DEF PushedOut
    <3> QED BY <3>1, <3>2
  <2>11. (\E a \in DOMAIN trades : trades[a] = t) \/ (\E k \in DOMAIN feed.tape : feed.tape[k] = t)
    BY <1>2 DEF Range
  <2> QED BY <2>3, <2>9, <2>10, <2>11
<1> QED BY <1>1, <1>3, <1>4, <1>5, ShownTape

(* Fills later than a recent one are recent. *)
LEMMA AboveIsRecent ==
  ASSUME Shape, History, SinceIsPast, NEW i \in Recent, NEW t \in Fills(i),
         NEW j \in DOMAIN Story, NEW u \in Fills(j), Above(u, t)
  PROVE  j \in Recent
<1>1. i \in DOMAIN Story /\ i > since /\ i \in Nat /\ j \in Nat /\ since \in Nat
  BY StoryType DEF Recent, SinceIsPast
<1>2. t.change \in Nat /\ u.change \in Nat
  BY <1>1, FillIs DEF History
<1>3. t.change < u.change \/ t.change = u.change
  BY <1>2 DEF Above
<1>4. i < j \/ i = j
  BY <1>1, <1>3, FillOnce DEF History
<1> QED BY <1>1, <1>4 DEF Recent

(* A recent fill that a full tape leaves no room for has been missed.      *)
LEMMA PushedOutIsMissed ==
  ASSUME Shape, History, SinceIsPast, NEW tape, NEW i \in Recent, NEW t \in Fills(i),
         PushedOut(t, tape),
         \A n \in DOMAIN tape : \E j \in DOMAIN Story : tape[n] \in Fills(j),
         \A n, k \in DOMAIN tape : n < k => Above(tape[n], tape[k])
  PROVE  Crowded
<1>1. tape \in Seq(Fill) /\ Len(tape) = ViewerTape /\ DOMAIN tape \subseteq Nat
  BY DEF PushedOut
<1>2. \A n \in DOMAIN tape : tape[n] \in Fill /\ tape[n].change \in Nat /\ tape[n].n \in Nat
  <2>1. \A n \in DOMAIN tape : tape[n] \in Fill
    BY <1>1
  <2> QED BY <2>1 DEF Fill
<1>3. i \in DOMAIN Story /\ t.change \in Nat /\ t.n \in Nat
  BY FillIs DEF History, Recent
<1>4. t \notin Range(tape)
  <2> SUFFICES ASSUME NEW n \in DOMAIN tape, tape[n] = t PROVE FALSE
    BY DEF Range
  <2>1. Above(t, t)
    BY DEF PushedOut
  <2> QED BY <1>3, <2>1 DEF Above
<1>5. \A a, b \in DOMAIN tape : a < b => tape[a] # tape[b]
  <2> SUFFICES ASSUME NEW a \in DOMAIN tape, NEW b \in DOMAIN tape, a < b, tape[a] = tape[b]
               PROVE  FALSE
    OBVIOUS
  <2>1. Above(tape[a], tape[a])
    OBVIOUS
  <2> QED BY <1>2, <2>1 DEF Above
<1>6. IsFiniteSet(Range(tape)) /\ Cardinality(Range(tape)) = ViewerTape
  BY <1>1, <1>5, MembersCounted
<1>7. IsFiniteSet(Range(tape) \cup {t}) /\ Cardinality(Range(tape) \cup {t}) > ViewerTape
  <2> PICK old : old = Range(tape)
    OBVIOUS
  <2>1. IsFiniteSet(old \cup {t}) /\ Cardinality(old \cup {t}) = Cardinality(old) + 1
    BY <1>4, <1>6, FS_AddElement
  <2> QED BY <1>6, <2>1, ViewerAssumption
<1>8. Range(tape) \cup {t} \subseteq RecentFills
  <2>1. t \in RecentFills
    BY DEF RecentFills
  <2>2. ASSUME NEW n \in DOMAIN tape PROVE tape[n] \in RecentFills
    <3>1. PICK j \in DOMAIN Story : tape[n] \in Fills(j)
      BY <2>2
    <3>2. Above(tape[n], t)
      BY <2>2 DEF PushedOut
    <3>3. j \in Recent
      BY <3>1, <3>2, AboveIsRecent
    <3> QED BY <3>1, <3>3 DEF RecentFills
  <2> QED BY <2>1, <2>2 DEF Range
<1> QED BY <1>7, <1>8 DEF Crowded

(* An event of this connection that is no longer to come was before the    *)
(* one shown.                                                              *)
LEMMA ShownIsLater ==
  ASSUME Shape, History, QueueInTurn, Screen, Shown, Subscribed, [Next]_vars,
         NEW i \in Recent, Effect(i), ~ Coming(i), NEW p \in DOMAIN Story, IsFrameOf(Head(Pipe), p)
  PROVE  i < p
<1>1. Coming(p)
  BY ShownComing
<1>2. ~ (p <= i)
  BY <1>1 DEF Screen, InOrder
<1>3. i \in Nat /\ p \in Nat
  BY StoryType DEF Recent
<1> QED BY <1>2, <1>3

LEMMA ShownInOrder ==
  ASSUME Shape, History, QueueInTurn, Screen, Shown, Subscribed, [Next]_vars, since' = since
  PROVE  InOrder'
<1> SUFFICES ASSUME NEW i \in DOMAIN Story', NEW j \in Recent', i <= j, Coming(i)', Effect(j)'
             PROVE  Coming(j)'
  BY DEF InOrder
<1>1. i \in DOMAIN Story /\ j \in Recent /\ j \in DOMAIN Story /\ i \in Nat /\ j \in Nat
  BY ShownSame, StoryType DEF Recent
<1>2. Effect(j) /\ Coming(i)
  BY <1>1, ShownSame, ShownComing
<1>3. Coming(j)
  BY <1>1, <1>2 DEF Screen, InOrder
<1>4. ~ IsFrameOf(Head(Pipe), j)
  <2>1. IsFrameOf(Head(Pipe), j) => j < i
    BY <1>1, ShownComing
  <2> QED BY <1>1, <2>1
<1> QED BY <1>1, <1>3, <1>4, ShownComing

LEMMA ShownNoneLost ==
  ASSUME Shape, History, QueueInTurn, ScreenTape, ScreenTape', SinceIsPast,
         Screen, Shown, Subscribed, [Next]_vars, since' = since
  PROVE  NoneLost'
<1>1. /\ Story' = Story /\ Recent' = Recent /\ Crowded' = Crowded
      /\ \A i \in DOMAIN Story : /\ Effect(i)' = Effect(i) /\ Fills(i)' = Fills(i)
                                 /\ Withdraws(i)' = Withdraws(i)
  BY ShownSame
<1> SUFFICES ASSUME NEW i \in Recent, NEW t \in Fills(i), Standing(t.slot)', ~ Coming(i)'
             PROVE  t \in Range(feed'.tape) \/ Missed(t)'
  <2>1. \A i \in Recent : i \in DOMAIN Story
    BY DEF Recent
  <2>2. \A i \in Recent' : i \in Recent /\ Fills(i)' = Fills(i)
    BY <1>1, <2>1
  <2> QED BY <2>2 DEF NoneLost
<1>2. i \in DOMAIN Story /\ Prints(i) /\ Effect(i)
  BY FillIs DEF Recent, History, Effect
<1>3. \A j \in DOMAIN Story : Coming(j)' => Coming(j) /\ ~ IsFrameOf(Head(Pipe), j)
  BY ShownComing
<1>4. \A j \in DOMAIN Story : Withdraws(j) /\ Story[j].slot = t.slot => Coming(j)'
  BY <1>1 DEF Standing
<1>5. Standing(t.slot)
  BY <1>3, <1>4 DEF Standing
<1>6. ~ (Head(Pipe).kind = "Retract" /\ t.slot = Head(Pipe).slot)
  <2> SUFFICES ASSUME Head(Pipe).kind = "Retract", t.slot = Head(Pipe).slot PROVE FALSE
    OBVIOUS
  <2>1. Head(Pipe) = Pipe[1] /\ 1 \in DOMAIN Pipe
    BY QueueTail
  <2>2. PICK j \in Past : IsFrameOf(Head(Pipe), j)
    BY <2>1 DEF QueueInTurn, Effective
  <2>3. j \in DOMAIN Story /\ Withdraws(j) /\ Story[j].slot = t.slot
    BY <2>2, PastIs DEF IsFrameOf
  <2> QED BY <1>3, <1>4, <2>2, <2>3
<1>7. PushedOut(t, feed'.tape) => Missed(t)'
  <2>1. ASSUME NEW n \in DOMAIN feed'.tape PROVE \E j \in DOMAIN Story : feed'.tape[n] \in Fills(j)
    <3>1. \A k \in DOMAIN feed.tape : \E j \in Past : feed.tape[k] \in Fills(j)
      BY DEF ScreenTape
    <3>2. \A k \in DOMAIN feed.tape : \E j \in DOMAIN Story : feed.tape[k] \in Fills(j)
      BY <3>1, PastIs
    <3> QED BY <2>1, <3>2, ShownEntries
  <2>2. \A n, k \in DOMAIN feed'.tape : n < k => Above(feed'.tape[n], feed'.tape[k])
    BY DEF ScreenTape, TapeIsOrdered
  <2>3. PushedOut(t, feed'.tape) => Crowded
    BY <2>1, <2>2, PushedOutIsMissed
  <2> QED BY <1>1, <2>3 DEF Missed, PushedOut
<1>8. CASE IsFrameOf(Head(Pipe), i)
  BY <1>2, <1>6, <1>7, <1>8, ShownKeeps
<1>9. CASE t \in Range(feed.tape)
  BY <1>6, <1>7, <1>9, ShownKeeps
<1>10. CASE Missed(t) /\ ~ Coming(i)
  <2>1. ASSUME NEW n \in DOMAIN feed'.tape PROVE Above(feed'.tape[n], t)
    <3>1. CASE \E k \in DOMAIN feed.tape : feed'.tape[n] = feed.tape[k]
      BY <1>10, <3>1 DEF Missed
    <3>2. ASSUME NEW p \in DOMAIN Story, IsFrameOf(Head(Pipe), p), feed'.tape[n] \in Fills(p)
          PROVE  Above(feed'.tape[n], t)
      <4>1. i < p
        BY <1>2, <1>10, <3>2, ShownIsLater
      <4>2. t.change < feed'.tape[n].change
        BY <1>2, <3>2, <4>1, FillOnce DEF History
      <4>3. t.change \in Nat /\ feed'.tape[n].change \in Nat
        BY <1>2, <3>2, FillIs DEF History
      <4> QED BY <4>2, <4>3 DEF Above
    <3> QED BY <3>1, <3>2, ShownEntries
  <2> QED BY <1>1, <1>10, <2>1 DEF Missed
<1>11. Coming(i) => IsFrameOf(Head(Pipe), i)
  BY <1>2, ShownComing
<1>12. Coming(i) \/ t \in Range(feed.tape) \/ Missed(t)
  BY <1>5 DEF Screen, NoneLost
<1> QED BY <1>8, <1>9, <1>10, <1>11, <1>12

LEMMA ShownNoneLeft ==
  ASSUME Shape, History, QueueInTurn, ScreenTape, Screen, Shown, Subscribed, [Next]_vars,
         since' = since
  PROVE  NoneLeft'
<1>1. /\ Story' = Story /\ Recent' = Recent
      /\ \A i \in DOMAIN Story : Withdraws(i)' = Withdraws(i)
  BY ShownSame
<1> SUFFICES ASSUME NEW j \in Recent, Withdraws(j), ~ Coming(j)', NEW n \in DOMAIN feed'.tape
             PROVE  feed'.tape[n].slot # Story[j].slot
  <2>1. \A j \in Recent : j \in DOMAIN Story
    BY DEF Recent
  <2> QED BY <1>1, <2>1 DEF NoneLeft
<1>2. j \in DOMAIN Story /\ Effect(j)
  BY DEF Recent, Effect
<1>3. CASE IsFrameOf(Head(Pipe), j)
  <2>1. Head(Pipe).kind = "Retract" /\ Head(Pipe).slot = Story[j].slot
    BY <1>3 DEF IsFrameOf, Prints, Withdraws
  <2>2. \A p : ~ (IsFrameOf(Head(Pipe), p) /\ feed'.tape[n] \in Fills(p))
    BY <2>1 DEF IsFrameOf, Fills, Prints, Withdraws
  <2> QED BY <2>1, <2>2, ShownEntries
<1>4. CASE ~ Coming(j)
  <2>1. CASE \E k \in DOMAIN feed.tape : feed'.tape[n] = feed.tape[k]
    BY <1>4, <2>1 DEF Screen, NoneLeft
  <2>2. ASSUME NEW p \in DOMAIN Story, IsFrameOf(Head(Pipe), p), feed'.tape[n] \in Fills(p)
        PROVE  feed'.tape[n].slot # Story[j].slot
    <3>1. j < p
      BY <1>2, <1>4, <2>2, ShownIsLater
    <3>2. feed'.tape[n].slot = Story[p].slot /\ Story[p].kind = "Change"
      BY <2>2, FillIs DEF History, Prints
    <3> QED BY <1>2, <3>1, <3>2 DEF History, InTurn
  <2> QED BY <2>1, <2>2, ShownEntries
<1> QED BY <1>2, <1>3, <1>4, ShownComing

LEMMA ShownNoneOvertaken ==
  ASSUME Shape, History, QueueInTurn, ScreenTape, ScreenTape', SinceIsPast, NoneLost',
         Screen, Shown, Subscribed, [Next]_vars, since' = since
  PROVE  NoneOvertaken'
<1>1. /\ Story' = Story /\ Recent' = Recent
      /\ \A i \in DOMAIN Story : /\ Effect(i)' = Effect(i) /\ Fills(i)' = Fills(i)
                                 /\ Withdraws(i)' = Withdraws(i)
      /\ \A i, p \in DOMAIN Story : Overtaken(p, i)' <=> Overtaken(p, i)
  BY ShownSame
<1> SUFFICES ASSUME NEW i \in Recent, NEW p \in DOMAIN Story, Overtaken(p, i), ~ Coming(p)',
                    NEW n \in DOMAIN feed'.tape, feed'.tape[n] \in Fills(i)
             PROVE  FALSE
  <2>1. \A j \in Recent : j \in DOMAIN Story
    BY DEF Recent
  <2> QED BY <1>1, <2>1 DEF NoneOvertaken
<1>2. i \in DOMAIN Story /\ i \in Nat /\ p \in Nat /\ since \in Nat /\ i > since
  <2>1. i \in DOMAIN Story /\ i > since
    BY DEF Recent
  <2> QED BY <2>1, StoryType DEF SinceIsPast
<1>3. i < p /\ Prints(p) /\ Effect(p) /\ p \in Recent
  BY <1>2, OvertakenIs DEF Effect, Recent
<1> PICK t : t = feed'.tape[n]
  OBVIOUS
<1>4. CASE ~ Coming(p)
  <2>1. ~ \E k \in DOMAIN feed.tape : t = feed.tape[k]
    BY <1>4 DEF Screen, NoneOvertaken
  <2>2. PICK q \in DOMAIN Story : IsFrameOf(Head(Pipe), q) /\ t \in Fills(q)
    BY <2>1, ShownEntries
  <2>3. i = q
    BY <1>2, <2>2, FillOnce DEF History
  <2>4. p < q
    BY <1>3, <1>4, <2>2, ShownIsLater
  <2> QED BY <1>2, <1>3, <2>3, <2>4
<1>5. CASE IsFrameOf(Head(Pipe), p)
  <2>1. PICK G \in SUBSET AllFills : Overtakes(G, p, i)
    BY DEF Overtaken
  <2>2. ASSUME NEW g \in G PROVE g \in Range(feed'.tape) /\ g # t
    <3>1. PICK k \in i + 1 .. p : g \in Fills(k)
      BY <2>1 DEF Overtakes
    <3>2. k \in DOMAIN Story /\ k \in Nat /\ i < k /\ k <= p /\ k \in Recent
      <4>1. k \in Nat /\ i < k /\ k <= p
        BY <1>2
      <4>2. k \in DOMAIN Story
        BY <1>2, <4>1, StoryType
      <4> QED BY <1>2, <4>1, <4>2 DEF Recent
    <3>3. ~ Coming(k)'
      <4>1. Coming(k)' => p < k
        BY <1>5, <3>2, ShownComing
      <4> QED BY <1>2, <3>2, <4>1
    <3>4. ASSUME NEW j \in DOMAIN Story, Withdraws(j), Story[j].slot = g.slot
          PROVE  Coming(j)'
      <4>1. j \in Nat
        BY StoryType
      <4>2. ~ (j \in 1 .. p)
        BY <2>1, <3>4 DEF Overtakes
      <4>3. p < j
        BY <1>2, <4>1, <4>2, StoryType
      <4>4. j \in Recent /\ Effect(j)
        BY <1>2, <1>3, <3>4, <4>1, <4>3 DEF Recent, Effect
      <4>5. Coming(j)
        BY <1>2, <1>3, <1>5, <4>1, <4>3, <4>4, ShownComing DEF Screen, InOrder
      <4>6. ~ IsFrameOf(Head(Pipe), j)
        BY <1>2, <1>5, <4>1, <4>3, FrameOnce
      <4> QED BY <4>5, <4>6, ShownComing
    <3>5. Standing(g.slot)'
      BY <1>1, <3>4 DEF Standing
    <3>6. k \in Recent' /\ g \in Fills(k)'
      BY <1>1, <3>1, <3>2
    <3>7. g \in Range(feed'.tape) \/ Missed(g)'
      BY <3>3, <3>5, <3>6 DEF NoneLost
    <3>8. t.change < g.change /\ t.change \in Nat /\ g.change \in Nat
      BY <1>2, <3>1, <3>2, FillOnce, FillIs DEF History
    <3>9. ~ Missed(g)'
      <4>1. ~ Above(t, g)
        BY <3>8 DEF Above
      <4> QED BY <4>1 DEF Missed
    <3> QED BY <3>7, <3>8, <3>9
  <2>3. feed'.tape \in Seq(Fill) /\ Len(feed'.tape) <= ViewerTape /\ Len(feed'.tape) \in Nat
    BY DEF ScreenTape
  <2>4. /\ IsFiniteSet(Range(feed'.tape)) /\ Cardinality(Range(feed'.tape)) \in Nat
        /\ Cardinality(Range(feed'.tape)) <= Len(feed'.tape)
    BY <2>3, MembersCounted
  <2>5. IsFiniteSet(G) /\ Cardinality(G) >= ViewerTape
    BY <2>1 DEF Overtakes
  <2>6. t \in Range(feed'.tape) /\ t \notin G /\ G \subseteq Range(feed'.tape)
    BY <2>2 DEF Range
  <2>7. IsFiniteSet(G \cup {t}) /\ Cardinality(G \cup {t}) = Cardinality(G) + 1
    BY <2>5, <2>6, FS_AddElement
  <2>8. Cardinality(G \cup {t}) <= Cardinality(Range(feed'.tape))
    <3> PICK shown : shown = Range(feed'.tape)
      OBVIOUS
    <3>1. G \cup {t} \in SUBSET shown /\ IsFiniteSet(shown)
      BY <2>4, <2>6
    <3> QED BY <3>1, FS_Subset
  <2>9. Cardinality(G) \in Nat
    BY <2>5, FS_CardinalityType
  <2> QED BY <2>3, <2>4, <2>5, <2>7, <2>8, <2>9, ViewerAssumption
<1> QED BY <1>4, <1>5, ShownComing

LEMMA ScreenStep ==
  ASSUME Shape, History, Real, QueueInTurn, ScreenTape, SinceIsPast, Live => Screen, [Next]_vars
  PROVE  Live' => Screen'
<1>1. ASSUME Live, Handle PROVE Screen'
  <2>1. Shown /\ since' = since /\ Subscribed /\ Screen
    BY <1>1, HandleStep DEF Handle, Live
  <2>2. ScreenTape'
    BY ScreenTapeStep
  <2>3. InOrder'
    BY <2>1, ShownInOrder
  <2>4. NoneLost'
    BY <2>1, <2>2, ShownNoneLost
  <2>5. NoneLeft'
    BY <2>1, ShownNoneLeft
  <2>6. NoneOvertaken'
    BY <2>1, <2>2, <2>4, ShownNoneOvertaken
  <2> QED BY <2>3, <2>4, <2>5, <2>6 DEF Screen
<1>2. ASSUME Live, UNCHANGED session \/ SendSnapshot \/ Forward
                     \/ (Stays /\ UNCHANGED <<ingest, server, since>>)
      PROVE  Screen'
  <2>1. Subscribed /\ Screen
    BY <1>2 DEF Live
  <2> QED BY <1>2, <2>1, ScreenQuietSteps
<1> QED BY <1>1, <1>2, LiveStep, ScreenConnect

-----------------------------------------------------------------------------
(* The bounds. *)

Bounded ==
  /\ view.state <= MaxChanges /\ view.finalized_through <= MaxSlot
  /\ \A i \in DOMAIN Story : Story[i].kind = "Change" => Story[i].book <= MaxChanges
  /\ dead \subseteq 1 .. MaxSlot
  /\ Len(wire) <= WireCapacity
  /\ socket = "up" <=> Subscribed

LEMMA BoundedInit ==
  ASSUME Init
  PROVE  Bounded
<1>1. view.state = 0 /\ view.finalized_through = 0
  BY DEF Init, SeedView, NewView, NoView
<1>2. Story = <<>>
  BY DEF Init, Story
<1> QED BY <1>1, <1>2, FeedAssumption DEF Init, Bounded, NoServer, Subscribed

LEMMA BoundedStep ==
  ASSUME Shape, History, Bounded, [Next]_vars
  PROVE  Bounded'
<1>1. view.tape \in Seq(Fill) /\ view.state \in Nat /\ wire \in Seq(Frames)
  BY DEF History, RegistryTape, Shape, ViewShape
<1>2. /\ view'.state <= MaxChanges /\ view'.finalized_through <= MaxSlot
      /\ dead' \subseteq 1 .. MaxSlot
  <2>1. CASE Derive
    <3>1. PICK e \in ChangeEvent :
            /\ e.book \in {view.state, Changes + 1} /\ Changes < MaxChanges
            /\ view'.state = e.book /\ view'.finalized_through = view.finalized_through
            /\ dead' = dead
      BY <2>1, DerivedEvent
    <3>2. Changes + 1 <= MaxChanges
      BY <3>1, CountsAreNat, FeedAssumption
    <3> QED BY <3>1, <3>2 DEF Bounded
  <2>2. CASE Finalize
    <3>1. PICK slot \in 1 .. MaxSlot : view' = FinalizeView(view, slot)
      BY <2>2 DEF Finalize
    <3>2. view'.finalized_through \in {view.finalized_through, slot} /\ view'.state = view.state
      BY <3>1, FieldNames DEF FinalizeView, Shape, ViewShape, ViewFields
    <3>3. slot <= MaxSlot /\ dead' = dead
      BY <2>2, FeedAssumption DEF Finalize
    <3> QED BY <3>2, <3>3 DEF Bounded
  <2>3. CASE Abandon
    <3>1. view'.state = view.state /\ view'.finalized_through = view.finalized_through
      BY <2>3, AbandonStep
    <3>2. \E slot \in 1 .. MaxSlot : dead' = dead \cup {slot}
      BY <1>1, <2>3, AbandonedEvent
    <3> QED BY <3>1, <3>2 DEF Bounded
  <2>4. CASE UNCHANGED <<view, dead>>
    BY <2>4 DEF Bounded
  <2> QED
    BY <2>1, <2>2, <2>3, <2>4, ForwardCases, LagCases
       DEF Next, Ingest, Broadcast, OtherMarket, Connect, SendSnapshot, ReadFrame, Break, Handle,
           ingest, vars
<1>3. \A i \in DOMAIN Story' : Story'[i].kind = "Change" => Story'[i].book <= MaxChanges
  <2>1. ASSUME NEW e \in Event, Story' = Append(Story, e), e.kind = "Change" => e.book <= MaxChanges
        PROVE  \A i \in DOMAIN Story' : Story'[i].kind = "Change" => Story'[i].book <= MaxChanges
    BY <2>1, StoryAppends DEF Bounded
  <2>2. CASE Derive
    <3>1. PICK e \in ChangeEvent :
            /\ Story' = Append(Story, e) /\ e \in Event
            /\ e.book \in {view.state, Changes + 1} /\ Changes < MaxChanges
      BY <2>2, DerivedEvent
    <3>2. Changes + 1 <= MaxChanges /\ view.state <= MaxChanges
      BY <3>1, CountsAreNat, FeedAssumption DEF Bounded
    <3> QED BY <2>1, <3>1, <3>2
  <2>3. CASE Abandon
    <3>1. Story' = Story \/ \E e \in RetractedEvent : Story' = Append(Story, e) /\ e \in Event
      BY <1>1, <2>3, AbandonedEvent
    <3>2. \A e \in RetractedEvent : e.kind # "Change"
      BY DEF RetractedEvent
    <3> QED BY <2>1, <3>1, <3>2 DEF Bounded
  <2>4. CASE \E e \in OtherEvent : Story' = Append(Story, e) /\ e \in Event
    <3>1. \A e \in OtherEvent : e.kind # "Change"
      BY DEF OtherEvent
    <3> QED BY <2>1, <2>4, <3>1
  <2>5. CASE Story' = Story
    BY <2>5 DEF Bounded
  <2> QED BY <2>2, <2>3, <2>4, <2>5, StoryCases
<1>4. Len(wire') <= WireCapacity /\ (socket' = "up" <=> Subscribed')
  <2>1. CASE Ingest \/ Handle \/ UNCHANGED vars
    <3>1. UNCHANGED <<wire, socket, server>>
      BY <2>1 DEF Ingest, Derive, Broadcast, OtherMarket, Finalize, Abandon, Handle, session, vars
    <3> QED BY <3>1 DEF Bounded, Subscribed
  <2>2. CASE Connect
    BY <2>2, FeedAssumption DEF Connect, Subscribed
  <2>3. CASE SendSnapshot
    <3>1. Len(wire) < WireCapacity /\ wire' = Append(wire, Snapshot(view)) /\ socket' = socket
      BY <2>3 DEF SendSnapshot
    <3>2. Len(wire') = Len(wire) + 1 /\ Len(wire) \in Nat
      BY <1>1, <3>1
    <3>3. Subscribed /\ Subscribed'
      BY <2>3 DEF SendSnapshot, Subscribed, Shape
    <3> QED BY <3>1, <3>2, <3>3, FeedAssumption DEF Bounded
  <2>4. ASSUME NEW m, wire' = Append(wire, m) \/ wire' = wire, Len(wire) < WireCapacity,
               server.phase = "streaming", server'.phase = "streaming", socket' = socket
        PROVE  Len(wire') <= WireCapacity /\ (socket' = "up" <=> Subscribed')
    <3>1. Len(wire') \in {Len(wire), Len(wire) + 1} /\ Len(wire) \in Nat
      BY <1>1, <2>4
    <3> QED BY <2>4, <3>1, FeedAssumption DEF Bounded, Subscribed
  <2>5. CASE Forward
    <3>1. /\ wire' = Append(wire, Frame(log[server.next])) \/ wire' = wire
          /\ server.phase = "streaming" /\ server'.phase = "streaming" /\ socket' = socket
      BY <2>5, ForwardCases DEF Shape
    <3>2. Len(wire) < WireCapacity
      BY <2>5 DEF Forward, Receives
    <3> QED BY <2>4, <3>1, <3>2
  <2>6. CASE Lag
    <3>1. /\ wire' = Append(wire, LagNotice)
          /\ server.phase = "streaming" /\ server'.phase = "streaming" /\ socket' = socket
      BY <2>6, LagCases DEF Shape, LagNotice
    <3>2. Len(wire) < WireCapacity
      BY <2>6 DEF Lag, Receives
    <3> QED BY <2>4, <3>1, <3>2
  <2>7. CASE Drop
    BY <2>7, FeedAssumption DEF Drop, NoServer, Subscribed
  <2>8. CASE wire # <<>> /\ wire' = Tail(wire) /\ UNCHANGED <<socket, server>>
    <3>1. Len(wire') <= Len(wire) /\ Len(wire) \in Nat /\ Len(wire') \in Nat
      BY <1>1, <2>8
    <3> QED BY <2>8, <3>1, FeedAssumption DEF Bounded, Subscribed
  <2> QED BY <2>1, <2>2, <2>3, <2>5, <2>6, <2>7, <2>8 DEF Next, ReadFrame, Break
<1> QED BY <1>2, <1>3, <1>4 DEF Bounded

-----------------------------------------------------------------------------
(* The theorem. *)

(* The inductive invariant. *)
TapeInv ==
  /\ FeedInv /\ History /\ QueueInTurn /\ ScreenTape /\ SinceIsPast
  /\ Live => Screen
  /\ Bounded

LEMMA TapeInvInit ==
  ASSUME Init
  PROVE  TapeInv
<1>1. /\ Pipe = <<>> /\ feed.tape = <<>> /\ ~ Live /\ since = 0 /\ log = <<>> /\ ~ Subscribed
  BY DEF Init, Pipe, NoFeed, Live, NoServer, Subscribed
<1>2. QueueInTurn
  BY <1>1 DEF QueueInTurn
<1>3. ScreenTape
  <2>1. feed.tape \in Seq(Fill) /\ Len(feed.tape) <= ViewerTape /\ DOMAIN feed.tape = {}
    BY <1>1, ViewerAssumption
  <2> QED BY <2>1 DEF ScreenTape, TapeIsOrdered
<1>4. SinceIsPast
  BY <1>1 DEF SinceIsPast
<1> QED BY <1>1, <1>2, <1>3, <1>4, FeedInvInit, HistoryInit, BoundedInit DEF TapeInv

LEMMA TapeInvStep ==
  ASSUME TapeInv, [Next]_vars
  PROVE  TapeInv'
<1>1. Shape /\ Real
  BY DEF TapeInv, FeedInv
<1> QED
  BY <1>1, FeedInvStep, HistoryStep, QueueInTurnStep, ScreenTapeStep, SinceStep, ScreenStep,
     BoundedStep DEF TapeInv

(* The story is in order and accounts for every fill, the queue and the    *)
(* screen hold its events in turn, and a live connection has lost none.    *)
THEOREM TapeInvariant == Spec => []TapeInv
  BY TapeInvInit, TapeInvStep, PTL DEF Spec

LEMMA TypesHold ==
  ASSUME TapeInv
  PROVE  TypeOK
<1>1. Shape /\ Bounded /\ Real /\ ScreenTape
  BY DEF TapeInv, FeedInv
<1>2. feed.book \in 0 .. MaxChanges
  <2>1. <<feed.slot, feed.book>> \in Books
    BY <1>1 DEF Real
  <2>2. CASE <<feed.slot, feed.book>> = <<0, 0>>
    BY <2>2, FeedAssumption
  <2>3. ASSUME NEW e \in Range(Story), e.kind = "Change", <<feed.slot, feed.book>> = <<e.slot, e.book>>
        PROVE  feed.book \in 0 .. MaxChanges
    <3>1. PICK i \in DOMAIN Story : e = Story[i]
      BY <2>3 DEF Range
    <3>2. e \in ChangeEvent /\ e.book <= MaxChanges
      BY <1>1, <2>3, <3>1, StoryType, EventKinds DEF Bounded
    <3>3. feed.book = e.book /\ e.book \in Nat
      BY <2>3, <3>2 DEF ChangeEvent
    <3> QED BY <3>2, <3>3, FeedAssumption
  <2> QED BY <2>1, <2>2, <2>3 DEF Books, Story
<1>3. view.state \in 0 .. MaxChanges /\ view.finalized_through \in 0 .. MaxSlot
  BY <1>1, FeedAssumption DEF Shape, ViewShape, Bounded
<1> QED BY <1>1, <1>2, <1>3 DEF TypeOK, Shape, Bounded, ScreenTape

(* The fills of an event are finitely many. *)
LEMMA RecentAreFinite ==
  ASSUME Shape, History, since \in Nat
  PROVE  IsFiniteSet(RecentFills)
<1>1. IsFiniteSet(Recent)
  <2>1. IsFiniteSet(1 .. Len(Story)) /\ Recent \in SUBSET (1 .. Len(Story))
    BY StoryType, FS_Interval DEF Recent
  <2> QED BY <2>1, FS_Subset
<1>2. ASSUME NEW i \in Recent PROVE IsFiniteSet(Fills(i))
  <2>1. CASE Prints(i)
    <3>1. Story[i] \in ChangeEvent
      BY <2>1, StoryType, EventKinds DEF Prints, Recent
    <3>2. Story[i].trades \in Seq(Fill)
      BY <3>1 DEF ChangeEvent
    <3> QED BY <2>1, <3>2, MembersCounted DEF Fills
  <2>2. CASE ~ Prints(i)
    BY <2>2, FS_EmptySet DEF Fills
  <2> QED BY <2>1, <2>2
<1> DEFINE sets == {Fills(i) : i \in Recent}
           f == [i \in Recent |-> Fills(i)]
<1>3. f \in Surjection(Recent, sets)
  BY DEF Surjection
<1>4. IsFiniteSet(sets)
  <2> HIDE DEF f, sets
  <2> QED BY <1>1, <1>3, FS_Surjection
<1>5. IsFiniteSet(UNION sets)
  <2>1. \A T \in sets : IsFiniteSet(T)
    BY <1>2
  <2> HIDE DEF sets
  <2> QED BY <1>4, <2>1, FS_UNION
<1> QED BY <1>5 DEF RecentFills

(* When all has been handled, the recent fills are those broadcast on the  *)
(* connection and nothing is still to come.                                *)
LEMMA AllHasCome ==
  ASSUME TapeInv, CaughtUp
  PROVE  /\ Screen /\ RecentFills = SentSince
         /\ \A i \in DOMAIN Story : ~ Coming(i)
<1>1. /\ server.phase = "streaming" /\ server.next = Len(log) + 1
      /\ unsent = <<>> /\ wire = <<>> /\ inbox = <<>> /\ Shape /\ since \in Nat
  BY DEF CaughtUp, TapeInv, FeedInv, SinceIsPast
<1>2. Story = log /\ Pipe = <<>>
  BY <1>1 DEF Story, Pipe, Shape
<1>3. Screen
  <2>1. Live
    BY <1>1 DEF Live, Subscribed
  <2> QED BY <2>1 DEF TapeInv
<1>4. ASSUME NEW i \in DOMAIN Story PROVE ~ Coming(i)
  <2>1. i \in 1 .. Len(log) /\ Len(log) \in Nat
    BY <1>1, <1>2, StoryType
  <2> QED BY <1>1, <1>2, <2>1 DEF Coming
<1>5. RecentFills = SentSince
  <2>1. DOMAIN log = 1 .. Len(log) /\ Len(log) \in Nat
    BY <1>1, <1>2, StoryType
  <2>2. Recent = since + 1 .. Len(log)
    BY <1>1, <1>2, <2>1 DEF Recent
  <2>3. ASSUME NEW t \in RecentFills PROVE t \in SentSince
    <3>1. PICK i \in Recent : t \in Fills(i)
      BY DEF RecentFills
    <3>2. log[i].kind = "Change" /\ t \in Range(log[i].trades)
      BY <1>2, <3>1 DEF Fills, Prints
    <3> QED BY <2>2, <3>1, <3>2 DEF SentSince
  <2>4. ASSUME NEW t \in SentSince PROVE t \in RecentFills
    <3>1. PICK i \in Recent : log[i].kind = "Change" /\ t \in Range(log[i].trades)
      BY <2>2 DEF SentSince
    <3>2. log[i].trades # <<>>
      BY <3>1 DEF Range
    <3> QED BY <1>2, <3>1, <3>2 DEF RecentFills, Fills, Prints
  <2> QED BY <2>3, <2>4
<1> QED BY <1>3, <1>4, <1>5

LEMMA PrintsHold ==
  ASSUME TapeInv
  PROVE  PrintsAreComplete
<1> SUFFICES ASSUME CaughtUp
             PROVE  LET kept  == {fill \in SentSince : fill.slot \notin dead}
                        shown == Range(feed.tape)
                    IN  /\ Leads(kept, shown) \/ Leads(shown, kept)
                        /\ Cardinality(SentSince) <= ViewerTape => kept \subseteq shown
  BY DEF PrintsAreComplete
<1> DEFINE kept == {fill \in SentSince : fill.slot \notin dead}
           shown == Range(feed.tape)
<1>1. Shape /\ History /\ SinceIsPast /\ ScreenTape
  BY DEF TapeInv, FeedInv
<1>2. Screen /\ RecentFills = SentSince /\ \A i \in DOMAIN Story : ~ Coming(i)
  BY AllHasCome
<1>3. \A i \in Recent : i \in DOMAIN Story /\ i \in Nat /\ i > since
  BY <1>1, StoryType DEF Recent
<1>4. \A t \in shown : \E i \in DOMAIN Story : t \in Fills(i)
  BY <1>1, PastIs DEF ScreenTape, Range
<1>5. \A t \in kept : t.slot \notin dead /\ \E i \in Recent : t \in Fills(i)
  BY <1>2 DEF RecentFills
<1>6. ASSUME NEW i \in Recent, NEW t \in Fills(i), t \in shown
      PROVE  t \in kept
  <2>1. /\ i \in DOMAIN Story /\ Prints(i) /\ Story[i].kind = "Change" /\ t.slot = Story[i].slot
    BY <1>1, <1>3, FillIs DEF History, Prints
  <2>2. ASSUME NEW j \in DOMAIN Story, Withdraws(j), Story[j].slot = Story[i].slot
        PROVE  FALSE
    <3>1. CASE j \in Recent
      BY <1>2, <1>6, <2>1, <2>2, <3>1 DEF Screen, NoneLeft, Range
    <3>2. CASE j \notin Recent
      <4>1. j < i
        BY <1>1, <1>3, <3>2, StoryType DEF Recent, SinceIsPast
      <4> QED BY <1>1, <2>1, <2>2, <4>1 DEF History, InTurn
    <3> QED BY <3>1, <3>2
  <2>3. \A p \in DOMAIN Story : ~ Overtaken(p, i)
    BY <1>2, <1>6 DEF Screen, NoneOvertaken, Range
  <2>4. \E a \in DOMAIN view.tape : view.tape[a].slot = Story[i].slot
    BY <1>1, <2>1, <2>2, <2>3 DEF History, Accounted
  <2>5. t.slot \notin dead
    BY <1>1, <2>1, <2>4 DEF History, RegistryTape
  <2>6. t \in SentSince
    BY <1>2 DEF RecentFills
  <2> QED BY <2>5, <2>6
<1>7. ASSUME NEW t \in kept PROVE t \in shown \/ Missed(t)
  <2>1. PICK i \in Recent : t \in Fills(i)
    BY <1>5
  <2>2. Standing(t.slot)
    BY <1>1, <1>5 DEF Standing, History, WithdrawnOnce
  <2> QED BY <1>2, <1>3, <2>1, <2>2 DEF Screen, NoneLost
<1>8. ASSUME kept \subseteq shown PROVE Leads(kept, shown)
  <2>1. ASSUME NEW t \in kept, NEW u \in shown, u \notin kept PROVE Above(t, u)
    <3>1. PICK i \in Recent : t \in Fills(i)
      BY <1>5
    <3>2. PICK j \in DOMAIN Story : u \in Fills(j)
      BY <1>4
    <3>3. j \notin Recent
      BY <1>6, <2>1, <3>2
    <3>4. j < i
      BY <1>1, <1>3, <3>3, StoryType DEF Recent, SinceIsPast
    <3>5. u.change < t.change /\ t.change \in Nat /\ u.change \in Nat
      BY <1>1, <1>3, <3>1, <3>2, <3>4, FillOnce, FillIs DEF History
    <3> QED BY <3>5 DEF Above
  <2> QED BY <1>8, <2>1 DEF Leads
<1>9. ASSUME NEW missing \in kept, missing \notin shown
      PROVE  Leads(shown, kept) /\ ~ (Cardinality(SentSince) <= ViewerTape)
  <2>1. Crowded /\ \A n \in DOMAIN feed.tape : Above(feed.tape[n], missing)
    BY <1>7, <1>9 DEF Missed
  <2>2. PICK i \in Recent : missing \in Fills(i)
    BY <1>5, <1>9
  <2>3. ASSUME NEW u \in shown PROVE u \in kept
    <3>1. PICK j \in DOMAIN Story : u \in Fills(j)
      BY <1>4
    <3>2. Above(u, missing)
      BY <2>1 DEF Range
    <3>3. j \in Recent
      BY <1>1, <2>2, <3>1, <3>2, AboveIsRecent
    <3> QED BY <1>6, <3>1, <3>3
  <2>4. ASSUME NEW u \in shown, NEW t \in kept, t \notin shown PROVE Above(u, t)
    <3>1. Missed(t)
      BY <1>7, <2>4
    <3> QED BY <3>1 DEF Missed, Range
  <2>5. Leads(shown, kept)
    BY <2>3, <2>4 DEF Leads
  <2>6. PICK G \in SUBSET SentSince : IsFiniteSet(G) /\ Cardinality(G) > ViewerTape
    BY <1>2, <2>1 DEF Crowded
  <2>7. IsFiniteSet(SentSince)
    BY <1>1, <1>2, RecentAreFinite DEF SinceIsPast
  <2>8. Cardinality(G) <= Cardinality(SentSince)
    BY <2>6, <2>7, FS_Subset
  <2>9. Cardinality(G) \in Nat /\ Cardinality(SentSince) \in Nat
    BY <2>6, <2>7, FS_CardinalityType
  <2> QED BY <2>5, <2>6, <2>8, <2>9, ViewerAssumption
<1> HIDE DEF kept, shown
<1>10. kept \subseteq shown \/ \E missing \in kept : missing \notin shown
  OBVIOUS
<1>11. /\ Leads(kept, shown) \/ Leads(shown, kept)
       /\ Cardinality(SentSince) <= ViewerTape => kept \subseteq shown
  BY <1>8, <1>9, <1>10, Zenon
<1> QED BY <1>11 DEF kept, shown

(* The tape stays within its length and in order and, once everything sent *)
(* has been handled, shows every fill the connection brought that was not  *)
(* withdrawn, or is full of later ones; and none that was withdrawn.       *)
THEOREM TapeAlwaysComplete == Spec => []TapeIsComplete
<1>1. TapeInv => TapeIsComplete
  BY TypesHold, PrintsHold DEF TapeIsComplete, TapeInv, ScreenTape
<1> QED BY <1>1, TapeInvariant, PTL
=============================================================================
