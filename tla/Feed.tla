-------------------------------- MODULE Feed --------------------------------
(***************************************************************************)
(* The live feed of one market, from the registry to a terminal: ingest    *)
(* writes the view and then broadcasts, a bounded ring keeps the last      *)
(* events for every subscriber, the socket's task sends a snapshot and     *)
(* then what it receives, and the terminal's task reads frames and hands   *)
(* them to the screen.  What ingest does to the view is in Stream; here it *)
(* is any legal sequence of changes, roots and abandoned slots.            *)
(*                                                                         *)
(* Source: crates/clob-stream/src/api/ws.rs, crates/clob-stream/src/       *)
(* registry.rs, crates/clob-tui/src/indexer.rs, app.rs, main.rs            *)
(***************************************************************************)
EXTENDS Registry, Viewer, FiniteSets, Functions

CONSTANTS
  BroadcastCapacity, \* BROADCAST_CAPACITY: events the ring keeps
  WireCapacity,      \* bound: frames in flight before a send waits
  TradeCounts,       \* fills one transaction can have
  MaxSlot,           \* bound: the last slot
  MaxChanges,        \* bound: transactions derived
  MaxOthers,         \* bound: changes of other markets
  MaxInbox,          \* bound: frames read and not yet applied
  MaxBreaks          \* bound: connections lost

ASSUME FeedAssumption ==
  /\ BroadcastCapacity \in Nat \ {0} /\ WireCapacity \in Nat \ {0}
  /\ TradeCounts \subseteq Nat
  /\ MaxSlot \in Nat /\ MaxChanges \in Nat /\ MaxOthers \in Nat
  /\ MaxInbox \in Nat \ {0} /\ MaxBreaks \in Nat

(* A terminal keeps fewer fills than the registry: 256 and 1,024. *)
ASSUME TapesAssumption == ViewerTape <= TapeCapacity

VARIABLES
  view,    \* the registry's view of the market
  unsent,  \* written to the view, not yet broadcast
  log,     \* every event ever broadcast; the ring is its last part
  dead,    \* abandoned slots
  server,  \* the socket's task: its phase and its place in the log
  wire,    \* frames in flight
  socket,  \* the terminal's end: "down" or "up"
  inbox,   \* frames read, not yet applied
  feed,    \* what the terminal shows
  since,   \* history: length of the log when the terminal last subscribed
  breaks   \* history: connections lost

ingest == <<view, unsent, log, dead>>
session == <<server, wire, socket, inbox, feed, since, breaks>>
vars == <<ingest, session>>

NoServer == [phase |-> "closed", next |-> 0]

Init ==
  /\ view = SeedView(NoView, 0, 0)
  /\ unsent = <<>>
  /\ log = <<>>
  /\ dead = {}
  /\ server = NoServer
  /\ wire = <<>>
  /\ socket = "down"
  /\ inbox = <<>>
  /\ feed = NoFeed
  /\ since = 0
  /\ breaks = 0

-----------------------------------------------------------------------------
(* Ingest. *)

Count(events, kind) == Cardinality({n \in DOMAIN events : events[n].kind = kind})
Changes == Count(log \o unsent, "Change")
Others == Count(log, "Other")

(* A transaction on the market: it moves only funds, or the book, with or  *)
(* without fills.  Slots are in order, and no abandoned slot comes back.   *)
Derive ==
  \E slot \in view.slot .. MaxSlot, moves_book \in BOOLEAN, count \in TradeCounts :
    LET state  == IF moves_book THEN Changes + 1 ELSE view.state
        trades == [n \in 1 .. count |-> [slot |-> slot, change |-> Changes + 1, n |-> n]]
    IN  /\ unsent = <<>>
        /\ Changes < MaxChanges
        /\ slot > 0 /\ slot \notin dead /\ slot > view.finalized_through
        /\ count > 0 => moves_book
        /\ view' = ApplyDerived(view, state, slot, trades)
        /\ unsent' = <<[kind |-> "Change", slot |-> slot, book |-> state, trades |-> trades,
                        empty |-> ~ moves_book]>>
        /\ UNCHANGED <<log, dead, session>>

(* The write lock is released before the event is sent. *)
Broadcast ==
  /\ unsent # <<>>
  /\ log' = Append(log, Head(unsent))
  /\ unsent' = Tail(unsent)
  /\ UNCHANGED <<view, dead, session>>

OtherMarket ==
  /\ unsent = <<>>
  /\ Others < MaxOthers
  /\ log' = Append(log, [kind |-> "Other"])
  /\ UNCHANGED <<view, unsent, dead, session>>

(* The watermark moves without an event; a slot status can be repeated. *)
Finalize ==
  \E slot \in 1 .. MaxSlot :
    /\ unsent = <<>>
    /\ slot \notin dead
    /\ view' = FinalizeView(view, slot)
    /\ UNCHANGED <<unsent, log, dead, session>>

(* A slot is abandoned before it or a later one is rooted. *)
Abandon ==
  \E slot \in 1 .. MaxSlot :
    LET after == RetractView(view, slot)
        removed == Len(view.tape) - Len(after.tape)
    IN  /\ unsent = <<>>
        /\ slot > view.finalized_through /\ slot \notin dead
        /\ view' = after
        /\ dead' = dead \cup {slot}
        /\ unsent' = IF removed = 0 THEN <<>>
                     ELSE <<[kind |-> "Retracted", slot |-> slot, trades |-> removed]>>
        /\ UNCHANGED <<log, session>>

Ingest == Derive \/ Broadcast \/ OtherMarket \/ Finalize \/ Abandon

-----------------------------------------------------------------------------
(* The socket's task. *)

Subscribed == server.phase \in {"subscribed", "streaming"}

(* The upgrade subscribes before it reads anything. *)
Connect ==
  /\ socket = "down"
  /\ socket' = "up"
  /\ server' = [phase |-> "subscribed", next |-> Len(log) + 1]
  /\ wire' = <<>>
  /\ since' = Len(log)
  /\ UNCHANGED <<ingest, inbox, feed, breaks>>

SendSnapshot ==
  /\ server.phase = "subscribed"
  /\ Len(wire) < WireCapacity
  /\ wire' = Append(wire, Snapshot(view))
  /\ server' = [server EXCEPT !.phase = "streaming"]
  /\ UNCHANGED <<ingest, socket, inbox, feed, since, breaks>>

Oldest == IF Len(log) > BroadcastCapacity THEN Len(log) - BroadcastCapacity + 1 ELSE 1

(* Mutant of Shows: only fills are worth a frame. *)
ShowsFills(event) == event.kind = "Retracted" \/ (event.kind = "Change" /\ event.trades # <<>>)

(* What a subscriber of this market can see. *)
Shows(event) == event.kind = "Retracted" \/ (event.kind = "Change" /\ ~ event.empty)

(* Mutant of Update: the registry's book beside the event's slot. *)
UpdateFromView(event) ==
  [kind |-> "Update", book |-> view.state, slot |-> event.slot,
   trades |-> event.trades, finalized_through |-> view.finalized_through]

(* The book is the event's own; the watermark is the registry's, now. *)
Update(event) ==
  [kind |-> "Update", book |-> event.book, slot |-> event.slot,
   trades |-> event.trades, finalized_through |-> view.finalized_through]

Frame(event) ==
  IF event.kind = "Change" THEN Update(event)
  ELSE [kind |-> "Retract", slot |-> event.slot, trades |-> event.trades]

Sends(frames, next) ==
  /\ wire' = wire \o frames
  /\ server' = [server EXCEPT !.next = next]
  /\ UNCHANGED <<ingest, socket, inbox, feed, since, breaks>>

Receives == server.phase = "streaming" /\ Len(wire) < WireCapacity

Forward ==
  /\ Receives
  /\ server.next \in Oldest .. Len(log)
  /\ LET event == log[server.next]
     IN  Sends(IF Shows(event) THEN <<Frame(event)>> ELSE <<>>, server.next + 1)

(* The ring has overwritten what this subscriber was to receive next. *)
Lag ==
  /\ Receives
  /\ server.next < Oldest
  /\ Sends(<<[kind |-> "Lagged", missed |-> Oldest - server.next]>>, Oldest)

-----------------------------------------------------------------------------
(* The terminal. *)

Drop ==
  /\ socket' = "down"
  /\ server' = NoServer
  /\ wire' = <<>>

(* Mutant of Ends: a lag is only displayed. *)
NeverEnds(frame) == FALSE

(* connect returns on a lag, and run dials again. *)
Ends(frame) == frame.kind = "Lagged"

ReadFrame ==
  /\ wire # <<>>
  /\ Len(inbox) < MaxInbox
  /\ inbox' = Append(inbox, Head(wire))
  /\ IF Ends(Head(wire)) THEN Drop
     ELSE wire' = Tail(wire) /\ UNCHANGED <<socket, server>>
  /\ UNCHANGED <<ingest, feed, since, breaks>>

(* The connection is lost, with the frames still in flight. *)
Break ==
  /\ socket = "up"
  /\ breaks < MaxBreaks
  /\ Drop
  /\ breaks' = breaks + 1
  /\ UNCHANGED <<ingest, inbox, feed, since>>

(* App::handle *)
Handle ==
  /\ inbox # <<>>
  /\ feed' = Apply(feed, Head(inbox))
  /\ inbox' = Tail(inbox)
  /\ UNCHANGED <<ingest, server, wire, socket, since, breaks>>

Next == \/ Ingest
        \/ Connect \/ SendSnapshot \/ Forward \/ Lag
        \/ ReadFrame \/ Break \/ Handle

Spec == Init /\ [][Next]_vars

(* Tasks that can run are run, and the network delivers. *)
FairSpec ==
  /\ Spec
  /\ WF_vars(Broadcast)
  /\ WF_vars(Connect) /\ WF_vars(SendSnapshot) /\ WF_vars(Forward) /\ WF_vars(Lag)
  /\ WF_vars(ReadFrame) /\ WF_vars(Handle)

-----------------------------------------------------------------------------
(* Everything broadcast has reached the screen. *)
CaughtUp ==
  /\ server.phase = "streaming" /\ server.next = Len(log) + 1
  /\ unsent = <<>> /\ wire = <<>> /\ inbox = <<>>

Books == {<<0, 0>>} \cup
         {<<e.slot, e.book>> : e \in {f \in Range(log \o unsent) : f.kind = "Change"}}

(* Fills broadcast on the present connection. *)
SentSince ==
  UNION {Range(log[n].trades) : n \in {k \in since + 1 .. Len(log) : log[k].kind = "Change"}}

(* Later transactions stand above earlier ones, the fills of one in the    *)
(* order they happened.                                                    *)
Above(t, u) == t.change > u.change \/ (t.change = u.change /\ t.n < u.n)

(* Some of the fills are all of them, or those above the rest. *)
Leads(some, all) ==
  /\ some \subseteq all
  /\ \A t \in some, u \in all \ some : Above(t, u)

(* Every variable holds a value of its kind. *)
TypeOK ==
  /\ view.state \in 0 .. MaxChanges /\ view.finalized_through \in 0 .. MaxSlot
  /\ Len(unsent) <= 1
  /\ dead \subseteq 1 .. MaxSlot
  /\ server.phase \in {"closed", "subscribed", "streaming"}
  /\ Subscribed => server.next \in 1 .. Len(log) + 1
  /\ Len(wire) <= WireCapacity
  /\ socket \in {"down", "up"} /\ (socket = "up" <=> Subscribed)
  /\ feed.book \in 0 .. MaxChanges /\ Len(feed.tape) <= ViewerTape

(* The screen never shows a book the market did not have at that slot      *)
(* (ws.rs: "a subscriber stitching an older book onto a newer slot number  *)
(* would show a book that never existed").                                 *)
BookWasReal == feed.ready => <<feed.slot, feed.book>> \in Books

(* A terminal that has been sent everything shows the registry's book,     *)
(* whatever happened between its subscription and its snapshot, and after  *)
(* any lag or lost connection.                                             *)
BookCatchesUp == CaughtUp => feed.ready /\ feed.book = view.state

(* At every moment the book on the screen is one the market had, and once  *)
(* everything sent has been handled it is the registry's.                  *)
BookIsTrue == BookWasReal /\ BookCatchesUp

(* No fill is shown out of its place or twice. *)
TapeIsOrdered ==
  \A n, k \in DOMAIN feed.tape : n < k => Above(feed.tape[n], feed.tape[k])

(* The tape of a connection is complete: every fill broadcast since it     *)
(* began is shown, above what an earlier one left, unless its slot was     *)
(* abandoned or the tape is full.                                          *)
PrintsAreComplete ==
  CaughtUp =>
    LET kept  == {fill \in SentSince : fill.slot \notin dead}
        shown == Range(feed.tape)
    IN  /\ Leads(kept, shown) \/ Leads(shown, kept)
        /\ Cardinality(SentSince) <= ViewerTape => kept \subseteq shown

(* The tape stays within its length and in order and, once everything sent *)
(* has been handled, is what the connection was sent.                      *)
TapeIsComplete == TypeOK /\ TapeIsOrdered /\ PrintsAreComplete

(* What a terminal has been told is rooted stays rooted, though an update  *)
(* older than the snapshot may follow it.                                  *)
WatermarkNeverFalls == [][feed'.finalized_through >= feed.finalized_through]_vars

(* Once the market is quiet, the terminal comes to show its book: no lag   *)
(* or lost connection leaves it behind for good.                           *)
FeedCatchesUp == <>[](feed.ready /\ feed.book = view.state)

(* The terminal only ever moves forward, and all the way. *)
FeedKeepsUp == WatermarkNeverFalls /\ FeedCatchesUp

-----------------------------------------------------------------------------
(* Known limits: what a comment or a document says and the code does not   *)
(* keep.  TLC refutes each; README.md gives the instance.                  *)

(* A fill shown as final did happen (registry.rs: "Every slot at or below  *)
(* this is rooted, so its trades can no longer be rolled back").           *)
FinalIsFinal ==
  \A n \in DOMAIN feed.tape : IsFinal(feed, feed.tape[n]) => feed.tape[n].slot \notin dead

(* A terminal that has been sent everything shows no fill of an abandoned  *)
(* slot (registry.rs: "a client that already showed a trade has to be told *)
(* it did not happen").                                                    *)
PhantomsAreWithdrawn ==
  CaughtUp => \A n \in DOMAIN feed.tape : feed.tape[n].slot \notin dead

(* Of two fills shown the later is above (feed.rs: "Recent fills, newest   *)
(* first").                                                                *)
TapeIsNewestFirst ==
  \A n \in 1 .. Len(feed.tape) - 1 :
    LET above == feed.tape[n]  below == feed.tape[n + 1]
    IN  above.change > below.change \/ (above.change = below.change /\ above.n > below.n)

(* A fill on the tape whose slot is rooted is eventually shown as final,   *)
(* if it stays on the tape (feed.rs, is_final).                            *)
PrintsBecomeFinal ==
  \A slot \in 1 .. MaxSlot :
    slot <= view.finalized_through ~>
      \A n \in DOMAIN feed.tape : feed.tape[n].slot = slot => IsFinal(feed, feed.tape[n])
=============================================================================
