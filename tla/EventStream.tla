---------------------------- MODULE EventStream ----------------------------
(***************************************************************************)
(* The event log of one job and the clients that follow it: AppendEvent    *)
(* and Events of internal/jobs/store.go and eventsHandler of               *)
(* internal/httpapi/router.go.  PostgreSQL draws the ID of an event when    *)
(* the INSERT starts and shows the row when it commits, so two workers, or  *)
(* a worker and a reaper, may commit in the other order.  A client          *)
(* remembers the ID of the last event it has read and reconnects with it.   *)
(***************************************************************************)
EXTENDS Naturals, Sequences, SequencesExt, FiniteSetsExt

CONSTANTS
  Writers,    \* the processes that append to the log, each one event at a time
  Clients,
  MaxEvents,  \* bounds the IDs that are drawn
  MaxDrops    \* bounds the connections that break, over all clients

ASSUME EventStreamAssumption == MaxEvents \in Nat /\ MaxDrops \in Nat

VARIABLES
  drawn,   \* the highest ID the sequence has given out
  insert,  \* the ID of the event a writer is inserting, 0 when it is not
  types,   \* the type of every event, by ID
  log,     \* the IDs of the rows that can be read
  late,    \* the IDs that were committed when a higher one already was
  conn,    \* a client's connection: "none", "open", "ending", "closed"
  after,   \* eventsHandler's cursor
  wire,    \* sent to the client and not yet read by it
  seen,    \* what the client has read, over all its connections
  drops    \* connections broken so far

logVars == <<drawn, insert, types, log, late>>
clientVars == <<conn, after, wire, seen, drops>>
streamVars == <<logVars, clientVars>>

Ids == 1..MaxEvents

\* jobs.IsTerminal: job.completed and job.dead_lettered.
IsTerminal(id) == types[id] = "terminal"

\* What the client sends as Last-Event-ID; 0 stands for no header.
LastEventID(c) == IF seen[c] = <<>> THEN 0 ELSE Last(seen[c])

Init ==
  /\ drawn = 0 /\ insert = [w \in Writers |-> 0] /\ types = <<>>
  /\ log = {} /\ late = {}
  /\ conn = [c \in Clients |-> "none"]
  /\ after = [c \in Clients |-> 0]
  /\ wire = [c \in Clients |-> <<>>]
  /\ seen = [c \in Clients |-> <<>>]
  /\ drops = 0

-----------------------------------------------------------------------------

\* AppendEvent: the INSERT draws its ID.
Begin(w, type) ==
  /\ insert[w] = 0 /\ drawn < MaxEvents
  /\ drawn' = drawn + 1
  /\ insert' = [insert EXCEPT ![w] = drawn']
  /\ types' = Append(types, type)
  /\ UNCHANGED <<log, late, clientVars>>

\* The row can be read.
Commit(w) ==
  /\ insert[w] # 0
  /\ log' = log \cup {insert[w]}
  /\ late' = IF \E id \in log : id > insert[w] THEN late \cup {insert[w]} ELSE late
  /\ insert' = [insert EXCEPT ![w] = 0]
  /\ UNCHANGED <<drawn, types, clientVars>>

\* AppendEvent fails; its ID is not used again.
Abort(w) ==
  /\ insert[w] # 0
  /\ insert' = [insert EXCEPT ![w] = 0]
  /\ UNCHANGED <<drawn, types, log, late, clientVars>>

-----------------------------------------------------------------------------

\* Mutation of Connect: the server resumes from its own cursor.
ConnectAtCursor(c) ==
  /\ conn[c] = "none"
  /\ conn' = [conn EXCEPT ![c] = "open"]
  /\ UNCHANGED <<after, wire, seen, drops, logVars>>

\* eventsHandler up to its loop, for a job that exists.
Connect(c) ==
  /\ conn[c] = "none"
  /\ conn' = [conn EXCEPT ![c] = "open"]
  /\ after' = [after EXCEPT ![c] = LastEventID(c)]
  /\ UNCHANGED <<wire, seen, drops, logVars>>

\* A client that has read a terminal event asks for the stream once more, as an
\* EventSource does when its stream ends.
Reopen(c) ==
  /\ conn[c] = "closed"
  /\ conn' = [conn EXCEPT ![c] = "open"]
  /\ after' = [after EXCEPT ![c] = LastEventID(c)]
  /\ UNCHANGED <<wire, seen, drops, logVars>>

\* Mutation of EventsAfter: the cursor's own event is sent again.
EventsFrom(cursor) == {id \in log : id >= cursor}

\* Store.Events.
EventsAfter(cursor) == {id \in log : id > cursor}

\* The order of the rows that it returns.
ById(ids) ==
  CHOOSE q \in SetToSeqs(ids) : \A i, k \in DOMAIN q : i < k => q[i] < q[k]

\* Mutation of Poll: only the last event of a poll is looked at.
PollLastOnly(c) ==
  /\ conn[c] = "open"
  /\ LET events == EventsAfter(after[c]) IN
       /\ events # {}
       /\ wire' = [wire EXCEPT ![c] = @ \o ById(events)]
       /\ after' = [after EXCEPT ![c] = Max(events)]
       /\ conn' = IF IsTerminal(Max(events)) THEN [conn EXCEPT ![c] = "ending"] ELSE conn
  /\ UNCHANGED <<seen, drops, logVars>>

\* Mutation of Poll: the cursor is put behind the last event.
PollSkipsOne(c) ==
  /\ conn[c] = "open"
  /\ LET events == EventsAfter(after[c]) IN
       /\ events # {}
       /\ wire' = [wire EXCEPT ![c] = @ \o ById(events)]
       /\ after' = [after EXCEPT ![c] = Max(events) + 1]
       /\ conn' = IF \E id \in events : IsTerminal(id)
                    THEN [conn EXCEPT ![c] = "ending"] ELSE conn
  /\ UNCHANGED <<seen, drops, logVars>>

\* One turn of the loop that finds events.  It sends all of them in order, and
\* the handler returns if one of them is terminal.
Poll(c) ==
  /\ conn[c] = "open"
  /\ LET events == EventsAfter(after[c]) IN
       /\ events # {}
       /\ wire' = [wire EXCEPT ![c] = @ \o ById(events)]
       /\ after' = [after EXCEPT ![c] = Max(events)]
       /\ conn' = IF \E id \in events : IsTerminal(id)
                    THEN [conn EXCEPT ![c] = "ending"] ELSE conn
  /\ UNCHANGED <<seen, drops, logVars>>

\* A turn that finds nothing: the handler waits for its ticker.
PollNothing(c) ==
  /\ conn[c] = "open" /\ EventsAfter(after[c]) = {}
  /\ UNCHANGED streamVars

\* Events fails and the handler returns: the client reads what was sent.
PollFails(c) ==
  /\ conn[c] = "open" /\ drops < MaxDrops
  /\ drops' = drops + 1
  /\ conn' = [conn EXCEPT ![c] = "ending"]
  /\ UNCHANGED <<after, wire, seen, logVars>>

Receive(c) ==
  /\ wire[c] # <<>>
  /\ seen' = [seen EXCEPT ![c] = Append(@, Head(wire[c]))]
  /\ wire' = [wire EXCEPT ![c] = Tail(@)]
  /\ UNCHANGED <<conn, after, drops, logVars>>

\* The client comes to the end of the stream.  It is done if it has read a
\* terminal event, and reconnects if it has not.
EndOfStream(c) ==
  /\ conn[c] = "ending" /\ wire[c] = <<>>
  /\ conn' = [conn EXCEPT ![c] =
       IF \E id \in Range(seen[c]) : IsTerminal(id) THEN "closed" ELSE "none"]
  /\ UNCHANGED <<after, wire, seen, drops, logVars>>

\* The connection breaks, or the node goes: what was on its way is lost.
Break(c) ==
  /\ conn[c] \in {"open", "ending"} /\ drops < MaxDrops
  /\ drops' = drops + 1
  /\ conn' = [conn EXCEPT ![c] = "none"]
  /\ wire' = [wire EXCEPT ![c] = <<>>]
  /\ UNCHANGED <<after, seen, logVars>>

Follow(c) == Connect(c) \/ Poll(c) \/ Receive(c) \/ EndOfStream(c)

Next ==
  \/ \E w \in Writers : Commit(w) \/ Abort(w)
  \/ \E w \in Writers, type \in {"progress", "terminal"} : Begin(w, type)
  \/ \E c \in Clients : Follow(c) \/ PollNothing(c) \/ Reopen(c) \/ PollFails(c) \/ Break(c)

\* The ticker goes on polling, a client goes on reading and reconnects when its
\* stream ends or breaks before a terminal event.
Spec == Init /\ [][Next]_streamVars /\ \A c \in Clients : WF_streamVars(Follow(c))

-----------------------------------------------------------------------------

\* Nothing is out of its type.
TypeOK ==
  /\ drawn \in 0..MaxEvents /\ insert \in [Writers -> 0..drawn]
  /\ types \in [1..drawn -> {"progress", "terminal"}]
  /\ late \subseteq log /\ log \subseteq 1..drawn
  /\ conn \in [Clients -> {"none", "open", "ending", "closed"}]
  /\ after \in [Clients -> 0..drawn]
  /\ wire \in [Clients -> Seq(log)] /\ seen \in [Clients -> Seq(log)]
  /\ drops \in 0..MaxDrops

\* Over all its connections a client reads every event at most once and in the
\* order of the IDs, wherever a connection broke.
InOrderOnce ==
  \A c \in Clients : \A i, k \in 1..Len(seen[c]) : i < k => seen[c][i] < seen[c][k]

\* A stream resumes without a hole: up to the last event a client has read, it
\* has read every event that was committed in its turn, and up to the handler's
\* cursor every such event was read or is on its way.
NoHoles ==
  \A c \in Clients : \A id \in log \ late :
    /\ id <= LastEventID(c) => id \in Range(seen[c])
    /\ conn[c] \in {"open", "ending"} /\ id <= after[c] => id \in Range(wire[c] \o seen[c])

\* What is on its way goes on where the client has read to.
WireGoesOn ==
  \A c \in Clients :
    /\ \A i, k \in 1..Len(wire[c]) : i < k => wire[c][i] < wire[c][k]
    /\ \A i \in 1..Len(seen[c]), k \in 1..Len(wire[c]) : seen[c][i] < wire[c][k]

\* Nothing is on its way without a connection, and the cursor of a connection is
\* the last event that was sent.
CursorIsLast ==
  \A c \in Clients :
    IF conn[c] \in {"open", "ending"}
    THEN after[c] = IF wire[c] = <<>> THEN LastEventID(c) ELSE Last(wire[c])
    ELSE wire[c] = <<>>

\* Whatever breaks, what a client has read, what is on its way and the cursor of
\* the handler belong together.
StreamInv == InOrderOnce /\ WireGoesOn /\ CursorIsLast /\ NoHoles

\* A terminal event that was committed in its turn reaches every client that has
\* not read that far, or another one does, and the handler that sent it returns:
\* no client is left polling behind it, however often the connections break.
TerminalReachesClients ==
  \A id \in Ids : \A c \in Clients :
    (id \in log \ late /\ IsTerminal(id) /\ LastEventID(c) < id) ~>
      (conn[c] # "open" /\ \E t \in Range(seen[c]) : IsTerminal(t))

\* The handler "closes the stream once the job reaches a terminal state": a
\* client that is connected while the log holds a terminal event is not connected
\* for ever.
StreamCloses ==
  \A c \in Clients :
    (conn[c] = "open" /\ \E id \in log : IsTerminal(id)) ~> (conn[c] # "open")

=============================================================================
