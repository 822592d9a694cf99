-------------------------- MODULE ConnectionManager --------------------------
(***************************************************************************)
(* WebSocket connections, rooms and what is sent over them, in one event   *)
(* loop: a coroutine for each connection runs from one await to the next,  *)
(* and every send is an await.                                             *)
(*                                                                         *)
(* Message contents, keys and encryption are left out; what a socket whose *)
(* peer is gone does to a send, and to the coroutine reading it, is not.   *)
(***************************************************************************)
EXTENDS FiniteSets

CONSTANTS
    Sockets,        \* connections; one that reconnects is another one
    People,
    Rooms,
    Owner           \* Owner[s]: who connects over s

ASSUME OwnerAssumption == Owner \in [Sockets -> People]

VARIABLES
    peer,           \* peer[s]: "absent", "there" or "gone"
    registered,     \* _user_connections: of each user the sockets, or NoEntry
    members,        \* _rooms: the members of each room, {} when there is no such room
    handler         \* handler[s]: the coroutine of s

socketVars == <<peer, registered, members, handler>>

NoEntry == {"no entry"}

SocketsOf(u) == IF registered[u] = NoEntry THEN {} ELSE registered[u]

Registered == UNION {SocketsOf(u) : u \in People}

\* at: where the coroutine is; then: where it goes on after sending; users: whom the
\* message still goes to; sockets: of the present one, where it still goes to;
\* dead: those of them that failed; owed: who has been there from the start and has
\* not got it yet; todo: rooms a disconnect has still to look at.
Unstarted == [at |-> "unstarted", then |-> "receive", users |-> {}, sockets |-> {}, dead |-> {},
              owed |-> {}, todo |-> {}]

Running == {"handshake", "receive", "send", "disconnect"}

\* The loops over list(...) take their elements as they are when the loop begins.
Send(h, users, then) ==
    [h EXCEPT !.at = "send", !.then = then, !.users = users,
              !.owed = {s \in Registered : Owner[s] \in users /\ peer[s] = "there"}]

-----------------------------------------------------------------------------
(* Connections.                                                            *)

\* accept, and an entry for the socket.  Who is not let in leaves no trace.
Connect(s) ==
    /\ peer[s] = "absent"
    /\ peer' = [peer EXCEPT ![s] = "there"]
    /\ registered' = [registered EXCEPT ![Owner[s]] = SocketsOf(Owner[s]) \cup {s}]
    /\ handler' = [handler EXCEPT ![s].at = "handshake"]
    /\ UNCHANGED members

\* The handshake, which is outside of the try block: when it fails the coroutine ends
\* without a disconnect.
Handshake(s) ==
    /\ handler[s].at = "handshake"
    /\ handler' = [handler EXCEPT ![s].at = IF peer[s] = "there" THEN "receive" ELSE "failed"]
    /\ UNCHANGED <<peer, registered, members>>

\* The peer goes away.
Vanish(s) ==
    /\ peer[s] = "there"
    /\ peer' = [peer EXCEPT ![s] = "gone"]
    /\ UNCHANGED <<registered, members, handler>>

-----------------------------------------------------------------------------
(* Messages received.                                                      *)

Receives(s) == handler[s].at = "receive" /\ s \in Registered

\* JOIN_ROOM, and the room of the endpoint: everyone in it is told.
JoinRoom(s, r) ==
    /\ Receives(s)
    /\ members' = [members EXCEPT ![r] = @ \cup {Owner[s]}]
    /\ handler' = [handler EXCEPT ![s] = Send(@, members'[r], "receive")]
    /\ UNCHANGED <<peer, registered>>

\* A set that is empty is taken out of _rooms, and nothing is added to it any more:
\* a disconnect that still holds it finds nobody in it.
Forgets(r, left) == [s \in Sockets |-> IF left = {} THEN [handler[s] EXCEPT !.todo = @ \ {r}]
                                                      ELSE handler[s]]

LeaveRoom(s, r) ==
    /\ Receives(s)
    /\ LET left == members[r] \ {Owner[s]} IN
       /\ members' = [members EXCEPT ![r] = left]
       /\ handler' = [Forgets(r, left) EXCEPT ![s] = Send(@, left, "receive")]
    /\ UNCHANGED <<peer, registered>>

\* MESSAGE and TYPING, which no sender need be a member for.
Message(s, r) ==
    /\ Receives(s)
    /\ handler' = [handler EXCEPT ![s] = Send(@, members[r] \ {Owner[s]}, "receive")]
    /\ UNCHANGED <<peer, registered, members>>

\* PING, an acknowledgement, an error or the heartbeat: to all sockets of the user.
Reply(s) ==
    /\ Receives(s)
    /\ handler' = [handler EXCEPT ![s] = Send(@, {Owner[s]}, "receive")]
    /\ UNCHANGED <<peer, registered, members>>

\* BROADCAST, for superusers.
BroadcastAll(s) ==
    /\ Receives(s)
    /\ handler' = [handler EXCEPT ![s] =
                      Send(@, {u \in People : registered[u] # NoEntry}, "receive")]
    /\ UNCHANGED <<peer, registered, members>>

-----------------------------------------------------------------------------
(* Sending.                                                                *)

\* send_personal_raw begins with the sockets the user has by now.
SendToUser(s, u) ==
    /\ handler[s].at = "send"
    /\ handler[s].sockets = {}
    /\ u \in handler[s].users
    /\ handler' = [handler EXCEPT ![s].users = @ \ {u}, ![s].sockets = SocketsOf(u)]
    /\ UNCHANGED <<peer, registered, members>>

\* Mutant: an exception ends the whole broadcast.
SendOrStop(s, t) ==
    /\ handler[s].at = "send"
    /\ t \in handler[s].sockets
    /\ handler' = [handler EXCEPT ![s] =
           IF peer[t] = "there" THEN [@ EXCEPT !.sockets = @ \ {t}, !.owed = @ \ {t}]
           ELSE [@ EXCEPT !.sockets = {}, !.users = {}]]
    /\ UNCHANGED <<peer, registered, members>>

\* One socket; a failure makes it dead.  After the last one the dead are taken out of
\* the user's entry, which comes into being again if it is gone by now.
SendToSocket(s, t) ==
    /\ handler[s].at = "send"
    /\ t \in handler[s].sockets
    /\ LET failed == handler[s].dead \cup (IF peer[t] = "there" THEN {} ELSE {t})
           last == handler[s].sockets = {t}
       IN
       /\ handler' = [handler EXCEPT ![s].sockets = @ \ {t}, ![s].owed = @ \ {t},
                                     ![s].dead = IF last THEN {} ELSE failed]
       /\ registered' = IF last /\ failed # {}
                        THEN [registered EXCEPT ![Owner[t]] = SocketsOf(Owner[t]) \ failed]
                        ELSE registered
    /\ UNCHANGED <<peer, members>>

Sent(s) ==
    /\ handler[s].at = "send"
    /\ handler[s].users = {} /\ handler[s].sockets = {}
    /\ handler' = [handler EXCEPT ![s].at = handler[s].then, ![s].owed = {}]
    /\ UNCHANGED <<peer, registered, members>>

-----------------------------------------------------------------------------
(* The end of a connection.                                                *)

Remaining(s) == LET left == SocketsOf(Owner[s]) \ {s} IN IF left = {} THEN NoEntry ELSE left

\* Mutant: who has another connection stays in the rooms, and so does who has none.
EndReceiving(s) ==
    /\ handler[s].at = "receive"
    /\ peer' = [peer EXCEPT ![s] = "gone"]
    /\ registered' = [registered EXCEPT ![Owner[s]] = Remaining(s)]
    /\ handler' = [handler EXCEPT ![s].at = "disconnect"]
    /\ UNCHANGED members

\* The peer is gone, has been silent for too long, sends what cannot be decrypted or
\* has lost its entry: the coroutine leaves its loop and disconnects.
Disconnect(s) ==
    /\ handler[s].at = "receive"
    /\ peer' = [peer EXCEPT ![s] = "gone"]
    /\ registered' = [registered EXCEPT ![Owner[s]] = Remaining(s)]
    /\ handler' = [handler EXCEPT ![s].at = "disconnect",
                                  ![s].todo = {r \in Rooms : members[r] # {}}]
    /\ UNCHANGED members

\* One room: the user leaves it, other connections of the user or not, and those who
\* stay are told before the next room is looked at.
DisconnectFrom(s, r) ==
    /\ handler[s].at = "disconnect"
    /\ r \in handler[s].todo
    /\ LET left == members[r] \ {Owner[s]}
           away == [Forgets(r, left) EXCEPT ![s].todo = @ \ {r}]
       IN
       /\ members' = [members EXCEPT ![r] = left]
       /\ handler' = IF left = {} \/ Owner[s] \notin members[r] THEN away
                     ELSE [away EXCEPT ![s] = Send(@, left, "disconnect")]
    /\ UNCHANGED <<peer, registered>>

Disconnected(s) ==
    /\ handler[s].at = "disconnect"
    /\ handler[s].todo = {}
    /\ handler' = [handler EXCEPT ![s].at = "ended"]
    /\ UNCHANGED <<peer, registered, members>>

SocketInit ==
    /\ peer = [s \in Sockets |-> "absent"]
    /\ registered = [u \in People |-> NoEntry]
    /\ members = [r \in Rooms |-> {}]
    /\ handler = [s \in Sockets |-> Unstarted]

Serve(s) ==
    \/ Reply(s) \/ BroadcastAll(s)
    \/ \E r \in Rooms : JoinRoom(s, r) \/ LeaveRoom(s, r) \/ Message(s, r)

GoOn(s) ==
    \/ Handshake(s)
    \/ \E u \in People : SendToUser(s, u)
    \/ \E t \in Sockets : SendToSocket(s, t)
    \/ Sent(s)
    \/ \E r \in Rooms : DisconnectFrom(s, r)
    \/ Disconnected(s)

SocketNext == \E s \in Sockets : Connect(s) \/ Vanish(s) \/ Serve(s) \/ Disconnect(s) \/ GoOn(s)

SocketSpec == SocketInit /\ [][SocketNext]_socketVars

-----------------------------------------------------------------------------
(* Properties.                                                             *)

\* A room lists nobody whose connections have all ended: the coroutine of one of them
\* is still going to take the user out, however joins, departures and disconnects of
\* several connections cross.
MembersAreServed ==
    \A r \in Rooms : \A u \in members[r] :
        \E s \in Sockets : Owner[s] = u /\ handler[s].at \in Running

\* A message reaches every connection of a recipient that is there from the start to
\* the end of the sending, dead connections in between or not.
MessagesArrive ==
    [][\A s \in Sockets : handler[s].at = "send" /\ handler'[s].at # "send" =>
          \A t \in handler[s].owed : peer[t] = "gone" \/ t \notin Registered]_socketVars
=============================================================================
