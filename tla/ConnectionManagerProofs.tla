----------------------- MODULE ConnectionManagerProofs -----------------------
(***************************************************************************)
(* Proofs about ConnectionManager, for any number of connections, users    *)
(* and rooms.                                                              *)
(*                                                                         *)
(* Of every member of a room there is a connection that still receives, or *)
(* one whose disconnect has that room before it.  Of every message that is *)
(* being sent, whoever is owed it is still on the way of the two loops.    *)
(***************************************************************************)
EXTENDS ConnectionManager, TLAPS

Coroutine ==
    [at : {"unstarted", "handshake", "receive", "send", "disconnect", "ended", "failed"},
     then : {"receive", "disconnect"},
     users : SUBSET People, sockets : SUBSET Sockets, dead : SUBSET Sockets,
     owed : SUBSET Sockets, todo : SUBSET Rooms]

\* Types; a user's entry has sockets of this user; who is not connected has not started.
SocketTypeOK ==
    /\ peer \in [Sockets -> {"absent", "there", "gone"}]
    /\ registered \in [People -> (SUBSET Sockets) \cup {NoEntry}]
    /\ members \in [Rooms -> SUBSET People]
    /\ handler \in [Sockets -> Coroutine]

EntriesOfOwner == \A u \in People : \A t \in SocketsOf(u) : t \in Sockets /\ Owner[t] = u

AbsentUnstarted == \A s \in Sockets : peer[s] = "absent" => handler[s].at = "unstarted"

\* Where the coroutine of s is, leaving aside what it sends meanwhile.
Phase(s) == IF handler[s].at = "send" THEN handler[s].then ELSE handler[s].at

Serving(s, r) ==
    \/ Phase(s) = "receive"
    \/ Phase(s) = "disconnect" /\ r \in handler[s].todo

Served ==
    \A r \in Rooms : \A u \in members[r] :
        \E s \in Sockets : Owner[s] = u /\ Serving(s, r)

\* Whoever is owed a message will be sent it, is gone, or has lost its entry.
OwedIsReached(s) ==
    handler[s].at = "send" =>
        \A t \in handler[s].owed :
            /\ peer[t] # "absent"
            /\ \/ peer[t] = "gone" \/ t \notin Registered
               \/ t \in handler[s].sockets \/ Owner[t] \in handler[s].users

SocketInv ==
    /\ SocketTypeOK
    /\ EntriesOfOwner
    /\ AbsentUnstarted
    /\ Served
    /\ \A s \in Sockets : OwedIsReached(s)

-----------------------------------------------------------------------------

LEMMA UnstartedType == Unstarted \in Coroutine
BY DEF Unstarted, Coroutine

LEMMA SocketInitInv == SocketInit => SocketInv
<1> SUFFICES ASSUME SocketInit PROVE SocketInv
    OBVIOUS
<1>1. SocketTypeOK
      BY UnstartedType DEF SocketInit, SocketTypeOK
<1>2. \A s \in Sockets : handler[s].at = "unstarted"
      BY DEF SocketInit, Unstarted
<1>3. EntriesOfOwner
      BY DEF SocketInit, EntriesOfOwner, SocketsOf
<1>4. AbsentUnstarted /\ Served /\ \A s \in Sockets : OwedIsReached(s)
      BY <1>2 DEF SocketInit, AbsentUnstarted, Served, OwedIsReached
<1>5. QED BY <1>1, <1>3, <1>4 DEF SocketInv

\* A member of the entries is registered, and only they are.
LEMMA RegisteredSockets ==
    ASSUME EntriesOfOwner
    PROVE  /\ Registered \subseteq Sockets
           /\ \A t \in Sockets : t \in Registered => Owner[t] \in People /\ t \in SocketsOf(Owner[t])
BY DEF EntriesOfOwner, Registered

\* What Send makes of a coroutine.
LEMMA SendStarts ==
    ASSUME SocketInv, NEW h \in Coroutine, NEW users \in SUBSET People,
           NEW then \in {"receive", "disconnect"}
    PROVE  LET new == Send(h, users, then) IN
           /\ new \in Coroutine
           /\ new.at = "send" /\ new.then = then /\ new.users = users
           /\ new.todo = h.todo
           /\ new.owed \subseteq Registered
           /\ \A t \in new.owed : peer[t] = "there" /\ Owner[t] \in users
<1>1. {s \in Registered : Owner[s] \in users /\ peer[s] = "there"} \in SUBSET Sockets
      BY RegisteredSockets DEF SocketInv
<1>2. QED BY <1>1 DEF Send, Coroutine

-----------------------------------------------------------------------------
(* Steps that begin to send: a message received, or a room left.           *)

\* The coroutines with, at most, the room r forgotten by their disconnects; by others
\* than s only when it is empty.
SameBut(base, s, r) ==
    /\ base \in [Sockets -> Coroutine]
    /\ \A x \in Sockets :
          /\ base[x].at = handler[x].at /\ base[x].then = handler[x].then
          /\ base[x].users = handler[x].users /\ base[x].sockets = handler[x].sockets
          /\ base[x].owed = handler[x].owed
          /\ handler[x].todo \ {r} \subseteq base[x].todo
          /\ x # s /\ members'[r] # {} => base[x].todo = handler[x].todo

\* s begins to send, having joined a room or left r for good.
Begins(base, s, r, users, then) ==
    /\ handler' = [base EXCEPT ![s] = Send(@, users, then)]
    /\ UNCHANGED <<peer, registered>>
    /\ members' \in [Rooms -> SUBSET People]
    /\ \A q \in Rooms : \A u \in members'[q] :
          u \in members[q] \/ (u = Owner[s] /\ then = "receive")
    /\ \/ handler[s].at = "receive" /\ then = "receive"
       \/ handler[s].at = "disconnect" /\ then = "disconnect" /\ Owner[s] \notin members'[r]

LEMMA SendingKeepsInv ==
    ASSUME SocketInv, NEW s \in Sockets, NEW r, NEW base,
           NEW users \in SUBSET People, NEW then \in {"receive", "disconnect"},
           SameBut(base, s, r), Begins(base, s, r, users, then)
    PROVE  SocketInv'
<1> USE DEF SameBut, Begins
<1> DEFINE new == Send(base[s], users, then)
<1>1. /\ new \in Coroutine
      /\ new.at = "send" /\ new.then = then /\ new.users = users
      /\ new.todo = base[s].todo
      /\ new.owed \subseteq Registered
      /\ \A t \in new.owed : peer[t] = "there" /\ Owner[t] \in users
      BY SendStarts
<1>2. /\ handler'[s] = new
      /\ \A x \in Sockets \ {s} : handler'[x] = base[x]
      /\ handler' \in [Sockets -> Coroutine]
      BY <1>1
<1> HIDE DEF new
<1>3. SocketTypeOK' /\ EntriesOfOwner' /\ Registered' = Registered
      BY <1>2 DEF SocketInv, SocketTypeOK, EntriesOfOwner, SocketsOf, Registered
<1>4. AbsentUnstarted'
      BY <1>1, <1>2 DEF SocketInv, AbsentUnstarted
<1>5. Served'
  <2> SUFFICES ASSUME NEW q \in Rooms, NEW u \in members'[q]
               PROVE  \E x \in Sockets : Owner[x] = u /\ Serving(x, q)'
      BY DEF Served
  <2>1. CASE u = Owner[s] /\ then = "receive"
        BY <1>1, <1>2, <2>1 DEF Serving, Phase
  <2>2. CASE ~(u = Owner[s] /\ then = "receive")
    <3>1. PICK x \in Sockets : Owner[x] = u /\ Serving(x, q)
          BY <2>2 DEF SocketInv, Served
    <3>2. CASE x = s
      <4>1. then = "disconnect" /\ handler[s].at = "disconnect" /\ q # r
            BY <2>2, <3>1, <3>2
      <4>2. q \in handler[s].todo
            BY <3>1, <3>2, <4>1 DEF Serving, Phase
      <4>3. Phase(s)' = "disconnect" /\ q \in handler'[s].todo
            BY <1>1, <1>2, <4>1, <4>2 DEF Phase
      <4>4. QED BY <3>1, <3>2, <4>3 DEF Serving
    <3>3. CASE x # s
      <4>1. handler'[x] = base[x] /\ Phase(x)' = Phase(x)
            BY <1>2, <3>3 DEF Phase
      <4>2. q \in handler[x].todo => q \in base[x].todo
            BY <3>3
      <4>3. QED BY <3>1, <4>1, <4>2 DEF Serving
    <3>4. QED BY <3>2, <3>3
  <2>3. QED BY <2>1, <2>2
<1>6. ASSUME NEW x \in Sockets
      PROVE  OwedIsReached(x)'
  <2>1. CASE x = s
        BY <1>1, <1>2, <2>1 DEF OwedIsReached
  <2>2. CASE x # s
    <3>1. /\ handler'[x].at = handler[x].at /\ handler'[x].owed = handler[x].owed
          /\ handler'[x].sockets = handler[x].sockets /\ handler'[x].users = handler[x].users
          BY <1>2, <2>2
    <3>2. OwedIsReached(x)
          BY DEF SocketInv
    <3>3. QED BY <1>3, <3>1, <3>2 DEF OwedIsReached
  <2>3. QED BY <2>1, <2>2
<1>7. QED BY <1>3, <1>4, <1>5, <1>6 DEF SocketInv

LEMMA JoinKeepsInv ==
    ASSUME SocketInv, NEW s \in Sockets, NEW r \in Rooms, JoinRoom(s, r)
    PROVE  SocketInv'
<1>1. /\ members' \in [Rooms -> SUBSET People] /\ members'[r] \in SUBSET People
      /\ \A q \in Rooms : \A u \in members'[q] : u \in members[q] \/ u = Owner[s]
      BY OwnerAssumption DEF SocketInv, SocketTypeOK, JoinRoom
<1>2. handler \in [Sockets -> Coroutine]
      BY DEF SocketInv, SocketTypeOK
<1>3. /\ handler' = [handler EXCEPT ![s] = Send(@, members'[r], "receive")]
      /\ handler[s].at = "receive" /\ UNCHANGED <<peer, registered>>
      BY DEF JoinRoom, Receives
<1>4. SameBut(handler, s, r)
      BY <1>2 DEF SameBut
<1>5. Begins(handler, s, r, members'[r], "receive")
      BY <1>1, <1>3 DEF Begins
<1>6. QED BY <1>1, <1>4, <1>5, SendingKeepsInv

\* What Forgets makes of the coroutines.
LEMMA ForgetsType ==
    ASSUME handler \in [Sockets -> Coroutine], NEW r, NEW left
    PROVE  /\ Forgets(r, left) \in [Sockets -> Coroutine]
           /\ \A x \in Sockets :
                 LET old == handler[x] new == Forgets(r, left)[x] IN
                 /\ new.at = old.at /\ new.then = old.then
                 /\ new.users = old.users /\ new.sockets = old.sockets
                 /\ new.owed = old.owed
                 /\ old.todo \ {r} \subseteq new.todo
                 /\ left # {} => new.todo = old.todo
<1>1. ASSUME NEW x \in Sockets
      PROVE  LET old == handler[x] new == Forgets(r, left)[x] IN
             /\ new \in Coroutine
             /\ new.at = old.at /\ new.then = old.then
             /\ new.users = old.users /\ new.sockets = old.sockets
             /\ new.owed = old.owed
             /\ old.todo \ {r} \subseteq new.todo
             /\ left # {} => new.todo = old.todo
  <2>1. handler[x] \in Coroutine
        OBVIOUS
  <2>2. CASE left = {}
    <3>1. Forgets(r, left)[x] = [handler[x] EXCEPT !.todo = @ \ {r}]
          BY <2>2 DEF Forgets
    <3>2. QED BY <2>1, <2>2, <3>1 DEF Coroutine
  <2>3. CASE left # {}
        BY <2>1, <2>3 DEF Forgets
  <2>4. QED BY <2>2, <2>3
<1>2. QED BY <1>1 DEF Forgets

LEMMA LeaveKeepsInv ==
    ASSUME SocketInv, NEW s \in Sockets, NEW r \in Rooms, LeaveRoom(s, r)
    PROVE  SocketInv'
<1> DEFINE left == members[r] \ {Owner[s]}
           base == Forgets(r, left)
<1>1. /\ members' = [members EXCEPT ![r] = left]
      /\ handler' = [base EXCEPT ![s] = Send(@, left, "receive")]
      /\ handler[s].at = "receive" /\ UNCHANGED <<peer, registered>>
      BY DEF LeaveRoom, Receives
<1>2. /\ members' \in [Rooms -> SUBSET People] /\ left \in SUBSET People
      /\ members'[r] = left
      /\ \A q \in Rooms : \A u \in members'[q] : u \in members[q]
      BY <1>1 DEF SocketInv, SocketTypeOK
<1>3. handler \in [Sockets -> Coroutine]
      BY DEF SocketInv, SocketTypeOK
<1> HIDE DEF left
<1>4. SameBut(base, s, r)
      BY <1>2, <1>3, ForgetsType DEF SameBut
<1> HIDE DEF base
<1>5. Begins(base, s, r, left, "receive")
      BY <1>1, <1>2 DEF Begins
<1>6. QED BY <1>2, <1>4, <1>5, SendingKeepsInv

\* Sending to someone without a change of the rooms.
LEMMA SendsOnly ==
    ASSUME SocketInv, NEW s \in Sockets, NEW users \in SUBSET People, Receives(s),
           handler' = [handler EXCEPT ![s] = Send(@, users, "receive")],
           UNCHANGED <<peer, registered, members>>
    PROVE  SocketInv'
<1>1. /\ members' \in [Rooms -> SUBSET People]
      /\ \A q \in Rooms : \A u \in members'[q] : u \in members[q]
      /\ handler \in [Sockets -> Coroutine]
      /\ handler[s].at = "receive"
      BY DEF SocketInv, SocketTypeOK, Receives
<1>2. SameBut(handler, s, s)
      BY <1>1 DEF SameBut
<1>3. Begins(handler, s, s, users, "receive")
      BY <1>1 DEF Begins
<1>4. QED BY <1>2, <1>3, SendingKeepsInv

LEMMA ServeKeepsInv ==
    ASSUME SocketInv, NEW s \in Sockets, Serve(s)
    PROVE  SocketInv'
<1>1. CASE Reply(s)
      BY <1>1, SendsOnly, OwnerAssumption DEF Reply
<1>2. CASE BroadcastAll(s)
      BY <1>2, SendsOnly DEF BroadcastAll
<1>3. ASSUME NEW r \in Rooms, Message(s, r) PROVE SocketInv'
  <2>1. members[r] \ {Owner[s]} \in SUBSET People
        BY DEF SocketInv, SocketTypeOK
  <2>2. QED BY <1>3, <2>1, SendsOnly DEF Message
<1>4. QED BY <1>1, <1>2, <1>3, JoinKeepsInv, LeaveKeepsInv DEF Serve

-----------------------------------------------------------------------------
(* The other steps.                                                        *)

LEMMA ConnectKeepsInv ==
    ASSUME SocketInv, NEW s \in Sockets, Connect(s)
    PROVE  SocketInv'
<1>1. /\ peer[s] = "absent" /\ peer' = [peer EXCEPT ![s] = "there"]
      /\ registered' = [registered EXCEPT ![Owner[s]] = SocketsOf(Owner[s]) \cup {s}]
      /\ handler' = [handler EXCEPT ![s].at = "handshake"]
      /\ UNCHANGED members
      BY DEF Connect
<1>2. Owner[s] \in People /\ SocketsOf(Owner[s]) \subseteq Sockets
      BY OwnerAssumption DEF SocketInv, EntriesOfOwner
<1>3. /\ handler[s].at = "unstarted" /\ handler'[s].at = "handshake"
      /\ \A x \in Sockets \ {s} : handler'[x] = handler[x]
      /\ handler' \in [Sockets -> Coroutine]
  <2>1. handler[s].at = "unstarted"
        BY <1>1 DEF SocketInv, AbsentUnstarted
  <2>2. handler \in [Sockets -> Coroutine]
        BY DEF SocketInv, SocketTypeOK
  <2>3. \A c \in Coroutine : LET new == [c EXCEPT !.at = "handshake"] IN
           new \in Coroutine /\ new.at = "handshake"
        BY DEF Coroutine
  <2>4. QED BY <1>1, <2>1, <2>2, <2>3
<1>4. SocketTypeOK'
      BY <1>1, <1>2, <1>3 DEF SocketInv, SocketTypeOK
<1>5. \A u \in People : SocketsOf(u)' \subseteq SocketsOf(u) \cup (IF u = Owner[s] THEN {s} ELSE {})
      BY <1>1 DEF SocketInv, SocketTypeOK, SocketsOf
<1>6. EntriesOfOwner'
      BY <1>5 DEF SocketInv, EntriesOfOwner
<1>7. AbsentUnstarted'
      BY <1>1, <1>3 DEF SocketInv, SocketTypeOK, AbsentUnstarted
<1>8. Served'
  <2>1. ASSUME NEW r \in Rooms, NEW x \in Sockets, Serving(x, r)
        PROVE  Serving(x, r)'
        BY <1>3, <2>1 DEF Serving, Phase
  <2>2. QED BY <1>1, <2>1 DEF SocketInv, Served
<1>9. ASSUME NEW x \in Sockets PROVE OwedIsReached(x)'
  <2>1. CASE x = s
        BY <1>3, <2>1 DEF OwedIsReached
  <2>2. CASE x # s
    <3>1. SUFFICES ASSUME handler[x].at = "send", NEW t \in handler[x].owed
                   PROVE  /\ peer'[t] # "absent"
                          /\ \/ peer'[t] = "gone" \/ t \notin Registered'
                             \/ t \in handler[x].sockets \/ Owner[t] \in handler[x].users
          BY <1>3, <2>2 DEF OwedIsReached
    <3>2. /\ peer[t] # "absent"
          /\ \/ peer[t] = "gone" \/ t \notin Registered
             \/ t \in handler[x].sockets \/ Owner[t] \in handler[x].users
          BY <3>1 DEF SocketInv, OwedIsReached
    <3>3. t \in Sockets /\ t # s /\ peer'[t] = peer[t]
          BY <1>1, <3>1, <3>2 DEF SocketInv, SocketTypeOK, Coroutine
    <3>4. t \in Registered' => t \in Registered
          BY <1>5, <3>3 DEF Registered
    <3>5. QED BY <3>2, <3>3, <3>4
  <2>3. QED BY <2>1, <2>2
<1>10. QED BY <1>4, <1>6, <1>7, <1>8, <1>9 DEF SocketInv

LEMMA VanishKeepsInv ==
    ASSUME SocketInv, NEW s \in Sockets, Vanish(s)
    PROVE  SocketInv'
<1>1. /\ peer[s] = "there" /\ peer' = [peer EXCEPT ![s] = "gone"]
      /\ UNCHANGED <<registered, members, handler>>
      BY DEF Vanish
<1>2. SocketTypeOK' /\ EntriesOfOwner' /\ Served' /\ Registered' = Registered
      BY <1>1 DEF SocketInv, SocketTypeOK, EntriesOfOwner, SocketsOf, Registered, Served,
                  Serving, Phase
<1>3. AbsentUnstarted'
      BY <1>1 DEF SocketInv, SocketTypeOK, AbsentUnstarted
<1>4. ASSUME NEW x \in Sockets PROVE OwedIsReached(x)'
  <2>1. \A t \in handler[x].owed : t \in Sockets
        BY DEF SocketInv, SocketTypeOK, Coroutine
  <2>2. QED BY <1>1, <1>2, <2>1 DEF SocketInv, SocketTypeOK, OwedIsReached
<1>5. QED BY <1>2, <1>3, <1>4 DEF SocketInv

\* Only the coroutine of s goes on and registrations are at most given up: enough is
\* that s is left owing and serving as before.
LEMMA GoingOnKeepsInv ==
    ASSUME SocketInv, NEW s \in Sockets,
           \A x \in Sockets : x # s => handler'[x] = handler[x],
           handler' \in [Sockets -> Coroutine],
           SocketTypeOK', EntriesOfOwner', Registered' \subseteq Registered,
           \A x \in Sockets : peer'[x] # peer[x] => peer[x] # "absent" /\ peer'[x] = "gone",
           handler[s].at # "unstarted",
           UNCHANGED members,
           \A r \in Rooms : members[r] # {} /\ Serving(s, r) => Serving(s, r)',
           OwedIsReached(s)'
    PROVE  SocketInv'
<1>1. AbsentUnstarted'
      BY DEF SocketInv, AbsentUnstarted, SocketTypeOK
<1>2. Served'
  <2>1. ASSUME NEW x \in Sockets, NEW r \in Rooms, members[r] # {}, Serving(x, r)
        PROVE  Serving(x, r)'
    <3>1. CASE x = s
          BY <2>1, <3>1
    <3>2. CASE x # s
          BY <2>1, <3>2 DEF Serving, Phase
    <3>3. QED BY <3>1, <3>2
  <2>2. QED BY <2>1 DEF SocketInv, Served
<1>3. ASSUME NEW x \in Sockets PROVE OwedIsReached(x)'
  <2>1. CASE x # s
    <3>1. handler'[x] = handler[x] /\ OwedIsReached(x)
          BY <2>1 DEF SocketInv
    <3>2. \A t \in handler[x].owed : t \in Sockets
          BY DEF SocketInv, SocketTypeOK, Coroutine
    <3>3. QED BY <3>1, <3>2 DEF OwedIsReached
  <2>2. QED BY <2>1
<1>4. QED BY <1>1, <1>2, <1>3 DEF SocketInv

\* When nothing but the coroutine of s changes, and it keeps its type.
LEMMA OnlyItsCoroutine ==
    ASSUME SocketInv, NEW s \in Sockets, NEW new \in Coroutine,
           handler' = [handler EXCEPT ![s] = new],
           UNCHANGED <<peer, registered>>
    PROVE  /\ \A x \in Sockets : x # s => handler'[x] = handler[x]
           /\ handler' \in [Sockets -> Coroutine] /\ handler'[s] = new
           /\ EntriesOfOwner' /\ Registered' = Registered
           /\ members' = members => SocketTypeOK'
BY DEF SocketInv, SocketTypeOK, EntriesOfOwner, SocketsOf, Registered

\* A coroutine that goes on somewhere else.
LEMMA ElsewhereType ==
    ASSUME NEW c \in Coroutine, NEW at \in {"receive", "failed", "ended"}
    PROVE  [c EXCEPT !.at = at] \in Coroutine /\ [c EXCEPT !.at = at].at = at
BY DEF Coroutine

LEMMA HandshakeKeepsInv ==
    ASSUME SocketInv, NEW s \in Sockets, Handshake(s)
    PROVE  SocketInv'
<1> DEFINE new == [handler[s] EXCEPT !.at = IF peer[s] = "there" THEN "receive" ELSE "failed"]
<1>1. /\ new \in Coroutine /\ handler' = [handler EXCEPT ![s] = new]
      /\ handler[s].at = "handshake" /\ UNCHANGED <<peer, registered, members>>
      /\ new.at # "send"
  <2>1. handler[s] \in Coroutine
        BY DEF SocketInv, SocketTypeOK
  <2>2. CASE peer[s] = "there"
        BY <2>1, <2>2, ElsewhereType DEF Handshake
  <2>3. CASE peer[s] # "there"
        BY <2>1, <2>3, ElsewhereType DEF Handshake
  <2>4. QED BY <2>2, <2>3
<1> HIDE DEF new
<1>2. handler'[s] = new
      BY <1>1, OnlyItsCoroutine
<1>3. OwedIsReached(s)' /\ \A r \in Rooms : ~Serving(s, r)
      BY <1>1, <1>2 DEF OwedIsReached, Serving, Phase
<1>4. QED BY <1>1, <1>3, OnlyItsCoroutine, GoingOnKeepsInv

LEMMA SendToUserKeepsInv ==
    ASSUME SocketInv, NEW s \in Sockets, NEW u \in People, SendToUser(s, u)
    PROVE  SocketInv'
<1> DEFINE new == [handler[s] EXCEPT !.users = @ \ {u}, !.sockets = SocketsOf(u)]
<1>1. SocketsOf(u) \subseteq Sockets /\ handler[s] \in Coroutine
      BY DEF SocketInv, SocketTypeOK, EntriesOfOwner
<1>2. /\ new \in Coroutine /\ handler' = [handler EXCEPT ![s] = new]
      /\ handler[s].at = "send" /\ new.at = "send" /\ new.then = handler[s].then
      /\ new.todo = handler[s].todo
      /\ new.owed = handler[s].owed /\ handler[s].sockets = {}
      /\ new.sockets = SocketsOf(u) /\ new.users = handler[s].users \ {u}
      /\ UNCHANGED <<peer, registered, members>>
      BY <1>1 DEF SendToUser, SocketInv, SocketTypeOK, Coroutine
<1> HIDE DEF new
<1>3. handler'[s] = new /\ Registered' = Registered
      BY <1>2, OnlyItsCoroutine
<1>4. \A r \in Rooms : Serving(s, r) => Serving(s, r)'
      BY <1>2, <1>3 DEF Serving, Phase
<1>5. OwedIsReached(s)'
  <2>1. SUFFICES ASSUME NEW t \in handler[s].owed, t \in Registered
                 PROVE  /\ peer[t] # "absent"
                        /\ peer[t] = "gone" \/ t \in SocketsOf(u) \/ Owner[t] \in handler[s].users \ {u}
        BY <1>2, <1>3 DEF OwedIsReached, SocketInv
  <2>2. t \in Sockets /\ t \in SocketsOf(Owner[t])
        BY <2>1, RegisteredSockets DEF SocketInv
  <2>3. QED BY <1>2, <2>1, <2>2 DEF SocketInv, OwedIsReached
<1>6. QED BY <1>2, <1>4, <1>5, OnlyItsCoroutine, GoingOnKeepsInv

LEMMA SentKeepsInv ==
    ASSUME SocketInv, NEW s \in Sockets, Sent(s)
    PROVE  SocketInv'
<1> DEFINE new == [handler[s] EXCEPT !.at = handler[s].then, !.owed = {}]
<1>1. handler[s] \in Coroutine
      BY DEF SocketInv, SocketTypeOK
<1>2. /\ new \in Coroutine /\ handler' = [handler EXCEPT ![s] = new]
      /\ handler[s].at = "send" /\ new.at = handler[s].then /\ new.todo = handler[s].todo
      /\ new.at # "send"
      /\ UNCHANGED <<peer, registered, members>>
      BY <1>1 DEF Sent, SocketInv, SocketTypeOK, Coroutine
<1> HIDE DEF new
<1>3. handler'[s] = new
      BY <1>2, OnlyItsCoroutine
<1>4. OwedIsReached(s)' /\ \A r \in Rooms : Serving(s, r) => Serving(s, r)'
      BY <1>2, <1>3 DEF Serving, Phase, OwedIsReached
<1>5. QED BY <1>2, <1>4, OnlyItsCoroutine, GoingOnKeepsInv

LEMMA DisconnectedKeepsInv ==
    ASSUME SocketInv, NEW s \in Sockets, Disconnected(s)
    PROVE  SocketInv'
<1> DEFINE new == [handler[s] EXCEPT !.at = "ended"]
<1>1. /\ new \in Coroutine /\ handler' = [handler EXCEPT ![s] = new]
      /\ handler[s].at = "disconnect" /\ handler[s].todo = {} /\ new.at = "ended"
      /\ UNCHANGED <<peer, registered, members>>
  <2>1. handler[s] \in Coroutine
        BY DEF SocketInv, SocketTypeOK
  <2>2. QED BY <2>1, ElsewhereType DEF Disconnected
<1> HIDE DEF new
<1>2. handler'[s] = new
      BY <1>1, OnlyItsCoroutine
<1>3. OwedIsReached(s)' /\ \A r \in Rooms : ~Serving(s, r)
      BY <1>1, <1>2 DEF Serving, Phase, OwedIsReached
<1>4. QED BY <1>1, <1>3, OnlyItsCoroutine, GoingOnKeepsInv

LEMMA SendToSocketKeepsInv ==
    ASSUME SocketInv, NEW s \in Sockets, NEW t \in Sockets, SendToSocket(s, t)
    PROVE  SocketInv'
<1> DEFINE failed == handler[s].dead \cup (IF peer[t] = "there" THEN {} ELSE {t})
           last == handler[s].sockets = {t}
           new == [handler[s] EXCEPT !.sockets = @ \ {t}, !.owed = @ \ {t},
                                     !.dead = IF last THEN {} ELSE failed]
<1>1. handler[s] \in Coroutine /\ failed \subseteq Sockets
      BY DEF SocketInv, SocketTypeOK, Coroutine
<1>2. /\ new \in Coroutine /\ handler' = [handler EXCEPT ![s] = new]
      /\ handler[s].at = "send" /\ new.at = "send" /\ new.then = handler[s].then
      /\ new.todo = handler[s].todo /\ new.users = handler[s].users
      /\ new.sockets = handler[s].sockets \ {t} /\ new.owed = handler[s].owed \ {t}
      /\ \/ UNCHANGED registered
         \/ registered' = [registered EXCEPT ![Owner[t]] = SocketsOf(Owner[t]) \ failed]
      /\ UNCHANGED <<peer, members>>
      BY <1>1 DEF SendToSocket, SocketInv, SocketTypeOK, Coroutine
<1> HIDE DEF failed, last, new
<1>3. /\ \A x \in Sockets : x # s => handler'[x] = handler[x]
      /\ handler'[s] = new /\ handler' \in [Sockets -> Coroutine]
      BY <1>2 DEF SocketInv, SocketTypeOK
<1>4. Owner[t] \in People /\ SocketsOf(Owner[t]) \subseteq Sockets
      BY OwnerAssumption DEF SocketInv, EntriesOfOwner
<1>5. \A u \in People : SocketsOf(u)' \subseteq SocketsOf(u)
      BY <1>2, <1>4 DEF SocketInv, SocketTypeOK, SocketsOf
<1>6. /\ EntriesOfOwner' /\ Registered' \subseteq Registered
      BY <1>5 DEF SocketInv, EntriesOfOwner, Registered
<1>7. SocketTypeOK'
      BY <1>2, <1>3, <1>4 DEF SocketInv, SocketTypeOK
<1>8. \A r \in Rooms : Serving(s, r) => Serving(s, r)'
      BY <1>2, <1>3 DEF Serving, Phase
<1>9. OwedIsReached(s)'
      BY <1>2, <1>3, <1>6 DEF SocketInv, OwedIsReached
<1>10. QED BY <1>2, <1>3, <1>6, <1>7, <1>8, <1>9, GoingOnKeepsInv

-----------------------------------------------------------------------------
(* The end of a connection.                                                *)

LEMMA DisconnectKeepsInv ==
    ASSUME SocketInv, NEW s \in Sockets, Disconnect(s)
    PROVE  SocketInv'
<1> DEFINE todo == {r \in Rooms : members[r] # {}}
           new == [handler[s] EXCEPT !.at = "disconnect", !.todo = todo]
<1>1. handler[s] \in Coroutine /\ peer[s] # "absent"
      BY DEF SocketInv, SocketTypeOK, AbsentUnstarted, Disconnect
<1>2. /\ new \in Coroutine /\ handler' = [handler EXCEPT ![s] = new]
      /\ handler[s].at = "receive" /\ new.at = "disconnect" /\ new.todo = todo
      /\ peer' = [peer EXCEPT ![s] = "gone"]
      /\ registered' = [registered EXCEPT ![Owner[s]] = Remaining(s)]
      /\ UNCHANGED members
      BY <1>1 DEF Disconnect, SocketInv, SocketTypeOK, Coroutine
<1> HIDE DEF new
<1>3. /\ \A x \in Sockets : x # s => handler'[x] = handler[x]
      /\ handler'[s] = new /\ handler' \in [Sockets -> Coroutine]
      BY <1>2 DEF SocketInv, SocketTypeOK
<1>4. Owner[s] \in People /\ SocketsOf(Owner[s]) \subseteq Sockets
      BY OwnerAssumption DEF SocketInv, EntriesOfOwner
<1>5. \A u \in People : SocketsOf(u)' \subseteq SocketsOf(u)
      BY <1>2, <1>4 DEF SocketInv, SocketTypeOK, SocketsOf, Remaining
<1>6. /\ EntriesOfOwner' /\ Registered' \subseteq Registered
      BY <1>5 DEF SocketInv, EntriesOfOwner, Registered
<1>7. SocketTypeOK'
      BY <1>2, <1>3, <1>4 DEF SocketInv, SocketTypeOK, Remaining
<1>8. \A r \in Rooms : members[r] # {} => Serving(s, r)'
      BY <1>2, <1>3 DEF Serving, Phase
<1>9. /\ \A x \in Sockets : peer'[x] # peer[x] => peer[x] # "absent" /\ peer'[x] = "gone"
      /\ handler[s].at # "unstarted" /\ OwedIsReached(s)'
      BY <1>1, <1>2, <1>3 DEF SocketInv, SocketTypeOK, OwedIsReached
<1>10. QED BY <1>2, <1>3, <1>6, <1>7, <1>8, <1>9, GoingOnKeepsInv

LEMMA DisconnectFromKeepsInv ==
    ASSUME SocketInv, NEW s \in Sockets, NEW r \in Rooms, DisconnectFrom(s, r)
    PROVE  SocketInv'
<1> DEFINE left == members[r] \ {Owner[s]}
           away == [Forgets(r, left) EXCEPT ![s].todo = @ \ {r}]
<1>1. /\ members' = [members EXCEPT ![r] = left]
      /\ handler[s].at = "disconnect" /\ r \in handler[s].todo
      /\ UNCHANGED <<peer, registered>>
      /\ \/ /\ handler' = away
            /\ left = {} \/ Owner[s] \notin members[r]
         \/ handler' = [away EXCEPT ![s] = Send(@, left, "disconnect")]
      BY DEF DisconnectFrom
<1>2. /\ members' \in [Rooms -> SUBSET People] /\ left \in SUBSET People
      /\ members'[r] = left /\ Owner[s] \notin left
      /\ \A q \in Rooms : \A u \in members'[q] : u \in members[q]
      BY <1>1 DEF SocketInv, SocketTypeOK
<1>3. handler \in [Sockets -> Coroutine]
      BY DEF SocketInv, SocketTypeOK
<1>4. /\ Forgets(r, left) \in [Sockets -> Coroutine]
      /\ \A x \in Sockets : x # s => away[x] = Forgets(r, left)[x]
      /\ LET new == away[s] old == Forgets(r, left)[s] IN
         /\ new.at = old.at /\ new.then = old.then
         /\ new.users = old.users /\ new.sockets = old.sockets
         /\ new.owed = old.owed /\ new.todo = old.todo \ {r}
         /\ new \in Coroutine
      /\ away \in [Sockets -> Coroutine]
  <2>1. Forgets(r, left) \in [Sockets -> Coroutine]
        BY <1>3, ForgetsType
  <2>2. \A c \in Coroutine :
           LET new == [c EXCEPT !.todo = @ \ {r}] IN
           /\ new \in Coroutine /\ new.todo = c.todo \ {r}
           /\ new.at = c.at /\ new.then = c.then /\ new.users = c.users
           /\ new.sockets = c.sockets /\ new.owed = c.owed
        BY DEF Coroutine
  <2> DEFINE old == Forgets(r, left)
  <2> HIDE DEF old
  <2>3. QED BY <2>1, <2>2
<1> HIDE DEF left
<1>5. SameBut(away, s, r)
      BY <1>2, <1>3, <1>4, ForgetsType DEF SameBut
<1> HIDE DEF away
<1>6. CASE handler' = [away EXCEPT ![s] = Send(@, left, "disconnect")]
  <2>1. handler[s].at = "disconnect" /\ UNCHANGED <<peer, registered>>
        BY <1>1
  <2>2. Owner[s] \notin members'[r]
        BY <1>2
  <2>3. Begins(away, s, r, left, "disconnect")
        BY <1>2, <1>6, <2>1, <2>2 DEF Begins
  <2>4. QED BY <1>2, <1>5, <2>3, SendingKeepsInv
<1>7. CASE handler' = away
  <2>1. SocketTypeOK' /\ EntriesOfOwner' /\ AbsentUnstarted' /\ Registered' = Registered
        BY <1>1, <1>2, <1>5, <1>7
        DEF SocketInv, SocketTypeOK, EntriesOfOwner, AbsentUnstarted, SocketsOf, Registered, SameBut
  <2>2. \A x \in Sockets : OwedIsReached(x)'
    <3>1. SUFFICES ASSUME NEW x \in Sockets PROVE OwedIsReached(x)'
          OBVIOUS
    <3>2. /\ handler'[x].at = handler[x].at /\ handler'[x].owed = handler[x].owed
          /\ handler'[x].sockets = handler[x].sockets /\ handler'[x].users = handler[x].users
          BY <1>5, <1>7 DEF SameBut
    <3>3. OwedIsReached(x)
          BY DEF SocketInv
    <3>4. QED BY <1>1, <2>1, <3>2, <3>3 DEF OwedIsReached
  <2>3. Served'
    <3>1. SUFFICES ASSUME NEW q \in Rooms, NEW u \in members'[q]
                   PROVE  \E x \in Sockets : Owner[x] = u /\ Serving(x, q)'
          BY DEF Served
    <3>2. PICK x \in Sockets : Owner[x] = u /\ Serving(x, q)
          BY <1>2 DEF SocketInv, Served
    <3>3. Phase(x)' = Phase(x)
          BY <1>5, <1>7 DEF SameBut, Phase
    <3>4. q \in handler[x].todo => q \in handler'[x].todo
      <4>1. handler[x].todo \ {r} \subseteq handler'[x].todo
            BY <1>5, <1>7 DEF SameBut
      <4>2. CASE q = r
        <5>1. x # s /\ members'[r] # {}
              BY <1>2, <3>2, <4>2
        <5>2. QED BY <1>5, <1>7, <5>1 DEF SameBut
      <4>3. QED BY <4>1, <4>2
    <3>5. QED BY <3>2, <3>3, <3>4 DEF Serving
  <2>4. QED BY <2>1, <2>2, <2>3 DEF SocketInv
<1>8. QED BY <1>1, <1>6, <1>7

-----------------------------------------------------------------------------
(* The theorems.                                                           *)

LEMMA SocketNextInv == SocketInv /\ [SocketNext]_socketVars => SocketInv'
<1> SUFFICES ASSUME SocketInv, [SocketNext]_socketVars PROVE SocketInv'
    OBVIOUS
<1>1. CASE UNCHANGED socketVars
      BY <1>1 DEF socketVars, SocketInv, SocketTypeOK, EntriesOfOwner, AbsentUnstarted, Served,
                  OwedIsReached, SocketsOf, Registered, Serving, Phase
<1>2. ASSUME NEW s \in Sockets, GoOn(s) PROVE SocketInv'
      BY <1>2, HandshakeKeepsInv, SendToUserKeepsInv, SendToSocketKeepsInv, SentKeepsInv,
         DisconnectFromKeepsInv, DisconnectedKeepsInv DEF GoOn
<1>3. CASE SocketNext
      BY <1>2, <1>3, ConnectKeepsInv, VanishKeepsInv, ServeKeepsInv, DisconnectKeepsInv
      DEF SocketNext
<1>4. QED BY <1>1, <1>3

THEOREM SocketsKeepInv == SocketSpec => []SocketInv
BY SocketInitInv, SocketNextInv, PTL DEF SocketSpec

\* Leaving a room and disconnecting work room by room: nobody stays a member of a room
\* with no connection left that would take them out.
THEOREM MembersStayServed == SocketSpec => []MembersAreServed
<1>1. SocketInv => MembersAreServed
  <2> SUFFICES ASSUME SocketInv, NEW r \in Rooms, NEW u \in members[r]
               PROVE  \E s \in Sockets : Owner[s] = u /\ handler[s].at \in Running
      BY DEF MembersAreServed
  <2>1. PICK s \in Sockets : Owner[s] = u /\ Serving(s, r)
        BY DEF SocketInv, Served
  <2>2. handler[s].at \in Running
        BY <2>1 DEF Serving, Phase, Running
  <2>3. QED BY <2>1, <2>2
<1>2. QED BY <1>1, SocketsKeepInv, PTL

\* A sending ends with nobody left to send to.
LEMMA OnlySentEndsSending ==
    ASSUME SocketInv, SocketNext, NEW s \in Sockets,
           handler[s].at = "send", handler'[s].at # "send"
    PROVE  handler[s].users = {} /\ handler[s].sockets = {}
<1>1. handler \in [Sockets -> Coroutine]
      BY DEF SocketInv, SocketTypeOK
<1>2. PICK x \in Sockets : Connect(x) \/ Vanish(x) \/ Serve(x) \/ Disconnect(x) \/ GoOn(x)
      BY DEF SocketNext
<1>3. CASE Connect(x) \/ Vanish(x) \/ Disconnect(x)
      BY <1>1, <1>3 DEF Connect, Vanish, Disconnect, SocketInv, AbsentUnstarted
<1>4. CASE Reply(x) \/ BroadcastAll(x)
      BY <1>1, <1>4 DEF Reply, BroadcastAll, Receives
<1>5. ASSUME NEW r \in Rooms, JoinRoom(x, r) \/ Message(x, r) PROVE FALSE
      BY <1>1, <1>5 DEF JoinRoom, Message, Receives
<1>6. ASSUME NEW r \in Rooms, LeaveRoom(x, r) PROVE FALSE
  <2>1. /\ handler[x].at = "receive"
        /\ handler' = [Forgets(r, members[r] \ {Owner[x]}) EXCEPT
                         ![x] = Send(@, members[r] \ {Owner[x]}, "receive")]
        BY <1>6 DEF LeaveRoom, Receives
  <2>2. handler'[s] = Forgets(r, members[r] \ {Owner[x]})[s]
        BY <1>1, <2>1, ForgetsType
  <2>3. QED BY <1>1, <2>2, ForgetsType
<1>7. ASSUME NEW r \in Rooms, DisconnectFrom(x, r) PROVE FALSE
  <2> DEFINE left == members[r] \ {Owner[x]}
             away == [Forgets(r, left) EXCEPT ![x].todo = @ \ {r}]
  <2>1. /\ handler[x].at = "disconnect"
        /\ handler' = away \/ handler' = [away EXCEPT ![x] = Send(@, left, "disconnect")]
        BY <1>7 DEF DisconnectFrom
  <2>2. x # s
        BY <2>1
  <2>3. handler'[s] = Forgets(r, left)[s]
        BY <1>1, <2>1, <2>2, ForgetsType
  <2>4. QED BY <1>1, <2>3, ForgetsType
<1>8. CASE Handshake(x) \/ Disconnected(x)
      BY <1>1, <1>8 DEF Handshake, Disconnected
<1>9. CASE Sent(x)
      BY <1>1, <1>9 DEF Sent
<1>10. ASSUME NEW u \in People, SendToUser(x, u) PROVE FALSE
      BY <1>1, <1>10 DEF SendToUser
<1>11. ASSUME NEW t \in Sockets, SendToSocket(x, t) PROVE FALSE
      BY <1>1, <1>11 DEF SendToSocket
<1>12. QED BY <1>2, <1>3, <1>4, <1>5, <1>6, <1>7, <1>8, <1>9, <1>10, <1>11 DEF Serve, GoOn

\* The two loops of a broadcast pass over nobody who stays connected, whichever
\* connections fail or come meanwhile.
THEOREM MessagesReach == SocketSpec => MessagesArrive
<1> DEFINE Arrives ==
        \A s \in Sockets : handler[s].at = "send" /\ handler'[s].at # "send" =>
            \A t \in handler[s].owed : peer[t] = "gone" \/ t \notin Registered
<1>1. SocketInv /\ [SocketNext]_socketVars => [Arrives]_socketVars
  <2> SUFFICES ASSUME SocketInv, SocketNext, NEW s \in Sockets,
                      handler[s].at = "send", handler'[s].at # "send",
                      NEW t \in handler[s].owed
               PROVE  peer[t] = "gone" \/ t \notin Registered
      OBVIOUS
  <2>1. handler[s].users = {} /\ handler[s].sockets = {}
        BY OnlySentEndsSending
  <2>2. QED BY <2>1 DEF SocketInv, OwedIsReached
<1>2. QED BY <1>1, SocketsKeepInv, PTL DEF SocketSpec, MessagesArrive
=============================================================================
