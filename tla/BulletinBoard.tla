--------------------------- MODULE BulletinBoard ---------------------------
(***************************************************************************)
(* csieBulletinBoard: server.c and client.c.  Several server processes     *)
(* share the file ./BulletinBoard of RECORD_NUM records and protect each   *)
(* record with an fcntl write lock.  fcntl locks belong to the process:    *)
(* a server never conflicts with itself, so each one also remembers in     *)
(* mylock which records its own clients are writing.                       *)
(*                                                                         *)
(* One step of a server is one system call that another process can see    *)
(* (a lock, an unlock, a read, a write of one record, a receive, a send)   *)
(* with the local work around it.  One step of a client is one send or one *)
(* receive; what the user types is a free choice.  A connection is an      *)
(* ordered stream: a receive returns all that has arrived.                 *)
(*                                                                         *)
(* Any process may end at any moment, and a server may be started again:   *)
(* what it kept in memory and its fcntl locks are lost, the file is not.   *)
(* What the other end of a connection sees of it is what TCP does.         *)
(***************************************************************************)
EXTENDS Integers, Sequences, FiniteSets

CONSTANTS
  Servers,     \* server processes
  Clients,     \* client processes, each with one connection
  Posters,     \* the clients whose users type "post"
  Readers,     \* the clients whose users type "pull"
  ServerOf,    \* the server a client connects to
  RECORD_NUM,  \* records in the file
  MaxPosts,    \* posts a client submits (a bound of the model)
  Paced,       \* TRUE when a user types only after the server took the last text
  MaxStarts,   \* times a client is started (a bound of the model)
  MaxFaults,   \* processes killed (a bound of the model)
  NoOne        \* not a server, not a client

ASSUME BoardAssumption ==
  /\ Posters \subseteq Clients /\ Readers \subseteq Clients
  /\ ServerOf \in [Clients -> Servers]
  /\ RECORD_NUM \in Nat \ {0}
  /\ MaxPosts \in Nat
  /\ Paced \in BOOLEAN
  /\ MaxStarts \in Nat /\ MaxFaults \in Nat
  /\ NoOne \notin Servers \cup Clients

VARIABLES
  file,        \* the records of ./BulletinBoard
  owner,       \* the server that holds the fcntl lock of each record
  mylock,      \* of each server: the records its own clients are writing
  last,        \* of each server: the record it gave out last
  LAST,        \* of each connection: the record given to it
  mismarked,   \* history: the servers whose Release reset the wrong mylock
  pc,          \* where each server is in its loop
  ready,       \* of each server: the readable connections not yet served
  scan,        \* of each server: the locals of the request being served
  user,        \* what each client is doing
  posts,       \* of each client: posts submitted
  starts,      \* of each client: how often it was started
  faults,      \* processes killed so far
  link,        \* of each client: the state of its connection
  toServer,    \* of each connection: what the client sent, not yet received
  toClient     \* of each connection: what the server sent, not yet received

boardVars  == <<file, owner>>
grantVars  == <<mylock, last, LAST, mismarked>>
serverVars == <<pc, ready, scan>>
clientVars == <<user, posts, starts>>
streams == <<toServer, toClient>>
vars == <<boardVars, grantVars, serverVars, clientVars, link, streams, faults>>

Slots == 0 .. RECORD_NUM - 1

(* A record: whose post it is, the number of the post, and whether the text *)
(* is what the author sent.  Blank has an empty Content.                    *)
Record(c, n, intact) == [from |-> c, n |-> n, intact |-> intact]
Records == [from : Clients \cup {NoOne}, n : 0 .. MaxPosts + 1, intact : BOOLEAN]
Blank == Record(NoOne, 0, TRUE)
Old   == Record(NoOne, 1, TRUE)

(* A connection waits in the queue of the server ("queued"), is accepted    *)
(* ("up"), and loses one end after the other.  The client's end is closed   *)
(* in "left" (in the queue), "half" and "broken" (an answer was unread: the *)
(* server's next receive fails).  The server's end is closed in "fin" (the  *)
(* client receives nothing more), "dead" (so, and the client has sent since *)
(* then) and "reset" (the client's next send or receive fails).             *)
Links == {"none", "queued", "up", "left", "half", "broken", "fin", "dead", "reset"}
Served == {"up", "half", "broken"}

(* The locals of a request: the connection, the records visited so far,     *)
(* where the post scan started (oldlast), its counters, the locked records  *)
(* met by a pull and the text collected by it.                              *)
Idle == [fd |-> NoOne, i |-> 0, oldlast |-> -1, unlkc |-> RECORD_NUM,
         interlk |-> 0, lockcount |-> 0, temp |-> <<>>]

Init ==
  /\ file \in {[k \in Slots |-> r] : r \in {Blank, Old}}
  /\ owner = [k \in Slots |-> NoOne]
  /\ mylock = [s \in Servers |-> [k \in Slots |-> 0]]
  /\ last = [s \in Servers |-> -1]
  /\ LAST = [c \in Clients |-> -1]      \* not initialised; read only once set
  /\ mismarked = {}
  /\ pc = [s \in Servers |-> "select"]
  /\ ready = [s \in Servers |-> {}]
  /\ scan = [s \in Servers |-> Idle]
  /\ user = [c \in Clients |-> "gone"]
  /\ starts = [c \in Clients |-> 0]
  /\ faults = 0
  /\ link = [c \in Clients |-> "none"]
  /\ posts = [c \in Clients |-> 0]
  /\ toServer = [c \in Clients |-> <<>>]
  /\ toClient = [c \in Clients |-> <<>>]

-----------------------------------------------------------------------------
(* fcntl on one record, with F_SETLK: it never waits.                      *)

CanLock_Any(s, k) == TRUE
CanLock(s, k) == owner[k] \in {s, NoOne}
LockRecord(s, k) == owner' = [owner EXCEPT ![k] = s]
UnlockRecord(s, k) ==
  owner' = [owner EXCEPT ![k] = IF @ = s THEN NoOne ELSE @]

Go(s, l) == pc' = [pc EXCEPT ![s] = l]
Visited(s) == [scan[s] EXCEPT !.i = @ + 1]
Local(s, field, value) == [scan[s] EXCEPT !.i = @ + 1, ![field] = value]

Reply(s, msg) ==
  /\ toClient' = [toClient EXCEPT ![scan[s].fd] = Append(@, msg)]
  /\ scan' = [scan EXCEPT ![s] = Idle]
  /\ Go(s, "select")

-----------------------------------------------------------------------------
(* The select loop.  A new connection comes before any request.             *)

Arriving(s) == {c \in Clients : ServerOf[c] = s /\ link[c] \in {"queued", "left"}}

(* A connection that the client closed is readable for ever; when nothing   *)
(* is left the server receives "", which is no command, and goes on.        *)
Readable(s) ==
  {c \in Clients : /\ ServerOf[c] = s
                   /\ toServer[c] # <<>> \/ link[c] = "broken"}

Select(s) ==
  /\ pc[s] = "select" /\ ready[s] = {}
  /\ Arriving(s) = {}
  /\ Readable(s) # {}
  /\ ready' = [ready EXCEPT ![s] = Readable(s)]
  /\ UNCHANGED <<boardVars, grantVars, pc, scan, clientVars, link, streams, faults>>

(* select() times out after a microsecond and the loop goes round.          *)
SelectTimeout(s) ==
  /\ pc[s] = "select" /\ ready[s] = {}
  /\ Arriving(s) = {} /\ Readable(s) = {}
  /\ UNCHANGED vars

(* accept(), then the welcome text is collected like the answer to a pull.  *)
Accept(s) ==
  /\ pc[s] = "select" /\ ready[s] = {}
  /\ \E c \in Arriving(s) :
       /\ link' = [link EXCEPT ![c] = IF @ = "queued" THEN "up" ELSE "half"]
       /\ scan' = [scan EXCEPT ![s] = [Idle EXCEPT !.fd = c]]
  /\ Go(s, "try")
  /\ UNCHANGED <<boardVars, grantVars, ready, clientVars, streams, faults>>

(* One readable connection is received from: all that has arrived.          *)
Receive(s, c) ==
  /\ pc[s] = "select"
  /\ c \in ready[s]
  /\ toServer[c] # <<>>
  /\ ready' = [ready EXCEPT ![s] = @ \ {c}]
  /\ toServer' = [toServer EXCEPT ![c] = <<>>]

ReceiveExit(s) ==
  /\ \E c \in ready[s] :
       /\ toServer[c] = <<"exit">>
       /\ Receive(s, c)
       /\ link' = [link EXCEPT ![c] = "none"]
  /\ UNCHANGED <<boardVars, grantVars, pc, scan, clientVars, toClient, faults>>

(* A word the server does not know changes nothing; the client has ended    *)
(* and its connection stays open.                                           *)
ReceiveOther(s) ==
  /\ \E c \in ready[s] : toServer[c] = <<"other">> /\ Receive(s, c)
  /\ UNCHANGED <<boardVars, grantVars, pc, scan, clientVars, link, toClient, faults>>

(* "[SP]": the text replaces the record given to the connection.  When the  *)
(* next command arrived with it, that command has become part of the text.  *)
ReceiveSP(s) ==
  /\ \E c \in ready[s] :
       /\ Receive(s, c)
       /\ Head(toServer[c]) = "[SP]"
       /\ file' = [file EXCEPT ![LAST[c]] =
                     Record(c, posts[c], Len(toServer[c]) = 1)]
       /\ scan' = [scan EXCEPT ![s] = [Idle EXCEPT !.fd = c]]
  /\ Go(s, "release")
  /\ UNCHANGED <<owner, grantVars, clientVars, link, toClient, faults>>

Release_Leak(s) ==
  /\ pc[s] = "release"
  /\ UnlockRecord(s, LAST[scan[s].fd])
  /\ scan' = [scan EXCEPT ![s] = Idle]
  /\ Go(s, "select")
  /\ UNCHANGED <<file, grantVars, ready, clientVars, link, streams, faults>>

(* Then the fcntl lock of LAST[fd] is dropped, and mylock[last] is reset:   *)
(* the record given out last, which is another one when two authors of the  *)
(* server wrote at a time.  With last = -1 the code writes in front of the  *)
(* array, where the build has the end of LAST: no connection's number.      *)
Release(s) ==
  /\ pc[s] = "release"
  /\ UnlockRecord(s, LAST[scan[s].fd])
  /\ mylock' = IF last[s] = -1 THEN mylock
                               ELSE [mylock EXCEPT ![s][last[s]] = 0]
  /\ mismarked' = IF last[s] = LAST[scan[s].fd] THEN mismarked
                                                ELSE mismarked \cup {s}
  /\ scan' = [scan EXCEPT ![s] = Idle]
  /\ Go(s, "select")
  /\ UNCHANGED <<file, last, LAST, ready, clientVars, link, streams, faults>>

-----------------------------------------------------------------------------
(* "post": all records are visited once, from the one after last, and the   *)
(* first free one is given to the connection.                               *)

Wrapped(s) == IF last[s] + 1 = RECORD_NUM THEN -1 ELSE last[s]

ReceivePost(s) ==
  /\ \E c \in ready[s] :
       /\ toServer[c] = <<"post">>
       /\ Receive(s, c)
       /\ scan' = [scan EXCEPT ![s] =
                     [Idle EXCEPT !.fd = c, !.oldlast = Wrapped(s)]]
  /\ last' = [last EXCEPT ![s] = Wrapped(s)]
  /\ Go(s, "post")
  /\ UNCHANGED <<boardVars, mylock, LAST, mismarked, clientVars, link, toClient, faults>>

(* The scan's two loops visit oldlast+1 .. RECORD_NUM-1 and 0 .. oldlast.   *)
PostSlot_Again(s) == (scan[s].oldlast + scan[s].i + RECORD_NUM) % RECORD_NUM
PostSlot(s) == (scan[s].oldlast + 1 + scan[s].i) % RECORD_NUM

PostLocked_OthersNotCounted(s) ==
  LET k == PostSlot(s) IN
  /\ pc[s] = "post" /\ scan[s].i < RECORD_NUM
  /\ \/ /\ ~CanLock(s, k) /\ UNCHANGED owner
        /\ scan' = [scan EXCEPT ![s] = Visited(s)]
     \/ /\ CanLock(s, k) /\ mylock[s][k] = 1 /\ LockRecord(s, k)
        /\ scan' = [scan EXCEPT ![s] = Local(s, "unlkc", @.unlkc - 1)]
  /\ UNCHANGED <<file, grantVars, pc, ready, clientVars, link, streams, faults>>

PostLocked(s) ==          \* by another server, or by a client of this one
  LET k == PostSlot(s) IN
  /\ pc[s] = "post" /\ scan[s].i < RECORD_NUM
  /\ \/ ~CanLock(s, k) /\ UNCHANGED owner
     \/ CanLock(s, k) /\ mylock[s][k] = 1 /\ LockRecord(s, k)
  /\ scan' = [scan EXCEPT ![s] = Local(s, "unlkc", @.unlkc - 1)]
  /\ UNCHANGED <<file, grantVars, pc, ready, clientVars, link, streams, faults>>

PostGrant_NoMark(s) ==
  LET k == PostSlot(s) IN
  /\ pc[s] = "post" /\ scan[s].i < RECORD_NUM
  /\ CanLock(s, k) /\ mylock[s][k] = 0 /\ scan[s].interlk = 0
  /\ LockRecord(s, k)
  /\ last' = [last EXCEPT ![s] = k]
  /\ LAST' = [LAST EXCEPT ![scan[s].fd] = k]
  /\ scan' = [scan EXCEPT ![s] = Local(s, "interlk", 1)]
  /\ UNCHANGED <<file, mylock, mismarked, pc, ready, clientVars, link, streams, faults>>

PostGrant(s) ==
  LET k == PostSlot(s) IN
  /\ pc[s] = "post" /\ scan[s].i < RECORD_NUM
  /\ CanLock(s, k) /\ mylock[s][k] = 0 /\ scan[s].interlk = 0
  /\ LockRecord(s, k)
  /\ last' = [last EXCEPT ![s] = k]
  /\ LAST' = [LAST EXCEPT ![scan[s].fd] = k]
  /\ mylock' = [mylock EXCEPT ![s][k] = 1]
  /\ scan' = [scan EXCEPT ![s] = Local(s, "interlk", 1)]
  /\ UNCHANGED <<file, mismarked, pc, ready, clientVars, link, streams, faults>>

(* A free record met after the grant is locked as well and stays locked.    *)
PostExtra(s) ==
  LET k == PostSlot(s) IN
  /\ pc[s] = "post" /\ scan[s].i < RECORD_NUM
  /\ CanLock(s, k) /\ mylock[s][k] = 0 /\ scan[s].interlk = 1
  /\ LockRecord(s, k)
  /\ scan' = [scan EXCEPT ![s] = Visited(s)]
  /\ UNCHANGED <<file, grantVars, pc, ready, clientVars, link, streams, faults>>

PostReply_OnlyYes(s) ==
  /\ pc[s] = "post" /\ scan[s].i = RECORD_NUM
  /\ IF scan[s].unlkc = 0
     THEN /\ scan' = [scan EXCEPT ![s] = Idle] /\ Go(s, "select")
          /\ UNCHANGED toClient
     ELSE Reply(s, "1")
  /\ UNCHANGED <<boardVars, grantVars, ready, clientVars, link, toServer, faults>>

PostReply(s) ==
  /\ pc[s] = "post" /\ scan[s].i = RECORD_NUM
  /\ Reply(s, IF scan[s].unlkc = 0 THEN "0" ELSE "1")
  /\ UNCHANGED <<boardVars, grantVars, ready, clientVars, link, toServer, faults>>

-----------------------------------------------------------------------------
(* "pull": each record is locked to see whether it is free, unlocked, read. *)

ReceivePull(s) ==
  /\ \E c \in ready[s] :
       /\ toServer[c] = <<"pull">>
       /\ Receive(s, c)
       /\ scan' = [scan EXCEPT ![s] = [Idle EXCEPT !.fd = c]]
  /\ Go(s, "try")
  /\ UNCHANGED <<boardVars, grantVars, clientVars, link, toClient, faults>>

PullLocked(s) ==
  LET k == scan[s].i IN
  /\ pc[s] = "try" /\ k < RECORD_NUM
  /\ \/ ~CanLock(s, k) /\ UNCHANGED owner
     \/ CanLock(s, k) /\ mylock[s][k] = 1 /\ LockRecord(s, k)
  /\ scan' = [scan EXCEPT ![s] = Local(s, "lockcount", @.lockcount + 1)]
  /\ UNCHANGED <<file, grantVars, pc, ready, clientVars, link, streams, faults>>

PullLock_Own(s) ==
  LET k == scan[s].i IN
  /\ pc[s] = "try" /\ k < RECORD_NUM
  /\ CanLock(s, k)
  /\ LockRecord(s, k)
  /\ Go(s, "unlock")
  /\ UNCHANGED <<file, grantVars, ready, scan, clientVars, link, streams, faults>>

PullLock(s) ==
  LET k == scan[s].i IN
  /\ pc[s] = "try" /\ k < RECORD_NUM
  /\ CanLock(s, k) /\ mylock[s][k] = 0
  /\ LockRecord(s, k)
  /\ Go(s, "unlock")
  /\ UNCHANGED <<file, grantVars, ready, scan, clientVars, link, streams, faults>>

PullUnlock(s) ==
  /\ pc[s] = "unlock"
  /\ UnlockRecord(s, scan[s].i)
  /\ Go(s, "read")
  /\ UNCHANGED <<file, grantVars, ready, scan, clientVars, link, streams, faults>>

PullRead_Blanks(s) ==
  /\ pc[s] = "read"
  /\ scan' = [scan EXCEPT ![s] =
                Local(s, "temp", Append(@.temp, file[scan[s].i]))]
  /\ Go(s, "try")
  /\ UNCHANGED <<boardVars, grantVars, ready, clientVars, link, streams, faults>>

PullRead(s) ==
  LET r == file[scan[s].i] IN
  /\ pc[s] = "read"
  /\ scan' = [scan EXCEPT ![s] =
       Local(s, "temp", IF r # Blank THEN Append(@.temp, r) ELSE @.temp)]
  /\ Go(s, "try")
  /\ UNCHANGED <<boardVars, grantVars, ready, clientVars, link, streams, faults>>

PullReply(s) ==
  /\ pc[s] = "try" /\ scan[s].i = RECORD_NUM
  /\ Reply(s, "text")
  /\ UNCHANGED <<boardVars, grantVars, ready, clientVars, link, toServer, faults>>

-----------------------------------------------------------------------------
(* client.c: after the welcome, one command at a time.  Nothing answers a   *)
(* submission, so the next command may be sent while it is on its way.      *)

(* A client is started, again once the server has closed its last           *)
(* connection.  While the server is down connect() fails and it exits.      *)
Connect(c) ==
  /\ user[c] \in {"gone", "lost"} /\ link[c] = "none"
  /\ starts[c] < MaxStarts
  /\ pc[ServerOf[c]] # "down"
  /\ user' = [user EXCEPT ![c] = "welcome"]
  /\ starts' = [starts EXCEPT ![c] = @ + 1]
  /\ link' = [link EXCEPT ![c] = "queued"]
  /\ UNCHANGED <<boardVars, grantVars, serverVars, posts, streams, faults>>

(* The connection after the client's process has ended.                     *)
Abandoned(c) ==
  CASE link[c] = "queued" -> "left"
    [] link[c] = "up" -> IF toClient[c] = <<>> THEN "half" ELSE "broken"
    [] OTHER -> "none"

End(c) ==
  /\ user' = [user EXCEPT ![c] =
                IF @ = "editing" /\ link[c] = "up" THEN "lost" ELSE "gone"]
  /\ link' = [link EXCEPT ![c] = Abandoned(c)]
  /\ toClient' = [toClient EXCEPT ![c] = IF link[c] = "up" THEN @ ELSE <<>>]

(* sendM.  The first message to a server that has ended gets lost; the next *)
(* one ends the client, with SIGPIPE or by exit(1).                         *)
Send(c, msg, next) ==
  \/ /\ link[c] = "up"
     /\ toServer' = [toServer EXCEPT ![c] = Append(@, msg)]
     /\ user' = [user EXCEPT ![c] = next]
     /\ UNCHANGED <<link, toClient>>
  \/ /\ link[c] = "fin"
     /\ link' = [link EXCEPT ![c] = "dead"]
     /\ user' = [user EXCEPT ![c] = next]
     /\ UNCHANGED streams
  \/ link[c] \in {"dead", "reset"} /\ End(c) /\ UNCHANGED toServer

MayType(c) == user[c] = "prompt" /\ (Paced => toServer[c] = <<>>)

TypePost(c) ==
  /\ MayType(c) /\ c \in Posters /\ posts[c] < MaxPosts
  /\ Send(c, "post", "asking")
  /\ UNCHANGED <<boardVars, grantVars, serverVars, posts, starts, faults>>

TypePull(c) ==
  /\ MayType(c) /\ c \in Readers
  /\ Send(c, "pull", "pulling")
  /\ UNCHANGED <<boardVars, grantVars, serverVars, posts, starts, faults>>

(* Any word but "post" and "pull" is sent, and the client ends.             *)
TypeExit(c) ==
  /\ MayType(c)
  /\ \E word \in {"exit", "other"} :
       toServer' = [toServer EXCEPT ![c] = IF link[c] = "up" THEN Append(@, word) ELSE @]
  /\ End(c)
  /\ UNCHANGED <<boardVars, grantVars, serverVars, posts, starts, faults>>

(* receiveM: what has arrived, "" when the server has closed the            *)
(* connection; after a reset the client exits.                              *)
Arrived(c) == toClient[c] # <<>> \/ link[c] \in {"fin", "dead"}
Text(c) == IF toClient[c] # <<>> THEN Head(toClient[c]) ELSE ""
Consume(c) == toClient' = [toClient EXCEPT ![c] = <<>>]

(* The welcome or the answer to a pull is printed.                          *)
ReadText(c) ==
  /\ user[c] \in {"welcome", "pulling"}
  /\ Arrived(c) /\ Consume(c)
  /\ user' = [user EXCEPT ![c] = "prompt"]
  /\ UNCHANGED <<boardVars, grantVars, serverVars, posts, starts, link, toServer, faults>>

ReadVerdict_AlwaysYes(c) ==
  /\ user[c] = "asking"
  /\ Arrived(c) /\ Consume(c)
  /\ user' = [user EXCEPT ![c] = "editing"]
  /\ UNCHANGED <<boardVars, grantVars, serverVars, posts, starts, link, toServer, faults>>

(* "0" is the error "Maximum posting limit exceeded"; all else is taken for *)
(* a yes, the "" of a server that has ended too.                            *)
ReadVerdict(c) ==
  /\ user[c] = "asking"
  /\ Arrived(c) /\ Consume(c)
  /\ user' = [user EXCEPT ![c] = IF Text(c) = "0" THEN "prompt" ELSE "editing"]
  /\ UNCHANGED <<boardVars, grantVars, serverVars, posts, starts, link, toServer, faults>>

ReadFails(c) ==
  /\ user[c] \in {"welcome", "pulling", "asking"}
  /\ toClient[c] = <<>> /\ link[c] = "reset"
  /\ End(c)
  /\ UNCHANGED <<boardVars, grantVars, serverVars, posts, starts, toServer, faults>>

Submit(c) ==
  /\ user[c] = "editing"
  /\ Send(c, "[SP]", "prompt")
  /\ posts' = [posts EXCEPT ![c] = @ + 1]
  /\ UNCHANGED <<boardVars, grantVars, serverVars, starts, faults>>

Kill(c) ==
  /\ faults < MaxFaults /\ faults' = faults + 1
  /\ user[c] \notin {"gone", "lost"}
  /\ End(c)
  /\ UNCHANGED <<boardVars, grantVars, serverVars, posts, starts, toServer>>

-----------------------------------------------------------------------------
(* A server ends: its locks and its memory go with the process.  A client   *)
(* whose message it has not received sees a reset, the others the end of    *)
(* the stream after what was sent to them.                                  *)
Die(s) ==
  LET mine == {c \in Clients : ServerOf[c] = s}
      seen(c) == CASE link[c] = "queued" -> "reset"
                   [] link[c] = "up" -> IF toServer[c] = <<>> THEN "fin" ELSE "reset"
                   [] link[c] \in {"left", "half", "broken"} -> "none"
                   [] OTHER -> link[c]
  IN /\ owner' = [k \in Slots |-> IF owner[k] = s THEN NoOne ELSE owner[k]]
     /\ mylock' = [mylock EXCEPT ![s] = [k \in Slots |-> 0]]
     /\ last' = [last EXCEPT ![s] = -1]
     /\ LAST' = [c \in Clients |-> IF c \in mine THEN -1 ELSE LAST[c]]
     /\ mismarked' = mismarked \ {s}
     /\ Go(s, "down")
     /\ ready' = [ready EXCEPT ![s] = {}]
     /\ scan' = [scan EXCEPT ![s] = Idle]
     /\ link' = [c \in Clients |-> IF c \in mine THEN seen(c) ELSE link[c]]
     /\ toServer' = [c \in Clients |-> IF c \in mine THEN <<>> ELSE toServer[c]]
     /\ toClient' = [c \in Clients |->
          IF c \in mine /\ seen(c) = "none" THEN <<>> ELSE toClient[c]]
     /\ UNCHANGED <<file, clientVars>>

(* receiveM: a receive that fails ends the server.                          *)
ReceiveFails(s) ==
  /\ pc[s] = "select"
  /\ \E c \in ready[s] : link[c] = "broken" /\ toServer[c] = <<>>
  /\ Die(s)
  /\ UNCHANGED faults

Crash(s) ==
  /\ faults < MaxFaults /\ faults' = faults + 1
  /\ pc[s] # "down"
  /\ Die(s)

(* main up to the loop.                                                     *)
Restart(s) ==
  /\ pc[s] = "down"
  /\ Go(s, "select")
  /\ UNCHANGED <<boardVars, grantVars, ready, scan, clientVars, link, streams, faults>>

-----------------------------------------------------------------------------
Server(s) ==
  \/ Select(s) \/ Accept(s)
  \/ ReceiveExit(s) \/ ReceiveOther(s) \/ ReceiveFails(s) \/ ReceiveSP(s) \/ Release(s)
  \/ ReceivePost(s) \/ PostLocked(s) \/ PostGrant(s) \/ PostExtra(s)
  \/ PostReply(s)
  \/ ReceivePull(s) \/ PullLocked(s) \/ PullLock(s) \/ PullUnlock(s)
  \/ PullRead(s) \/ PullReply(s)

Reads(c) == ReadText(c) \/ ReadVerdict(c) \/ ReadFails(c)
Types(c) == TypePost(c) \/ TypePull(c) \/ TypeExit(c) \/ Submit(c)

Next ==
  \/ \E s \in Servers : Server(s) \/ SelectTimeout(s) \/ Crash(s) \/ Restart(s)
  \/ \E c \in Clients : Connect(c) \/ Reads(c) \/ Types(c) \/ Kill(c)

Spec == Init /\ [][Next]_vars

(* Servers and the receives of clients are scheduled; users type when they  *)
(* like, and nobody has to start a server again.                            *)
FairSpec == /\ Spec
            /\ \A s \in Servers : WF_vars(Server(s))
            /\ \A c \in Clients : WF_vars(Reads(c))

-----------------------------------------------------------------------------
(* The properties.                                                          *)

(* The program counter and the messages of each process are of their kind,  *)
(* and what the loops use as an index of a record is one.                   *)
Commands == {"post", "pull", "exit", "other"}
ToServer == {<<>>, <<"[SP]">>} \cup {<<m>> : m \in Commands}
            \cup {<<"[SP]", m>> : m \in Commands}
ToClient == {<<>>, <<"text">>, <<"0">>, <<"1">>}
Scans == [fd : Clients \cup {NoOne}, i : 0 .. RECORD_NUM,
          oldlast : -1 .. RECORD_NUM - 1, unlkc : Int, interlk : {0, 1},
          lockcount : Nat, temp : Seq(Records)]

TypeOK ==
  /\ file \in [Slots -> Records]
  /\ owner \in [Slots -> Servers \cup {NoOne}]
  /\ mylock \in [Servers -> [Slots -> {0, 1}]]
  /\ last \in [Servers -> Slots \cup {-1}]
  /\ LAST \in [Clients -> Slots \cup {-1}]
  /\ mismarked \subseteq Servers
  /\ pc \in [Servers -> {"select", "post", "release", "try", "unlock", "read", "down"}]
  /\ ready \in [Servers -> SUBSET Clients]
  /\ scan \in [Servers -> Scans]
  /\ \A s \in Servers :
       /\ pc[s] \notin {"select", "down"} => scan[s].fd \in Clients
       /\ pc[s] \in {"unlock", "read"} => scan[s].i \in Slots
       /\ pc[s] = "release" => LAST[scan[s].fd] \in Slots
  /\ user \in [Clients -> {"welcome", "prompt", "asking", "pulling", "editing",
                           "gone", "lost"}]
  /\ link \in [Clients -> Links]
  /\ posts \in [Clients -> 0 .. MaxPosts] /\ starts \in [Clients -> 0 .. MaxStarts]
  /\ faults \in 0 .. MaxFaults
  /\ toServer \in [Clients -> ToServer]
  /\ toClient \in [Clients -> ToClient]

(* The stages of a grant, from the scan that gives the record to the end of *)
(* the submission.                                                          *)
Scanning(c) == LET s == ServerOf[c] IN
  pc[s] = "post" /\ scan[s].fd = c /\ scan[s].interlk = 1
Releasing(c) == LET s == ServerOf[c] IN pc[s] = "release" /\ scan[s].fd = c
Unwritten(c) ==
  \/ Scanning(c)
  \/ /\ link[c] \in Served
     /\ \/ toClient[c] = <<"1">>
        \/ user[c] \in {"editing", "lost"}
        \/ toServer[c] # <<>> /\ Head(toServer[c]) = "[SP]"
Holds(c) == Unwritten(c) \/ Releasing(c)

(* mylock is reset for the record given out last (server.c 382).  That goes *)
(* wrong when two authors of one server write at a time: the server then    *)
(* has forgotten a record that is being written, until it is started again. *)
(* The properties below are about every server that this has not happened   *)
(* to, with as many authors as it likes; to a server with one author it     *)
(* never happens (MylockKept).                                              *)
Trusted(c) == Holds(c) /\ ServerOf[c] \notin mismarked
OneAuthor(s) == \A c, d \in Posters : ServerOf[c] = s /\ ServerOf[d] = s => c = d

MarksExact(s) ==
  \A k \in Slots :
    mylock[s][k] = 1 <=>
      \E c \in Clients : ServerOf[c] = s /\ LAST[c] = k /\ Holds(c)

(* mylock says 1 of a record exactly while a client of the server writes it *)
(* (server.c 167: "lock:1 nolock=0"), until a submission resets another     *)
(* record than its own, and always when the server has one author at most.  *)
MylockKept ==
  \A s \in Servers : /\ s \notin mismarked => MarksExact(s)
                     /\ OneAuthor(s) => s \notin mismarked

(* The same without the exception, as the comment has it.                   *)
MylockExact == \A s \in Servers : MarksExact(s)

(* A record given to a client of a server that is not mismarked is locked   *)
(* by that server, and stays so until the text is written and the lock      *)
(* dropped: the pulls, posts and submissions of the other clients of the    *)
(* same process, which lock and unlock records of it in between, do not     *)
(* take the lock away (server.c 278-280, 374-380, 532-540).                 *)
WriterOwnsRecord ==
  \A c \in Clients :
    Trusted(c) => LAST[c] \in Slots /\ owner[LAST[c]] = ServerOf[c]

(* No record is given to two clients at a time, of one server or of two,    *)
(* whose servers are not mismarked (server.c 417-440).                      *)
NoDoubleGrant ==
  \A c, d \in Clients : c # d /\ LAST[c] = LAST[d] => ~(Trusted(c) /\ Trusted(d))

(* The file changes only by a submission, in the record given to its author *)
(* (server.c 369-376), whoever was killed or restarted in between.  While   *)
(* the author's server is not mismarked it has the lock of the record, and  *)
(* no other author of such a server was given it.                           *)
WrittenByHolder ==
  [][\A k \in Slots : file'[k] # file[k] =>
       \E c \in Clients :
         /\ LAST[c] = k /\ Holds(c)
         /\ file'[k].from = c
         /\ Trusted(c) => /\ owner[k] = ServerOf[c]
                          /\ \A d \in Clients \ {c} : Trusted(d) => LAST[d] # k]_vars

(* The answer of a post request tells the truth, although other processes   *)
(* lock and unlock records during the scan: its count of free records ends  *)
(* above zero exactly when a record was given, and who edits has been given *)
(* one (server.c 417-440 and 484-493, client.c 83-117).                     *)
VerdictTrue ==
  /\ \A s \in Servers :
       pc[s] = "post" /\ scan[s].i = RECORD_NUM
         => (scan[s].unlkc # 0 <=> scan[s].interlk = 1)
  /\ \A c \in Clients :
       user[c] = "editing" /\ link[c] = "up" => LAST[c] \in Slots

(* What a pull of server s may show of the first n records: all but the     *)
(* blank ones and those being written, in order.                            *)
Shown(s) ==
  LET k[n \in 0 .. RECORD_NUM] ==
        IF n = 0 THEN <<>>
        ELSE IF mylock[s][n - 1] = 1 \/ file[n - 1] = Blank THEN k[n - 1]
        ELSE Append(k[n - 1], file[n - 1])
  IN k

(* With one server a pull shows the whole board, although it takes the      *)
(* records one by one, with a lock, an unlock and a read of each, and       *)
(* clients act in between.                                                  *)
PullShowsBoard ==
  \A s \in Servers :
    pc[s] = "try" /\ scan[s].i = RECORD_NUM => scan[s].temp = Shown(s)[RECORD_NUM]

(* With one server and one author the file is the list of the last          *)
(* RECORD_NUM posts, and each post replaces the oldest.  The end of a       *)
(* server, at any moment, loses no post but the one that is being written.  *)
Sole(S) == CHOOSE x \in S : TRUE
Pending == Unwritten(Sole(Posters))
LastWritten == last[Sole(Servers)] - (IF Pending THEN 1 ELSE 0)
Recent == [i \in 1 .. RECORD_NUM |-> file[(LastWritten + i) % RECORD_NUM]]
Board == INSTANCE RecentPosts WITH
  Size <- RECORD_NUM, Posts <- Records, writing <- Pending,
  up <- pc[Sole(Servers)] # "down", recent <- Recent

KeepsRecentPosts == Board!RPSpec

(* Whoever waits for the server gets an answer, when users wait until their *)
(* text is received before they type again.                                 *)
EveryoneAnswered ==
  \A c \in Clients :
    user[c] \in {"welcome", "asking", "pulling"}
      ~> user[c] \in {"prompt", "editing", "gone"}

-----------------------------------------------------------------------------
(* The inductive invariant: why the properties above hold for any number of *)
(* servers, of clients and of authors on a server.                          *)

(* Nothing is on its way in both directions, and what is on its way fits    *)
(* what the user waits for.                                                 *)
Conversation(c) ==
  /\ toServer[c] # <<>> => toClient[c] = <<>> /\ link[c] \in Served
  /\ user[c] = "prompt"  => toServer[c] \in {<<>>, <<"[SP]">>} /\ toClient[c] = <<>>
  /\ user[c] = "asking"  => /\ toServer[c] \in {<<>>, <<"post">>, <<"[SP]", "post">>}
                            /\ toClient[c] # <<"text">>
  /\ user[c] = "pulling" => /\ toServer[c] \in {<<>>, <<"pull">>, <<"[SP]", "pull">>}
                            /\ toClient[c] \in {<<>>, <<"text">>}
  /\ user[c] = "welcome" => toServer[c] = <<>> /\ toClient[c] \in {<<>>, <<"text">>}
  /\ user[c] \in {"editing", "lost"} => toServer[c] = <<>> /\ toClient[c] = <<>>

(* The connection of a client that runs, and of one that does not.          *)
Connection(c) ==
  /\ user[c] \in {"gone", "lost"} <=> link[c] \in {"none", "left", "half", "broken"}
  /\ link[c] = "queued" => user[c] = "welcome"
  /\ link[c] = "left" => user[c] = "gone"
  /\ link[c] \in {"none", "queued", "left"} => toClient[c] = <<>>

(* Only an author's connection carries a request, a verdict or a text.      *)
Author(c) ==
  /\ user[c] \in {"asking", "editing"} => posts[c] < MaxPosts
  /\ \/ user[c] \in {"asking", "editing", "lost"}
     \/ toServer[c] \notin {<<>>, <<"pull">>, <<"exit">>, <<"other">>}
     \/ toClient[c] \in {<<"0">>, <<"1">>}
     => c \in Posters

(* While a server is at a request, its connection is open and quiet.        *)
Serving(s) ==
  LET c == scan[s].fd IN
  /\ \A d \in ready[s] : ServerOf[d] = s
  /\ pc[s] = "down" =>
       \A d \in Clients : ServerOf[d] = s => link[d] \notin Served \cup {"queued", "left"}
  /\ pc[s] \notin {"select", "down"} =>
       ServerOf[c] = s /\ link[c] \in Served /\ toClient[c] = <<>>
  /\ pc[s] = "post" =>
       c \in Posters /\ toServer[c] = <<>> /\ user[c] \in {"asking", "gone"}
  /\ pc[s] = "release" =>
       /\ c \in Posters /\ user[c] \notin {"editing", "lost"}
       /\ toServer[c] \in {<<>>} \cup {<<m>> : m \in Commands}
  /\ pc[s] \in {"try", "unlock", "read"} =>
       toServer[c] = <<>> /\ user[c] \in {"welcome", "pulling", "gone"}

(* The counter of the post scan counts the records still to visit, and one  *)
(* more from the grant on; a pull unlocks nothing that is being written.    *)
Counting(s) ==
  /\ pc[s] = "post" =>
       IF scan[s].interlk = 0 THEN scan[s].unlkc = RECORD_NUM - scan[s].i
                              ELSE scan[s].unlkc > RECORD_NUM - scan[s].i
  /\ pc[s] = "unlock" => mylock[s][scan[s].i] = 0

(* A grant belongs to an author, and is the last one of its server when the *)
(* server has no other author.                                              *)
Granted(c) ==
  Holds(c) => /\ c \in Posters
              /\ LAST[c] \in Slots
              /\ ServerOf[c] \notin mismarked => owner[LAST[c]] = ServerOf[c]
              /\ OneAuthor(ServerOf[c]) => last[ServerOf[c]] = LAST[c]

IInv ==
  /\ TypeOK
  /\ \A c \in Clients : Conversation(c) /\ Connection(c) /\ Author(c) /\ Granted(c)
  /\ \A s \in Servers : Serving(s) /\ Counting(s)
  /\ MylockKept /\ NoDoubleGrant

(* With one server besides: a pull has collected what is to be shown of the *)
(* records before i, none of which changes while it runs.  With one author  *)
(* too, the post scan takes the first record it visits.                     *)
SoleServer == \A s, t \in Servers : s = t
SoleAuthor == \A c, d \in Posters : c = d
FirstVisit(s) ==
  pc[s] = "post" /\ scan[s].interlk = 0 =>
    scan[s].i = 0 /\ scan[s].oldlast = last[s] /\ last[s] # RECORD_NUM - 1
Collected(s) ==
  /\ pc[s] \in {"try", "unlock", "read"} => scan[s].temp = Shown(s)[scan[s].i]
  /\ pc[s] = "read" => mylock[s][scan[s].i] = 0

SoleServerInv == IInv /\ \A s \in Servers : Collected(s)
SoleAuthorInv == SoleServerInv /\ \A s \in Servers : FirstVisit(s)

-----------------------------------------------------------------------------
(* What the comments of server.c say of a board with several servers.       *)

(* server.c 486: "If all ten posts in BulletinBoard are locked" the client  *)
(* is refused.  A client refused while no other server is at work finds     *)
(* every record given to some client.                                       *)
RefusedOnlyWhenFull ==
  \A s \in Servers :
    /\ pc[s] = "post" /\ scan[s].i = RECORD_NUM /\ scan[s].unlkc = 0
    /\ \A t \in Servers \ {s} : pc[t] = "select"
    => \A k \in Slots : \E c \in Clients : Holds(c) /\ LAST[c] = k

(* server.c 507: "Collect all unlocked posts".  A pull reads no record that *)
(* a client is writing.                                                     *)
PullReadsUnlocked ==
  \A s \in Servers :
    pc[s] = "read" => ~\E c \in Clients : Holds(c) /\ LAST[c] = scan[s].i
=============================================================================
