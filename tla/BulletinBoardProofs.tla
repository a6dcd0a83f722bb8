------------------------ MODULE BulletinBoardProofs ------------------------
(***************************************************************************)
(* The proofs of BulletinBoard.tla, for any number of servers, clients and *)
(* records, any bound, any number of authors on a server, and any number   *)
(* of ends and restarts.  IInv is inductive: each action has its lemma,    *)
(* and NextInv puts them together.  Lemmas on a step of one client         *)
(* (ClientStep), of one server (ServerStep) and of a server with the       *)
(* client it serves (PairStep) say what is left to show of an action that  *)
(* touches only these.  The last part is about a single server: what a     *)
(* pull shows (SoleServerInv), and, with a single author, that the program *)
(* implements RecentPosts (SoleAuthorInv).                                 *)
(***************************************************************************)
EXTENDS BulletinBoard, SequenceTheorems, ProgramNumbers

(* The contents of a stream as tuples: appended to, read, compared.         *)
LEMMA Streams ==
  /\ \A m \in Commands : Append(<<>>, m) = <<m>> /\ Append(<<"[SP]">>, m) = <<"[SP]", m>>
  /\ \A m \in Commands : <<m>> # <<>> /\ Head(<<m>>) = m
  /\ \A m \in Commands : <<"[SP]", m>> # <<>> /\ Head(<<"[SP]", m>>) = "[SP]"
  /\ \A m, n \in Commands : <<m>> # <<"[SP]", n>>
  /\ \A m, n \in Commands : <<m>> = <<n>> => m = n
  /\ \A m, n \in Commands : <<"[SP]", m>> = <<"[SP]", n>> => m = n
<1>1. \A m \in Commands : Append(<<>>, m) = <<m>>
  OBVIOUS
<1>2. ASSUME NEW m \in Commands PROVE Append(<<"[SP]">>, m) = <<"[SP]", m>>
  <2> DEFINE S == Commands \cup {"[SP]"}
             s == Append(<<"[SP]">>, m)
             t == <<"[SP]", m>>
  <2>1. <<"[SP]">> \in Seq(S) /\ m \in S
    OBVIOUS
  <2>2. s \in Seq(S) /\ Len(s) = 2
    BY <2>1
  <2>3. s[1] = "[SP]" /\ s[2] = m
    BY <2>1, AppendProperties
  <2>4. t \in Seq(S) /\ Len(t) = 2 /\ t[1] = "[SP]" /\ t[2] = m
    OBVIOUS
  <2> HIDE DEF S, s, t
  <2>5. \A i \in 1 .. 2 : s[i] = t[i]
    BY <2>3, <2>4
  <2>6. \A i \in 1 .. Len(s) : s[i] = t[i]
    BY <2>2, <2>5
  <2>7. s = t
    BY <2>2, <2>4, <2>6, SeqEqual
  <2> QED BY <2>7 DEF s, t
<1>3. \A m \in Commands : <<m>> # <<>> /\ Head(<<m>>) = m
  OBVIOUS
<1>4. \A m \in Commands : <<"[SP]", m>> # <<>> /\ Head(<<"[SP]", m>>) = "[SP]"
  OBVIOUS
<1>5. \A m, n \in Commands : <<m>> # <<"[SP]", n>> 
  OBVIOUS
<1>6. \A m, n \in Commands : <<m>> = <<n>> => m = n
  OBVIOUS
<1>7. \A m, n \in Commands : <<"[SP]", m>> = <<"[SP]", n>> => m = n
  OBVIOUS
<1> QED BY <1>1, <1>2, <1>3, <1>4, <1>5, <1>6, <1>7

(* A remainder by RECORD_NUM is the index of a record.                      *)
LEMMA SlotArith ==
  ASSUME NEW a \in Int
  PROVE  a % RECORD_NUM \in Slots
  BY BoardAssumption DEF Slots

(* The locals of a server between two requests.                             *)
LEMMA IdleTyped == Idle \in Scans
<1>1. <<>> \in Seq(Records)
  OBVIOUS
<1> QED BY <1>1, BoardAssumption, SMT DEF Idle, Scans

(* What the invariant says of the records given out.                        *)
GrantsSound == (\A c \in Clients : Granted(c)) /\ MylockKept /\ NoDoubleGrant

(* The first state: no client runs and nothing is locked.                   *)
LEMMA InitInv == ASSUME Init PROVE IInv
<1>1. TypeOK
  <2>1. file \in [Slots -> Records]
    <3>1. Blank \in Records /\ Old \in Records
      BY BoardAssumption DEF Records, Record, Blank, Old
    <3> QED BY <3>1 DEF Init
  <2>2. Idle \in Scans
    BY IdleTyped
  <2> QED BY <2>1, <2>2, BoardAssumption DEF Init, TypeOK, ToServer, ToClient, Links, Idle
<1>2. \A c \in Clients : ~Holds(c)
  BY BoardAssumption DEF Init, Holds, Unwritten, Scanning, Releasing, Served
<1>3. \A c \in Clients : Conversation(c) /\ Connection(c) /\ Author(c) /\ Granted(c)
  BY <1>2 DEF Init, Conversation, Connection, Author, Granted
<1>4. \A s \in Servers : Serving(s) /\ Counting(s)
  BY DEF Init, Serving, Counting, Served
<1>5. MylockKept /\ NoDoubleGrant
  BY <1>2 DEF Init, MylockKept, MarksExact, NoDoubleGrant, Trusted
<1> QED BY <1>1, <1>3, <1>4, <1>5 DEF IInv

-----------------------------------------------------------------------------
(* The requests on their way that begin with a text.                        *)

Texts == {<<"[SP]">>} \cup {<<"[SP]", m>> : m \in Commands}

(* A receive takes a text exactly when the stream begins with "[SP]".       *)
LEMMA TextFirst ==
  ASSUME NEW x \in ToServer
  PROVE  x # <<>> /\ Head(x) = "[SP]" <=> x \in Texts
<1>1. \A m \in Commands : m # "[SP]"
  BY DEF Commands
<1>2. CASE x = <<>>
  BY <1>2 DEF Texts
<1>3. CASE x = <<"[SP]">>
  BY <1>3 DEF Texts
<1>4. CASE \E m \in Commands : x = <<m>>
  <2>1. PICK m \in Commands : x = <<m>>
    BY <1>4
  <2>2. x \notin Texts
    <3>1. x # <<"[SP]">>
      BY <2>1, <1>1
    <3> QED BY <2>1, <3>1, Streams DEF Texts
  <2> QED BY <2>1, <2>2, <1>1, Streams
<1>5. CASE \E m \in Commands : x = <<"[SP]", m>>
  BY <1>5, Streams DEF Texts
<1> QED BY <1>2, <1>3, <1>4, <1>5 DEF ToServer

(* A grant and its stages, with the texts named.                            *)
LEMMA HoldsDef ==
  ASSUME NEW c \in Clients, toServer[c] \in ToServer
  PROVE  Holds(c) <=>
           \/ /\ pc[ServerOf[c]] = "post" /\ scan[ServerOf[c]].fd = c
              /\ scan[ServerOf[c]].interlk = 1
           \/ pc[ServerOf[c]] = "release" /\ scan[ServerOf[c]].fd = c
           \/ /\ link[c] \in Served
              /\ \/ toClient[c] = <<"1">> \/ user[c] \in {"editing", "lost"}
                 \/ toServer[c] \in Texts
  BY TextFirst DEF Holds, Unwritten, Scanning, Releasing

(* A step that changes no grant, and takes the lock of no granted record    *)
(* away, keeps what is said of the grants.                                  *)
LEMMA GrantsKept ==
  ASSUME IInv, UNCHANGED grantVars,
         \A c \in Clients : Holds(c)' <=> Holds(c),
         \A c \in Clients : Trusted(c) => owner'[LAST[c]] = owner[LAST[c]]
  PROVE  GrantsSound'
<1>1. \A c \in Clients : Granted(c)'
  BY DEF Granted, IInv, grantVars, Trusted
<1>2. MylockKept'
  BY DEF MylockKept, MarksExact, IInv, grantVars
<1>3. NoDoubleGrant'
  BY DEF NoDoubleGrant, Trusted, IInv, grantVars
<1> QED BY <1>1, <1>2, <1>3 DEF GrantsSound

(* What is said of a server at a request speaks of its own clients only.    *)
LEMMA ServingUntouched ==
  ASSUME NEW t \in Servers, Serving(t),
         pc[t] \notin {"select", "down"} => scan[t].fd \in Clients,
         pc'[t] = pc[t], scan'[t] = scan[t], ready'[t] = ready[t],
         \A d \in Clients : ServerOf[d] = t =>
           /\ link'[d] = link[d] /\ user'[d] = user[d]
           /\ toServer'[d] = toServer[d] /\ toClient'[d] = toClient[d]
  PROVE  Serving(t)'
<1>1. /\ \A d \in ready'[t] : ServerOf[d] = t
      /\ pc'[t] = "down" =>
           \A d \in Clients : ServerOf[d] = t => link'[d] \notin Served \cup {"queued", "left"}
  BY DEF Serving
<1>2. CASE pc[t] \in {"select", "down"}
  BY <1>1, <1>2 DEF Serving
<1>3. CASE pc[t] \notin {"select", "down"}
  <2> DEFINE c == scan[t].fd
  <2>1. c \in Clients /\ ServerOf[c] = t
    BY <1>3 DEF Serving
  <2>2. /\ scan'[t].fd = c /\ link'[c] = link[c] /\ user'[c] = user[c]
        /\ toServer'[c] = toServer[c] /\ toClient'[c] = toClient[c]
    BY <2>1
  <2> QED BY <1>1, <1>3, <2>2 DEF Serving
<1> QED BY <1>2, <1>3

(* A step of client c, which touches its own connection only.               *)
LEMMA ClientStep ==
  ASSUME IInv, NEW c \in Clients,
         UNCHANGED <<boardVars, grantVars, serverVars>>, TypeOK',
         \A d \in Clients \ {c} :
           /\ user'[d] = user[d] /\ posts'[d] = posts[d] /\ link'[d] = link[d]
           /\ toServer'[d] = toServer[d] /\ toClient'[d] = toClient[d],
         Conversation(c)', Connection(c)', Author(c)', Holds(c)' <=> Holds(c),
         Serving(ServerOf[c])'
  PROVE  IInv'
<1>1. \A d \in Clients : Holds(d)' <=> Holds(d)
  BY DEF Holds, Unwritten, Scanning, Releasing, serverVars
<1>2. GrantsSound'
  BY <1>1, GrantsKept DEF grantVars, boardVars
<1>3. ASSUME NEW d \in Clients PROVE Conversation(d)' /\ Connection(d)' /\ Author(d)'
  <2>1. CASE d = c
    BY <2>1
  <2>2. CASE d # c
    BY <2>2 DEF IInv, Conversation, Connection, Author
  <2> QED BY <2>1, <2>2
<1>4. ASSUME NEW s \in Servers PROVE Serving(s)'
  <2>1. CASE s = ServerOf[c]
    BY <2>1
  <2>2. CASE s # ServerOf[c]
    <3>1. Serving(s) /\ (pc[s] \notin {"select", "down"} => scan[s].fd \in Clients)
      BY DEF IInv, TypeOK
    <3>2. pc'[s] = pc[s] /\ scan'[s] = scan[s] /\ ready'[s] = ready[s]
      BY DEF serverVars
    <3> QED BY <2>2, <3>1, <3>2, ServingUntouched
  <2> QED BY <2>1, <2>2
<1>5. ASSUME NEW s \in Servers PROVE Counting(s)'
  BY DEF IInv, Counting, serverVars, grantVars
<1> QED BY <1>2, <1>3, <1>4, <1>5 DEF IInv, GrantsSound

(* What the invariant says of a client and its server.                      *)
LEMMA AtClient ==
  ASSUME IInv, NEW c \in Clients
  PROVE  /\ ServerOf[c] \in Servers
         /\ TypeOK /\ Conversation(c) /\ Connection(c) /\ Author(c) /\ Granted(c)
         /\ Serving(ServerOf[c]) /\ Counting(ServerOf[c])
  BY BoardAssumption DEF IInv

-----------------------------------------------------------------------------
(* The steps of clients.                                                    *)

(* A client starts: its connection waits for the server.                    *)
LEMMA ConnectInv == ASSUME IInv, NEW c \in Clients, Connect(c) PROVE IInv'
<1>1. TypeOK'
  BY AtClient, BoardAssumption
  DEF Connect, TypeOK, boardVars, grantVars, serverVars, streams, Links
<1>2. Conversation(c)' /\ Connection(c)' /\ Author(c)'
  BY AtClient DEF TypeOK, Connect, Conversation, Connection, Author, streams, Served
<1>3. ~Holds(c) /\ ~Holds(c)'
  <2>1. link[c] \notin Served /\ link'[c] \notin Served
    BY AtClient DEF TypeOK, Connect, Served
  <2>2. pc[ServerOf[c]] \in {"post", "release"} => scan[ServerOf[c]].fd # c
    BY <2>1, AtClient DEF Serving
  <2> QED BY <2>1, <2>2 DEF Connect, Holds, Unwritten, Scanning, Releasing, serverVars
<1>4. Serving(ServerOf[c])'
  <2> DEFINE s == ServerOf[c]
  <2>1. UNCHANGED <<pc, ready, scan, toServer, toClient>> /\ pc[s] # "down" /\ link[c] = "none"
    BY DEF Connect, serverVars, streams
  <2>2. s \in Servers /\ Serving(s) /\ (pc[s] # "select" => scan[s].fd \in Clients \ {c})
    BY <2>1, AtClient DEF TypeOK, Serving, Served
  <2>3. \A d \in Clients \ {c} : link'[d] = link[d] /\ user'[d] = user[d]
    BY AtClient DEF Connect, TypeOK
  <2>4. CASE pc[s] = "select"
    BY <2>1, <2>2, <2>4 DEF Serving
  <2>5. CASE pc[s] # "select"
    BY <2>1, <2>2, <2>3, <2>5 DEF Serving
  <2> QED BY <2>4, <2>5
<1> QED BY <1>1, <1>2, <1>3, <1>4, ClientStep DEF Connect, TypeOK, streams

(* A command is appended to nothing or to a text.                           *)
LEMMA AppendCommand ==
  ASSUME NEW m \in Commands, NEW x \in {<<>>, <<"[SP]">>}
  PROVE  /\ Append(x, m) = IF x = <<>> THEN <<m>> ELSE <<"[SP]", m>>
         /\ Append(x, m) \in ToServer /\ Append(x, m) # <<>>
         /\ Append(x, m) \in Texts <=> x \in Texts
         /\ x \in ToServer
<1>1. m # "[SP]"
  BY DEF Commands
<1>2. <<m>> \notin Texts
  BY <1>1, Streams DEF Texts
<1>3. CASE x = <<>>
  BY <1>2, <1>3, Streams DEF ToServer, Texts
<1>4. CASE x = <<"[SP]">>
  BY <1>4, Streams DEF ToServer, Texts
<1> QED BY <1>3, <1>4

(* A text is no command, and the three answers differ.                      *)
LEMMA Distinct ==
  /\ <<"[SP]">> \notin {<<>>, <<"post">>, <<"pull">>, <<"exit">>, <<"other">>}
  /\ \A m \in Commands :
       /\ <<m>> \notin Texts /\ <<m>> # <<>>
       /\ <<"[SP]", m>> \in Texts /\ <<"[SP]", m>> # <<>>
       /\ \A n \in Commands : <<"[SP]", m>> # <<n>>
  /\ \A m, n \in Commands : <<m>> = <<n>> => m = n
  /\ <<"[SP]">> \in Texts /\ <<>> \notin Texts
  /\ "post" \in Commands /\ "pull" \in Commands /\ "exit" \in Commands
  /\ "other" \in Commands
  /\ <<"text">> # <<>> /\ <<"0">> # <<>> /\ <<"1">> # <<>>
  /\ <<"text">> # <<"0">> /\ <<"text">> # <<"1">> /\ <<"0">> # <<"1">>
<1>1. \A m \in Commands : m # "[SP]"
  BY DEF Commands
<1>2. \A m \in Commands : <<m>> \notin Texts
  BY <1>1, Streams DEF Texts
<1>3. <<"[SP]">> \notin {<<>>, <<"post">>, <<"pull">>, <<"exit">>, <<"other">>}
  OBVIOUS
<1>4. {"post", "pull", "exit", "other"} \subseteq Commands
  BY DEF Commands
<1>5. /\ <<"text">> # <<>> /\ <<"0">> # <<>> /\ <<"1">> # <<>>
      /\ <<"text">> # <<"0">> /\ <<"text">> # <<"1">> /\ <<"0">> # <<"1">>
  OBVIOUS
<1>6. \A m \in Commands : <<"[SP]", m>> \in Texts
  BY DEF Texts
<1>7. <<"[SP]">> \in Texts /\ <<>> \notin Texts
  BY Streams DEF Texts
<1> QED BY <1>2, <1>3, <1>4, <1>5, <1>6, <1>7, Streams

(* What the invariant says of a server at a request.                        *)
LEMMA AtRequest ==
  ASSUME IInv, NEW s \in Servers, pc[s] \notin {"select", "down"}
  PROVE  /\ scan[s].fd \in Clients /\ ServerOf[scan[s].fd] = s
         /\ link[scan[s].fd] \in Served /\ toClient[scan[s].fd] = <<>>
         /\ user[scan[s].fd] \notin {"editing", "lost"}
         /\ toServer[scan[s].fd] \in {<<>>} \cup {<<m>> : m \in Commands}
         /\ toServer[scan[s].fd] \notin Texts
         /\ pc[s] # "release" => toServer[scan[s].fd] = <<>>
         /\ pc[s] \in {"post", "release", "try", "unlock", "read"}
         /\ pc[s] \in {"post", "release"} => scan[s].fd \in Posters
<1>1. TypeOK /\ Serving(s)
  BY DEF IInv
<1>2. \A x \in {<<>>} \cup {<<m>> : m \in Commands} : x \notin Texts
  BY Distinct
<1> QED BY <1>1, <1>2 DEF TypeOK, Serving

(* The end of a client's process, by a last word w, a failed call or a kill. *)
LEMMA EndInv ==
  ASSUME IInv, NEW c \in Clients, NEW w \in {"exit", "other"},
         End(c), user[c] \notin {"gone", "lost"},
         UNCHANGED <<boardVars, grantVars, serverVars, starts>>,
         posts' \in [Clients -> 0 .. MaxPosts], faults' \in 0 .. MaxFaults,
         \A d \in Clients \ {c} : posts'[d] = posts[d],
         \/ toServer' = toServer
         \/ /\ user[c] = "prompt" /\ link[c] = "up"
            /\ toServer' = [toServer EXCEPT ![c] = Append(@, w)]
  PROVE  IInv'
<1> DEFINE x == toServer[c]
<1>0. w \in Commands
  BY DEF Commands
<1>1. link[c] \in {"queued", "up", "fin", "dead", "reset"}
  BY AtClient DEF TypeOK, Connection, Links
<1>2. /\ link' \in [Clients -> Links] /\ toClient' \in [Clients -> ToClient]
      /\ user'[c] \in {"gone", "lost"}
      /\ \A d \in Clients \ {c} :
           user'[d] = user[d] /\ link'[d] = link[d] /\ toClient'[d] = toClient[d]
      /\ link'[c] = CASE link[c] = "queued" -> "left"
                      [] link[c] = "up" -> IF toClient[c] = <<>> THEN "half" ELSE "broken"
                      [] OTHER -> "none"
      /\ toClient'[c] = IF link[c] = "up" THEN toClient[c] ELSE <<>>
      /\ user'[c] = "lost" <=> user[c] = "editing" /\ link[c] = "up"
  BY <1>1, AtClient DEF TypeOK, End, Abandoned, Links, ToClient
<1>3. /\ toServer' \in [Clients -> ToServer]
      /\ \A d \in Clients \ {c} : toServer'[d] = toServer[d]
      /\ toServer'[c] = <<>> <=> toServer[c] = <<>> /\ toServer' = toServer
      /\ toServer'[c] \in Texts <=> toServer[c] \in Texts
      /\ toServer' # toServer =>
           /\ user[c] = "prompt" /\ link[c] = "up" /\ toClient[c] = <<>>
           /\ toServer'[c] = IF x = <<>> THEN <<w>> ELSE <<"[SP]", w>>
  <2>1. CASE toServer' = toServer
    BY <2>1, AtClient DEF TypeOK
  <2>2. CASE toServer' # toServer
    <3>1. x \in {<<>>, <<"[SP]">>} /\ toClient[c] = <<>>
      BY <2>2, AtClient DEF Conversation
    <3>2. /\ toServer \in [Clients -> ToServer]
          /\ toServer' = [toServer EXCEPT ![c] = Append(@, w)]
          /\ user[c] = "prompt" /\ link[c] = "up"
      BY <2>2, AtClient DEF TypeOK
    <3>3. toServer'[c] = Append(x, w) /\ toServer' \in [Clients -> ToServer]
      BY <3>1, <3>2, <1>0, AppendCommand
    <3> QED BY <2>2, <3>1, <3>2, <3>3, <1>0, AppendCommand
  <2> QED BY <2>1, <2>2
<1>4. TypeOK'
  BY <1>2, <1>3, AtClient DEF TypeOK, End, boardVars, grantVars, serverVars
<1>5. Conversation(c)'
  BY <1>1, <1>2, <1>3, AtClient DEF Conversation, Served
<1>6. Connection(c)'
  BY <1>1, <1>2, AtClient DEF Connection
<1>7. Author(c)'
  <2>1. toServer'[c] \notin {<<>>, <<"pull">>, <<"exit">>, <<"other">>}
          => toServer[c] \notin {<<>>, <<"pull">>, <<"exit">>, <<"other">>}
    <3>1. CASE toServer' = toServer
      BY <3>1
    <3>2. CASE toServer' # toServer /\ x = <<>>
      BY <3>2, <1>3
    <3>3. CASE toServer' # toServer /\ x # <<>>
      <4>1. x = <<"[SP]">>
        BY <3>3, <1>3, AtClient DEF Conversation
      <4> QED BY <4>1, Distinct
    <3> QED BY <3>1, <3>2, <3>3
  <2> QED BY <1>2, <2>1, AtClient DEF Author, ToClient
<1>8. Holds(c)' <=> Holds(c)
  <2>1. link[c] \in Served <=> link'[c] \in Served
    BY <1>1, <1>2 DEF Served
  <2>2. link[c] \in Served =>
          /\ toClient'[c] = toClient[c]
          /\ user'[c] \in {"editing", "lost"} <=> user[c] \in {"editing", "lost"}
    BY <1>1, <1>2 DEF Served
  <2>3. toServer[c] \in ToServer /\ toServer'[c] \in ToServer
    BY <1>3, AtClient DEF TypeOK
  <2>4. UNCHANGED <<pc, scan>>
    BY DEF serverVars
  <2>5. Holds(c)' <=>
           \/ /\ pc'[ServerOf[c]] = "post" /\ scan'[ServerOf[c]].fd = c
              /\ scan'[ServerOf[c]].interlk = 1
           \/ pc'[ServerOf[c]] = "release" /\ scan'[ServerOf[c]].fd = c
           \/ /\ link'[c] \in Served
              /\ \/ toClient'[c] = <<"1">> \/ user'[c] \in {"editing", "lost"}
                 \/ toServer'[c] \in Texts
    BY <2>3, TextFirst DEF Holds, Unwritten, Scanning, Releasing
  <2> QED BY <1>3, <2>1, <2>2, <2>3, <2>4, <2>5, HoldsDef
<1>9. Serving(ServerOf[c])'
  <2> DEFINE s == ServerOf[c]
  <2>1. UNCHANGED <<pc, scan, ready>> /\ s \in Servers /\ Serving(s)
    BY AtClient DEF serverVars
  <2>2. pc[s] = "down" => link'[c] = "none"
    BY <1>1, <1>2, AtClient DEF Serving, Served
  <2>3. ASSUME pc[s] \notin {"select", "down"}, scan[s].fd = c
        PROVE  /\ link[c] = "up" /\ link'[c] = "half" /\ toClient'[c] = <<>>
               /\ user'[c] = "gone" /\ user[c] \notin {"editing", "lost"}
    <3>1. link[c] \in Served /\ toClient[c] = <<>> /\ user[c] \notin {"editing", "lost"}
      BY <2>1, <2>3, AtRequest
    <3>2. link[c] = "up"
      BY <1>1, <3>1 DEF Served
    <3> QED BY <1>2, <3>1, <3>2
  <2>4. ASSUME pc[s] \in {"post", "try", "unlock", "read"}, scan[s].fd = c
        PROVE  toServer' = toServer
    BY <2>4, <1>3, AtClient DEF Serving
  <2>5. ASSUME pc[s] = "release", scan[s].fd = c
        PROVE  toServer'[c] \in {<<>>} \cup {<<m>> : m \in Commands}
    <3>1. toServer[c] \in {<<>>} \cup {<<m>> : m \in Commands}
      BY <2>1, <2>5, AtRequest
    <3>2. CASE toServer' = toServer
      BY <3>1, <3>2
    <3>3. CASE toServer' # toServer
      <4>1. toServer[c] \in {<<>>, <<"[SP]">>}
        BY <3>3, <1>3, AtClient DEF Conversation
      <4>2. toServer[c] = <<>>
        BY <3>1, <4>1, Distinct
      <4> QED BY <3>3, <4>2, <1>0, <1>3
    <3> QED BY <3>2, <3>3
  <2>6. CASE pc[s] \in {"select", "down"} \/ scan[s].fd # c
    <3>1. CASE pc[s] \in {"select", "down"}
      BY <2>1, <2>2, <3>1, <1>2, <1>3 DEF Serving, Served
    <3>2. CASE pc[s] \notin {"select", "down"} /\ scan[s].fd # c
      <4>1. scan[s].fd \in Clients \ {c}
        BY <2>1, <3>2, AtRequest
      <4> QED BY <2>1, <3>2, <4>1, <1>2, <1>3 DEF Serving
    <3> QED BY <2>6, <3>1, <3>2
  <2>7. CASE pc[s] \notin {"select", "down"} /\ scan[s].fd = c
    BY <2>1, <2>3, <2>4, <2>5, <2>7 DEF Serving, Served
  <2> QED BY <2>6, <2>7
<1> QED BY <1>2, <1>3, <1>4, <1>5, <1>6, <1>7, <1>8, <1>9, ClientStep

(* A killed client has ended like any other.                                *)
LEMMA KillInv == ASSUME IInv, NEW c \in Clients, Kill(c) PROVE IInv'
<1>1. /\ End(c) /\ user[c] \notin {"gone", "lost"} /\ toServer' = toServer
      /\ UNCHANGED <<boardVars, grantVars, serverVars, posts, starts>>
      /\ faults < MaxFaults /\ faults' = faults + 1
  BY DEF Kill
<1>2. posts' \in [Clients -> 0 .. MaxPosts] /\ \A d \in Clients \ {c} : posts'[d] = posts[d]
  BY <1>1, AtClient DEF TypeOK
<1>3. faults' \in 0 .. MaxFaults
  BY <1>1, AtClient, BoardAssumption DEF TypeOK
<1> QED BY <1>1, <1>2, <1>3, EndInv

(* The last word is sent, or lost when the server has ended.               *)
LEMMA TypeExitInv == ASSUME IInv, NEW c \in Clients, TypeExit(c) PROVE IInv'
<1>1. user[c] = "prompt" /\ posts' = posts /\ faults' = faults
  BY DEF TypeExit, MayType
<1>2. PICK w \in {"exit", "other"} :
        \/ toServer' = toServer
        \/ link[c] = "up" /\ toServer' = [toServer EXCEPT ![c] = Append(@, w)]
  <2>1. toServer \in [Clients -> ToServer]
    BY AtClient DEF TypeOK
  <2> QED BY <2>1 DEF TypeExit
<1> QED BY <1>1, <1>2, AtClient, EndInv DEF TypeExit, TypeOK

(* A reset found by a receive ends the client.                              *)
LEMMA ReadFailsInv == ASSUME IInv, NEW c \in Clients, ReadFails(c) PROVE IInv'
  BY AtClient, EndInv DEF ReadFails, TypeOK

(* The server of c sees nothing of a step of c that keeps its connection as *)
(* it is, except that more may arrive while it releases a record.           *)
LEMMA ServingKept ==
  ASSUME IInv, NEW c \in Clients, UNCHANGED serverVars,
         \A d \in Clients \ {c} :
           /\ user'[d] = user[d] /\ link'[d] = link[d]
           /\ toServer'[d] = toServer[d] /\ toClient'[d] = toClient[d],
         pc[ServerOf[c]] = "down" => link'[c] \notin Served \cup {"queued", "left"},
         pc[ServerOf[c]] \notin {"select", "down"} /\ scan[ServerOf[c]].fd = c =>
           /\ pc[ServerOf[c]] = "release"
           /\ link'[c] \in Served /\ toClient'[c] = <<>>
           /\ user'[c] \notin {"editing", "lost"}
           /\ toServer'[c] \in {<<>>} \cup {<<m>> : m \in Commands}
  PROVE  Serving(ServerOf[c])'
<1> DEFINE s == ServerOf[c]
<1>1. UNCHANGED <<pc, scan, ready>> /\ s \in Servers /\ Serving(s)
  BY AtClient DEF serverVars
<1>2. CASE pc[s] \in {"select", "down"}
  BY <1>1, <1>2 DEF Serving
<1>3. CASE pc[s] \notin {"select", "down"} /\ scan[s].fd # c
  <2>1. scan[s].fd \in Clients \ {c}
    BY <1>1, <1>3, AtRequest
  <2> QED BY <1>1, <1>3, <2>1 DEF Serving
<1>4. CASE pc[s] \notin {"select", "down"} /\ scan[s].fd = c
  BY <1>1, <1>4 DEF Serving
<1> QED BY <1>2, <1>3, <1>4

(* Definition HoldsDef in the next state.                                   *)
LEMMA HoldsNext ==
  ASSUME NEW c \in Clients, toServer'[c] \in ToServer
  PROVE  Holds(c)' <=>
           \/ /\ pc'[ServerOf[c]] = "post" /\ scan'[ServerOf[c]].fd = c
              /\ scan'[ServerOf[c]].interlk = 1
           \/ pc'[ServerOf[c]] = "release" /\ scan'[ServerOf[c]].fd = c
           \/ /\ link'[c] \in Served
              /\ \/ toClient'[c] = <<"1">> \/ user'[c] \in {"editing", "lost"}
                 \/ toServer'[c] \in Texts
  BY TextFirst DEF Holds, Unwritten, Scanning, Releasing

(* A command goes to a server that runs, into the void, or ends the client. *)
LEMMA CommandInv ==
  ASSUME IInv, NEW c \in Clients, user[c] = "prompt",
         NEW m, NEW next, Send(c, m, next),
         \/ m = "post" /\ next = "asking" /\ c \in Posters /\ posts[c] < MaxPosts
         \/ m = "pull" /\ next = "pulling",
         UNCHANGED <<boardVars, grantVars, serverVars, posts, starts, faults>>
  PROVE  IInv'
<1>0. m \in Commands
  BY Distinct
<1>1. toServer[c] \in {<<>>, <<"[SP]">>} /\ toClient[c] = <<>>
  BY AtClient DEF Conversation
<1>2. CASE End(c) /\ UNCHANGED toServer
  BY <1>2, AtClient, EndInv DEF TypeOK
<1>3. CASE \/ /\ link[c] = "up"
              /\ toServer' = [toServer EXCEPT ![c] = Append(@, m)]
              /\ user' = [user EXCEPT ![c] = next]
              /\ UNCHANGED <<link, toClient>>
           \/ /\ link[c] = "fin"
              /\ link' = [link EXCEPT ![c] = "dead"]
              /\ user' = [user EXCEPT ![c] = next]
              /\ UNCHANGED streams
  <2>1. /\ user' \in [Clients -> {"welcome", "prompt", "asking", "pulling", "editing",
                                  "gone", "lost"}]
        /\ user'[c] = next /\ toClient' = toClient
        /\ \A d \in Clients \ {c} :
             user'[d] = user[d] /\ link'[d] = link[d] /\ toServer'[d] = toServer[d]
    BY <1>3, AtClient DEF TypeOK, streams
  <2>2. /\ link' \in [Clients -> Links]
        /\ \/ link[c] = "up" /\ link'[c] = "up"
           \/ link[c] = "fin" /\ link'[c] = "dead"
    <3>1. link \in [Clients -> Links] /\ "dead" \in Links
      BY AtClient DEF TypeOK, Links
    <3>2. CASE link[c] = "up" /\ link' = link
      BY <3>1, <3>2
    <3>3. CASE link[c] = "fin" /\ link' = [link EXCEPT ![c] = "dead"]
      BY <3>1, <3>3
    <3> QED BY <1>3, <3>2, <3>3
  <2>3. link[c] = "fin" => toServer[c] = <<>> /\ toServer' = toServer
    BY <1>3, AtClient DEF Conversation, Served, streams
  <2>4. link[c] = "up" =>
          /\ toServer'[c] = IF toServer[c] = <<>> THEN <<m>> ELSE <<"[SP]", m>>
          /\ toServer' \in [Clients -> ToServer]
          /\ toServer'[c] \in Texts <=> toServer[c] \in Texts
    <3>1. SUFFICES ASSUME link[c] = "up" PROVE <2>4!2
      OBVIOUS
    <3>2. toServer' = [toServer EXCEPT ![c] = Append(@, m)]
      BY <1>3, <3>1
    <3>3. toServer \in [Clients -> ToServer]
      BY AtClient DEF TypeOK
    <3> QED BY <1>0, <1>1, <3>2, <3>3, AppendCommand
  <2>5. toServer' \in [Clients -> ToServer]
    BY <2>2, <2>3, <2>4, AtClient DEF TypeOK
  <2>6. TypeOK'
    BY <2>1, <2>2, <2>5, AtClient DEF TypeOK, boardVars, grantVars, serverVars
  <2>7. Conversation(c)'
    <3>1. toServer'[c] \in {<<>>, <<m>>, <<"[SP]", m>>}
      BY <1>1, <2>2, <2>3, <2>4
    <3>2. toServer'[c] # <<>> => link'[c] \in Served
      BY <2>2, <2>3 DEF Served
    <3> QED BY <1>1, <2>1, <3>1, <3>2 DEF Conversation
  <2>8. Connection(c)'
    BY <2>1, <2>2, AtClient DEF Connection
  <2>9. Author(c)'
    <3>1. CASE m = "post"
      BY <3>1, <2>1 DEF Author
    <3>2. CASE m = "pull"
      <4>1. toServer'[c] \notin {<<>>, <<"pull">>, <<"exit">>, <<"other">>}
              => toServer[c] \notin {<<>>, <<"pull">>, <<"exit">>, <<"other">>}
        BY <1>1, <2>2, <2>3, <2>4, <3>2, Distinct
      <4> QED BY <1>1, <2>1, <3>2, <4>1, AtClient DEF Author
    <3> QED BY <3>1, <3>2
  <2>10. Holds(c)' <=> Holds(c)
    <3>1. toServer[c] \in ToServer /\ toServer'[c] \in ToServer
      BY <2>5, AtClient DEF TypeOK
    <3>2. pc' = pc /\ scan' = scan
      BY DEF serverVars
    <3>3. user'[c] \notin {"editing", "lost"}
      BY <2>1
    <3> QED BY <1>1, <2>1, <2>2, <2>4, <3>1, <3>2, <3>3, HoldsDef, HoldsNext
        DEF Served
  <2>11. Serving(ServerOf[c])'
    <3>1. pc[ServerOf[c]] = "down" => link'[c] \notin Served \cup {"queued", "left"}
      BY <2>2, AtClient DEF Serving, Served
    <3>2. ASSUME pc[ServerOf[c]] \notin {"select", "down"}, scan[ServerOf[c]].fd = c
          PROVE  /\ pc[ServerOf[c]] = "release" /\ link'[c] \in Served
                 /\ toServer'[c] \in {<<>>} \cup {<<n>> : n \in Commands}
      <4>1. link[c] = "up" /\ link'[c] = "up"
        BY <2>2, <3>2, AtClient, AtRequest DEF Served
      <4>2. toServer[c] = <<>>
        <5>1. toServer[c] \in {<<>>} \cup {<<n>> : n \in Commands}
          BY <3>2, AtClient, AtRequest
        <5>2. toServer[c] # <<"[SP]">>
          BY <5>1, Distinct
        <5> QED BY <1>1, <5>2
      <4>3. pc[ServerOf[c]] = "release"
        BY <3>2, AtClient, AtRequest DEF Serving
      <4> QED BY <1>0, <2>4, <4>1, <4>2, <4>3 DEF Served
    <3> QED BY <1>1, <2>1, <3>1, <3>2, ServingKept
  <2> QED BY <2>1, <2>6, <2>7, <2>8, <2>9, <2>10, <2>11, ClientStep
<1> QED BY <1>2, <1>3 DEF Send

(* The commands of a user.                                                  *)
LEMMA TypePostInv == ASSUME IInv, NEW c \in Clients, TypePost(c) PROVE IInv'
  BY CommandInv DEF TypePost, MayType

(* The commands of a user.                                                  *)
LEMMA TypePullInv == ASSUME IInv, NEW c \in Clients, TypePull(c) PROVE IInv'
  BY CommandInv DEF TypePull, MayType

(* Who may receive has nothing under way and no server at work for it.      *)
LEMMA Waiting ==
  ASSUME IInv, NEW c \in Clients, Arrived(c)
  PROVE  /\ toServer[c] = <<>>
         /\ ~(pc[ServerOf[c]] \notin {"select", "down"} /\ scan[ServerOf[c]].fd = c)
         /\ link[c] # "queued"
<1>1. CASE toClient[c] # <<>>
  BY <1>1, AtClient, AtRequest DEF Conversation, Connection
<1>2. CASE link[c] \in {"fin", "dead"}
  BY <1>2, AtClient, AtRequest DEF Conversation, Served
<1> QED BY <1>1, <1>2 DEF Arrived

(* The receives of a client.                                                *)
LEMMA AnswerInv ==
  ASSUME IInv, NEW c \in Clients, Arrived(c), Consume(c),
         NEW next, user' = [user EXCEPT ![c] = next],
         \/ user[c] \in {"welcome", "pulling"} /\ next = "prompt"
         \/ user[c] = "asking" /\ next = IF Text(c) = "0" THEN "prompt" ELSE "editing",
         UNCHANGED <<boardVars, grantVars, serverVars, posts, starts, link, toServer, faults>>
  PROVE  IInv'
<1>1. /\ user' \in [Clients -> {"welcome", "prompt", "asking", "pulling", "editing",
                                  "gone", "lost"}]
      /\ user'[c] = next /\ toClient'[c] = <<>> /\ toServer'[c] = <<>>
      /\ toClient' \in [Clients -> ToClient]
      /\ \A d \in Clients \ {c} : user'[d] = user[d] /\ toClient'[d] = toClient[d]
  BY AtClient, Waiting DEF TypeOK, Consume, ToClient
<1>2. TypeOK'
  BY <1>1, AtClient DEF TypeOK, boardVars, grantVars, serverVars
<1>3. Conversation(c)' /\ Connection(c)' /\ Author(c)'
  BY <1>1, Waiting, AtClient DEF Conversation, Connection, Author
<1>4. ASSUME link[c] \in Served PROVE toClient[c] = <<"1">> <=> next = "editing"
  <2>1. toClient[c] # <<>>
    BY <1>4 DEF Arrived, Served
  <2>2. CASE user[c] \in {"welcome", "pulling"}
    BY <2>1, <2>2, AtClient, Distinct DEF Conversation
  <2>3. CASE user[c] = "asking"
    <3>1. toClient[c] \in {<<"0">>, <<"1">>}
      BY <2>1, <2>3, AtClient DEF Conversation, TypeOK, ToClient
    <3>2. Head(<<"0">>) = "0" /\ Head(<<"1">>) = "1"
      OBVIOUS
    <3> QED BY <2>1, <2>3, <3>1, <3>2 DEF Text
  <2> QED BY <2>2, <2>3
<1>5. Holds(c)' <=> Holds(c)
  <2>1. toServer[c] \in ToServer /\ toServer'[c] \in ToServer /\ toServer[c] \notin Texts
    BY <1>1, AtClient, Waiting, Distinct DEF TypeOK
  <2>2. pc' = pc /\ scan' = scan /\ link' = link /\ toServer' = toServer
    BY DEF serverVars
  <2>3. ~(pc[ServerOf[c]] \in {"post", "release"} /\ scan[ServerOf[c]].fd = c)
    BY Waiting
  <2>4. Holds(c) <=> link[c] \in Served /\ toClient[c] = <<"1">>
    BY <2>1, <2>3, HoldsDef
  <2>5. Holds(c)' <=> link[c] \in Served /\ next = "editing"
    BY <1>1, <2>1, <2>2, <2>3, HoldsNext, Distinct
  <2> QED BY <1>4, <2>4, <2>5
<1>6. Serving(ServerOf[c])'
  BY <1>1, Waiting, AtClient, ServingKept DEF Serving
<1> QED BY <1>1, <1>2, <1>3, <1>5, <1>6, ClientStep

(* The welcome or the board has been read: the user is asked for a command. *)
LEMMA ReadTextInv == ASSUME IInv, NEW c \in Clients, ReadText(c) PROVE IInv'
  BY AnswerInv DEF ReadText

(* The verdict of a post: with a yes the user holds a record while editing. *)
LEMMA ReadVerdictInv == ASSUME IInv, NEW c \in Clients, ReadVerdict(c) PROVE IInv'
  BY AnswerInv DEF ReadVerdict

(* The text leaves the editor: the grant goes to the stream.                *)
LEMMA SubmitInv == ASSUME IInv, NEW c \in Clients, Submit(c) PROVE IInv'
<1>1. /\ toServer[c] = <<>> /\ toClient[c] = <<>> /\ posts[c] < MaxPosts /\ c \in Posters
      /\ user[c] = "editing"
  BY AtClient DEF Submit, Conversation, Author
<1>2. /\ posts' \in [Clients -> 0 .. MaxPosts]
      /\ \A d \in Clients \ {c} : posts'[d] = posts[d]
  BY <1>1, BoardAssumption, AtClient DEF Submit, TypeOK
<1>3. CASE End(c) /\ UNCHANGED toServer
  BY <1>1, <1>2, <1>3, AtClient, EndInv DEF Submit, TypeOK
<1>4. ASSUME user' = [user EXCEPT ![c] = "prompt"], UNCHANGED toClient,
             \/ /\ link[c] = "up" /\ UNCHANGED link
                /\ toServer' = [toServer EXCEPT ![c] = Append(@, "[SP]")]
             \/ /\ link[c] = "fin" /\ link' = [link EXCEPT ![c] = "dead"]
                /\ UNCHANGED toServer
      PROVE  IInv'
  <2>1. /\ toServer' \in [Clients -> ToServer] /\ link' \in [Clients -> Links]
        /\ \A d \in Clients \ {c} : toServer'[d] = toServer[d] /\ link'[d] = link[d]
        /\ \/ link[c] = "up" /\ link'[c] = "up" /\ toServer'[c] = <<"[SP]">>
           \/ link[c] = "fin" /\ link'[c] = "dead" /\ toServer'[c] = <<>>
    <3>1. toServer \in [Clients -> ToServer] /\ link \in [Clients -> Links]
      BY AtClient DEF TypeOK
    <3>2. Append(<<>>, "[SP]") = <<"[SP]">> /\ <<"[SP]">> \in ToServer /\ "dead" \in Links
      BY DEF ToServer, Links
    <3>3. CASE link[c] = "up"
      BY <1>1, <1>4, <3>1, <3>2, <3>3
    <3>4. CASE link[c] = "fin"
      BY <1>1, <1>4, <3>1, <3>2, <3>4
    <3> QED BY <1>4, <3>3, <3>4
  <2>2. /\ user' \in [Clients -> {"welcome", "prompt", "asking", "pulling", "editing",
                                  "gone", "lost"}]
        /\ user'[c] = "prompt"
        /\ \A d \in Clients \ {c} : user'[d] = user[d]
    BY <1>4, AtClient DEF TypeOK
  <2>3. TypeOK'
    BY <1>2, <1>4, <2>1, <2>2, AtClient
    DEF TypeOK, Submit, boardVars, grantVars, serverVars
  <2>4. Conversation(c)' /\ Connection(c)' /\ Author(c)'
    BY <1>1, <1>4, <2>1, <2>2, AtClient DEF Conversation, Connection, Author, Served
  <2>5. Holds(c)' <=> Holds(c)
    <3>1. toServer[c] \in ToServer /\ toServer'[c] \in ToServer
      BY <2>1, AtClient DEF TypeOK
    <3>2. pc' = pc /\ scan' = scan
      BY DEF Submit, serverVars
    <3> QED BY <1>1, <1>4, <2>1, <2>2, <3>1, <3>2, HoldsDef, HoldsNext, Distinct DEF Served
  <2>6. Serving(ServerOf[c])'
    <3>1. pc[ServerOf[c]] = "down" => link'[c] \notin Served \cup {"queued", "left"}
      BY <2>1, AtClient DEF Serving, Served
    <3>2. ~(pc[ServerOf[c]] \notin {"select", "down"} /\ scan[ServerOf[c]].fd = c)
      BY <1>1, AtClient, AtRequest
    <3> QED BY <1>4, <2>1, <2>2, <3>1, <3>2, ServingKept DEF Submit
  <2> QED BY <1>2, <1>4, <2>1, <2>2, <2>3, <2>4, <2>5, <2>6, ClientStep DEF Submit
<1> QED BY <1>3, <1>4 DEF Submit, Send, streams

-----------------------------------------------------------------------------
(* The steps of servers.                                                    *)

(* A step of server s that leaves the connections as they are.              *)
LEMMA ServerStep ==
  ASSUME IInv, NEW s \in Servers, UNCHANGED <<clientVars, link, streams>>, TypeOK',
         \A t \in Servers \ {s} :
           /\ pc'[t] = pc[t] /\ scan'[t] = scan[t] /\ ready'[t] = ready[t]
           /\ mylock'[t] = mylock[t],
         Serving(s)', Counting(s)', GrantsSound'
  PROVE  IInv'
<1>1. ASSUME NEW c \in Clients PROVE Conversation(c)' /\ Connection(c)' /\ Author(c)'
  BY AtClient DEF Conversation, Connection, Author, clientVars, streams
<1>2. ASSUME NEW t \in Servers PROVE Serving(t)' /\ Counting(t)'
  <2>1. CASE t = s
    BY <2>1
  <2>2. CASE t # s
    <3>1. Serving(t) /\ Counting(t)
      BY DEF IInv
    <3> QED BY <2>2, <3>1 DEF Serving, Counting, clientVars, streams
  <2> QED BY <2>1, <2>2
<1> QED BY <1>1, <1>2 DEF IInv, GrantsSound

(* A lock that fcntl gives is taken from nobody.                            *)
LEMMA LockKept ==
  ASSUME IInv, NEW s \in Servers, NEW k \in Slots,
         \/ CanLock(s, k) /\ LockRecord(s, k)
         \/ UNCHANGED owner
  PROVE  /\ owner' \in [Slots -> Servers \cup {NoOne}]
         /\ \A c \in Clients : Trusted(c) => owner'[LAST[c]] = owner[LAST[c]]
<1>1. owner \in [Slots -> Servers \cup {NoOne}]
  BY DEF IInv, TypeOK
<1>2. CASE UNCHANGED owner
  BY <1>1, <1>2
<1>3. CASE CanLock(s, k) /\ LockRecord(s, k)
  <2>1. ASSUME NEW c \in Clients, Trusted(c) PROVE owner'[LAST[c]] = owner[LAST[c]]
    <3>1. LAST[c] \in Slots /\ owner[LAST[c]] = ServerOf[c] /\ ServerOf[c] # NoOne
      BY <2>1, AtClient, BoardAssumption DEF Granted, Trusted
    <3> QED BY <1>1, <1>3, <3>1 DEF CanLock, LockRecord
  <2>2. owner' \in [Slots -> Servers \cup {NoOne}]
    BY <1>1, <1>3 DEF LockRecord
  <2> QED BY <2>1, <2>2
<1> QED BY <1>2, <1>3

(* select() changes nothing but the list of readable connections.           *)
LEMMA SelectInv == ASSUME IInv, NEW s \in Servers, Select(s) PROVE IInv'
<1>1. /\ ready'[s] = Readable(s) /\ pc[s] = "select"
      /\ ready' \in [Servers -> SUBSET Clients]
      /\ \A t \in Servers \ {s} : ready'[t] = ready[t]
  BY DEF Select, IInv, TypeOK, Readable
<1>2. TypeOK'
  BY <1>1 DEF Select, IInv, TypeOK, boardVars, grantVars, clientVars, streams
<1>3. Serving(s)' /\ Counting(s)'
  BY <1>1 DEF Select, Serving, Counting, Readable
<1>4. \A c \in Clients : Holds(c)' <=> Holds(c)
  BY DEF Select, Holds, Unwritten, Scanning, Releasing, clientVars, streams
<1>5. GrantsSound'
  BY <1>4, GrantsKept DEF Select, boardVars, grantVars
<1> QED BY <1>1, <1>2, <1>3, <1>5, ServerStep DEF Select, grantVars

(* The record a post scan is at.                                            *)
LEMMA PostSlotIsSlot ==
  ASSUME IInv, NEW s \in Servers
  PROVE  PostSlot(s) \in Slots
<1>1. scan[s].oldlast \in Int /\ scan[s].i \in Int
  BY BoardAssumption DEF IInv, TypeOK, Scans
<1> QED BY <1>1, SlotArith DEF PostSlot

(* A step of a scan: nothing changes but a lock and the locals of s, which  *)
(* go on with the same request and the same grant.                          *)
LEMMA ScanStep ==
  ASSUME IInv, NEW s \in Servers, pc[s] \notin {"select", "down"},
         owner' \in [Slots -> Servers \cup {NoOne}],
         \A c \in Clients : Trusted(c) => owner'[LAST[c]] = owner[LAST[c]],
         scan' = [scan EXCEPT ![s] = scan'[s]], scan'[s] \in Scans,
         scan'[s].fd = scan[s].fd, scan'[s].interlk = scan[s].interlk,
         \/ pc' = pc
         \/ /\ pc[s] \in {"try", "unlock", "read"}
            /\ \E l \in {"try", "unlock", "read"} : pc' = [pc EXCEPT ![s] = l],
         pc'[s] \in {"unlock", "read"} => scan'[s].i \in Slots,
         Counting(s)',
         UNCHANGED <<file, grantVars, ready, clientVars, link, streams, faults>>
  PROVE  IInv'
<1>1. /\ pc' \in [Servers -> {"select", "post", "release", "try", "unlock", "read", "down"}]
      /\ scan' \in [Servers -> Scans]
      /\ \A t \in Servers \ {s} : pc'[t] = pc[t] /\ scan'[t] = scan[t]
      /\ pc'[s] \notin {"select", "down"}
      /\ pc'[s] = "post" <=> pc[s] = "post"
      /\ pc'[s] = "release" <=> pc[s] = "release"
      /\ pc'[s] \in {"try", "unlock", "read"} <=> pc[s] \in {"try", "unlock", "read"}
  <2>1. /\ pc \in [Servers -> {"select", "post", "release", "try", "unlock", "read", "down"}]
        /\ scan \in [Servers -> Scans]
    BY DEF IInv, TypeOK
  <2>2. scan' \in [Servers -> Scans] /\ \A t \in Servers \ {s} : scan'[t] = scan[t]
    BY <2>1
  <2>3. CASE pc' = pc
    BY <2>1, <2>2, <2>3
  <2>4. CASE pc' # pc
    <3>1. PICK l \in {"try", "unlock", "read"} : pc' = [pc EXCEPT ![s] = l]
      BY <2>4
    <3>2. pc'[s] = l /\ \A t \in Servers \ {s} : pc'[t] = pc[t]
      BY <2>1, <3>1
    <3>3. pc' \in [Servers -> {"select", "post", "release", "try", "unlock", "read", "down"}]
      BY <2>1, <3>1
    <3> QED BY <2>2, <2>4, <3>2, <3>3
  <2> QED BY <2>3, <2>4
<1>3. TypeOK'
  BY <1>1 DEF IInv, TypeOK, grantVars, clientVars, streams
<1>4. Serving(s)'
  BY <1>1 DEF IInv, Serving, clientVars, streams
<1>5. ASSUME NEW c \in Clients PROVE Holds(c)' <=> Holds(c)
  <2>1. CASE ServerOf[c] = s
    BY <1>1, <2>1 DEF Holds, Unwritten, Scanning, Releasing, clientVars, streams
  <2>2. CASE ServerOf[c] # s
    BY <1>1, <2>2, AtClient DEF Holds, Unwritten, Scanning, Releasing, clientVars, streams
  <2> QED BY <2>1, <2>2
<1>6. GrantsSound'
  BY <1>5, GrantsKept DEF grantVars
<1> QED BY <1>1, <1>3, <1>4, <1>6, ServerStep DEF grantVars

(* What the type invariant says of the locals of a request.                 *)
LEMMA ScanTyped ==
  ASSUME IInv, NEW s \in Servers
  PROVE  /\ scan[s] \in Scans /\ scan \in [Servers -> Scans]
         /\ scan[s].i \in 0 .. RECORD_NUM /\ scan[s].unlkc \in Int
         /\ scan[s].lockcount \in Nat /\ scan[s].temp \in Seq(Records)
         /\ scan[s].interlk \in {0, 1}
         /\ RECORD_NUM \in Nat
  BY BoardAssumption DEF IInv, TypeOK, Scans

(* The locals of a request after one more record has been visited.          *)
LEMMA ScansExcept ==
  ASSUME NEW r \in Scans, NEW i \in 0 .. RECORD_NUM
  PROVE  /\ [r EXCEPT !.i = i] \in Scans
         /\ \A n \in Int : [r EXCEPT !.i = i, !.unlkc = n] \in Scans
         /\ \A n \in Nat : [r EXCEPT !.i = i, !.lockcount = n] \in Scans
         /\ \A q \in Seq(Records) : [r EXCEPT !.i = i, !.temp = q] \in Scans
         /\ \A b \in {0, 1} : [r EXCEPT !.i = i, !.interlk = b] \in Scans
  BY DEF Scans

(* A locked record is counted by the post scan.                             *)
LEMMA PostLockedInv == ASSUME IInv, NEW s \in Servers, PostLocked(s) PROVE IInv'
<1>1. PostSlot(s) \in Slots
  BY PostSlotIsSlot
<1>2. scan' = [scan EXCEPT ![s] = [scan[s] EXCEPT !.i = scan[s].i + 1,
                                                 !.unlkc = scan[s].unlkc - 1]]
  BY DEF PostLocked, Local
<1>3. /\ scan'[s].i = scan[s].i + 1 /\ scan'[s].unlkc = scan[s].unlkc - 1
      /\ scan'[s].fd = scan[s].fd /\ scan'[s].interlk = scan[s].interlk
      /\ scan' = [scan EXCEPT ![s] = scan'[s]]
  BY <1>2, ScanTyped DEF Scans
<1>4. scan'[s] \in Scans
  <2>1. scan[s].i + 1 \in 0 .. RECORD_NUM /\ scan[s].unlkc - 1 \in Int
    BY ScanTyped DEF PostLocked
  <2> QED BY <1>2, <2>1, ScanTyped, ScansExcept
<1>5. pc[s] = "post" /\ pc' = pc /\ mylock' = mylock
  BY DEF PostLocked, grantVars
<1>6. Counting(s)'
  <2>1. Counting(s)
    BY DEF IInv
  <2> QED BY <1>3, <1>5, <2>1, ScanTyped DEF Counting
<1> QED BY <1>1, <1>3, <1>4, <1>5, <1>6, LockKept, ScanStep DEF PostLocked

(* A free record met after the grant is locked and left.                    *)
LEMMA PostExtraInv == ASSUME IInv, NEW s \in Servers, PostExtra(s) PROVE IInv'
<1>1. PostSlot(s) \in Slots
  BY PostSlotIsSlot
<1>2. scan' = [scan EXCEPT ![s] = [scan[s] EXCEPT !.i = scan[s].i + 1]]
  BY DEF PostExtra, Visited
<1>3. /\ scan'[s].i = scan[s].i + 1 /\ scan'[s].unlkc = scan[s].unlkc
      /\ scan'[s].fd = scan[s].fd /\ scan'[s].interlk = scan[s].interlk
      /\ scan' = [scan EXCEPT ![s] = scan'[s]]
  BY <1>2, ScanTyped DEF Scans
<1>4. scan'[s] \in Scans
  <2>1. scan[s].i + 1 \in 0 .. RECORD_NUM
    BY ScanTyped DEF PostExtra
  <2> QED BY <1>2, <2>1, ScanTyped, ScansExcept
<1>5. pc[s] = "post" /\ pc' = pc /\ mylock' = mylock /\ scan[s].interlk = 1
  BY DEF PostExtra, grantVars
<1>6. Counting(s)'
  <2>1. Counting(s)
    BY DEF IInv
  <2> QED BY <1>3, <1>5, <2>1, ScanTyped DEF Counting
<1> QED BY <1>1, <1>3, <1>4, <1>5, <1>6, LockKept, ScanStep DEF PostExtra

(* A locked record is left out by a pull.                                   *)
LEMMA PullLockedInv == ASSUME IInv, NEW s \in Servers, PullLocked(s) PROVE IInv'
<1>1. scan[s].i \in Slots
  BY ScanTyped DEF PullLocked, Slots
<1>2. scan' = [scan EXCEPT ![s] = [scan[s] EXCEPT !.i = scan[s].i + 1,
                                         !.lockcount = scan[s].lockcount + 1]]
  BY DEF PullLocked, Local
<1>3. /\ scan'[s].fd = scan[s].fd /\ scan'[s].interlk = scan[s].interlk
      /\ scan' = [scan EXCEPT ![s] = scan'[s]]
  BY <1>2, ScanTyped DEF Scans
<1>4. scan'[s] \in Scans
  <2>1. scan[s].i + 1 \in 0 .. RECORD_NUM /\ scan[s].lockcount + 1 \in Nat
    BY <1>1, ScanTyped DEF Slots
  <2> QED BY <1>2, <2>1, ScanTyped, ScansExcept
<1>5. pc[s] = "try" /\ pc' = pc
  BY DEF PullLocked
<1>6. Counting(s)'
  BY <1>5 DEF Counting
<1> QED BY <1>1, <1>3, <1>4, <1>5, <1>6, LockKept, ScanStep DEF PullLocked

(* A pull locks only records that mylock calls free.                        *)
LEMMA PullLockInv == ASSUME IInv, NEW s \in Servers, PullLock(s) PROVE IInv'
<1>1. scan[s].i \in Slots
  BY ScanTyped DEF PullLock, Slots
<1>2. pc[s] = "try" /\ pc' = [pc EXCEPT ![s] = "unlock"] /\ scan' = scan
  BY DEF PullLock, Go
<1>3. pc'[s] = "unlock" /\ scan' = [scan EXCEPT ![s] = scan'[s]] /\ scan'[s] \in Scans
  BY <1>2, ScanTyped DEF IInv, TypeOK
<1>4. Counting(s)'
  BY <1>2, <1>3 DEF Counting, PullLock, grantVars
<1> QED BY <1>1, <1>2, <1>3, <1>4, LockKept, ScanStep DEF PullLock

(* A pull reads a record.                                                   *)
LEMMA PullReadInv == ASSUME IInv, NEW s \in Servers, PullRead(s) PROVE IInv'
<1>1. pc[s] = "read" /\ pc' = [pc EXCEPT ![s] = "try"] /\ scan[s].i \in Slots
  BY DEF PullRead, Go, IInv, TypeOK
<1> DEFINE r == file[scan[s].i]
           t == IF r # Blank THEN Append(scan[s].temp, r) ELSE scan[s].temp
<1>2. scan' = [scan EXCEPT ![s] = [scan[s] EXCEPT !.i = scan[s].i + 1, !.temp = t]]
  BY DEF PullRead, Local
<1>3. t \in Seq(Records)
  <2>1. r \in Records
    BY <1>1 DEF IInv, TypeOK
  <2> QED BY <2>1, ScanTyped, AppendProperties
<1> HIDE DEF t
<1>4. /\ scan'[s].fd = scan[s].fd /\ scan'[s].interlk = scan[s].interlk
      /\ scan' = [scan EXCEPT ![s] = scan'[s]]
  BY <1>2, ScanTyped DEF Scans
<1>5. scan'[s] \in Scans
  <2>1. scan[s].i + 1 \in 0 .. RECORD_NUM
    BY <1>1, ScanTyped DEF Slots
  <2> QED BY <1>2, <1>3, <2>1, ScanTyped, ScansExcept
<1>6. pc'[s] = "try"
  BY <1>1 DEF IInv, TypeOK
<1>7. Counting(s)'
  BY <1>6 DEF Counting
<1> QED BY <1>1, <1>4, <1>5, <1>6, <1>7, ScanStep DEF PullRead, boardVars, IInv, TypeOK

(* A pull unlocks only what no client of its server is writing.             *)
LEMMA PullUnlockInv == ASSUME IInv, NEW s \in Servers, PullUnlock(s) PROVE IInv'
<1> DEFINE k == scan[s].i
<1>1. /\ pc[s] = "unlock" /\ pc' = [pc EXCEPT ![s] = "read"] /\ scan' = scan
      /\ owner' = [owner EXCEPT ![k] = IF owner[k] = s THEN NoOne ELSE owner[k]]
  BY DEF PullUnlock, Go, UnlockRecord
<1>2. /\ k \in Slots /\ mylock[s][k] = 0 /\ pc'[s] = "read"
      /\ owner \in [Slots -> Servers \cup {NoOne}]
  BY <1>1 DEF IInv, TypeOK, Counting
<1>3. owner' \in [Slots -> Servers \cup {NoOne}]
  BY <1>1, <1>2
<1>4. ASSUME NEW c \in Clients, Trusted(c) PROVE owner'[LAST[c]] = owner[LAST[c]]
  <2>1. LAST[c] \in Slots /\ owner[LAST[c]] = ServerOf[c]
    BY <1>4, AtClient DEF Granted, Trusted
  <2>2. ServerOf[c] = s => LAST[c] # k
    BY <1>2, <1>4 DEF IInv, MylockKept, MarksExact, Trusted
  <2> QED BY <1>1, <1>2, <2>1, <2>2
<1>5. scan' = [scan EXCEPT ![s] = scan'[s]] /\ scan'[s] \in Scans
  BY <1>1, ScanTyped
<1>6. Counting(s)'
  BY <1>2 DEF Counting
<1> QED BY <1>1, <1>2, <1>3, <1>4, <1>5, <1>6, ScanStep DEF PullUnlock

(* A server that starts again finds no grants of its own.                   *)
LEMMA RestartInv == ASSUME IInv, NEW s \in Servers, Restart(s) PROVE IInv'
<1>1. /\ pc[s] = "down" /\ pc'[s] = "select"
      /\ pc' \in [Servers -> {"select", "post", "release", "try", "unlock", "read", "down"}]
      /\ \A t \in Servers \ {s} : pc'[t] = pc[t]
  BY DEF Restart, Go, IInv, TypeOK
<1>2. TypeOK'
  BY <1>1 DEF Restart, IInv, TypeOK, boardVars, grantVars, clientVars, streams
<1>3. Serving(s)' /\ Counting(s)'
  BY <1>1 DEF Restart, IInv, Serving, Counting
<1>4. \A c \in Clients : Holds(c)' <=> Holds(c)
  <2> TAKE c \in Clients
  <2>1. ServerOf[c] \in Servers
    BY AtClient
  <2> QED BY <1>1, <2>1
      DEF Restart, Holds, Unwritten, Scanning, Releasing, clientVars, streams
<1>5. GrantsSound'
  BY <1>4, GrantsKept DEF Restart, boardVars, grantVars
<1> QED BY <1>1, <1>2, <1>3, <1>5, ServerStep DEF Restart, grantVars

(* A server with one author has no other holder.                            *)
LEMMA SoleHolder ==
  ASSUME IInv, NEW c \in Posters, OneAuthor(ServerOf[c]),
         NEW d \in Clients, Holds(d), ServerOf[d] = ServerOf[c]
  PROVE  d = c
  BY AtClient DEF Granted, OneAuthor

(* A record is not given to two clients whose servers are trusted: servers  *)
(* do not share a lock, and mylock keeps the clients of one server apart.   *)
LEMMA NoSharedGrant ==
  ASSUME IInv, NEW c \in Clients, NEW d \in Clients, c # d, Trusted(c), Trusted(d)
  PROVE  LAST[c] # LAST[d]
  BY DEF IInv, NoDoubleGrant

(* A grant: the record is locked and nobody of any server holds it.         *)
LEMMA PostGrantInv ==
  ASSUME IInv, NEW s \in Servers, PostGrant(s) PROVE IInv'
<1> DEFINE k == PostSlot(s)
<1>0. PICK c : c = scan[s].fd
  OBVIOUS
<1>1. /\ pc[s] = "post" /\ pc' = pc /\ scan[s].interlk = 0 /\ scan[s].i < RECORD_NUM
      /\ mylock[s][k] = 0 /\ CanLock(s, k) /\ LockRecord(s, k)
  BY DEF PostGrant
<1>2. k \in Slots
  BY PostSlotIsSlot
<1>3. /\ c \in Clients /\ c \in Posters /\ ServerOf[c] = s
      /\ toClient[c] = <<>> /\ toServer[c] = <<>> /\ user[c] \notin {"editing", "lost"}
  BY <1>0, <1>1, AtRequest
<1>4. scan' = [scan EXCEPT ![s] = [scan[s] EXCEPT !.i = scan[s].i + 1, !.interlk = 1]]
  BY DEF PostGrant, Local
<1>5. /\ scan'[s].i = scan[s].i + 1 /\ scan'[s].unlkc = scan[s].unlkc
      /\ scan'[s].fd = c /\ scan'[s].interlk = 1
      /\ \A t \in Servers \ {s} : scan'[t] = scan[t]
  BY <1>0, <1>4, ScanTyped DEF Scans
<1>6. scan'[s] \in Scans /\ scan' \in [Servers -> Scans]
  <2>1. scan[s].i + 1 \in 0 .. RECORD_NUM
    BY <1>1, ScanTyped
  <2>2. scan'[s] \in Scans
    BY <1>4, <2>1, ScanTyped, ScansExcept
  <2> QED BY <1>4, <2>2, ScanTyped
<1>7. /\ last' = [last EXCEPT ![s] = k] /\ LAST' = [LAST EXCEPT ![c] = k]
      /\ mylock' = [mylock EXCEPT ![s] = [mylock[s] EXCEPT ![k] = 1]]
      /\ UNCHANGED <<file, mismarked, ready, clientVars, link, streams, faults>>
  BY <1>0 DEF PostGrant
<1>8. /\ last' \in [Servers -> Slots \cup {-1}] /\ last'[s] = k
      /\ LAST' \in [Clients -> Slots \cup {-1}] /\ LAST'[c] = k
      /\ mylock' \in [Servers -> [Slots -> {0, 1}]]
      /\ \A j \in Slots : mylock'[s][j] = IF j = k THEN 1 ELSE mylock[s][j]
      /\ \A t \in Servers \ {s} : last'[t] = last[t] /\ mylock'[t] = mylock[t]
      /\ \A d \in Clients \ {c} : LAST'[d] = LAST[d]
  BY <1>2, <1>3, <1>7 DEF IInv, TypeOK
<1>9. /\ owner' \in [Slots -> Servers \cup {NoOne}] /\ owner'[k] = s
      /\ \A d \in Clients : Trusted(d) => owner'[LAST[d]] = owner[LAST[d]]
  <2>1. owner'[k] = s
    BY <1>1, <1>2 DEF LockRecord, IInv, TypeOK
  <2> QED BY <1>1, <1>2, <2>1, LockKept
<1>10. TypeOK'
  <2>1. ASSUME NEW t \in Servers
        PROVE  /\ pc[t] \notin {"select", "down"} => scan'[t].fd \in Clients
               /\ pc[t] \in {"unlock", "read"} => scan'[t].i \in Slots
               /\ pc[t] = "release" => LAST'[scan'[t].fd] \in Slots
    <3>1. CASE t = s
      BY <1>1, <1>3, <1>5, <3>1
    <3>2. CASE t # s
      <4>1. /\ scan'[t] = scan[t]
            /\ pc[t] \notin {"select", "down"} => scan[t].fd \in Clients
            /\ pc[t] \in {"unlock", "read"} => scan[t].i \in Slots
            /\ pc[t] = "release" => LAST[scan[t].fd] \in Slots
        BY <1>5, <3>2 DEF IInv, TypeOK
      <4>2. ASSUME pc[t] = "release" PROVE LAST'[scan[t].fd] \in Slots
        BY <1>2, <1>8, <4>1, <4>2
      <4> QED BY <4>1, <4>2
    <3> QED BY <3>1, <3>2
  <2> QED BY <1>1, <1>3, <1>6, <1>7, <1>8, <1>9, <2>1 DEF IInv, TypeOK, clientVars, streams
<1>11. Serving(s)'
  BY <1>0, <1>1, <1>5, <1>7 DEF IInv, Serving, clientVars, streams
<1>12. Counting(s)'
  <2>1. Counting(s)
    BY DEF IInv
  <2> QED BY <1>1, <1>5, <2>1, ScanTyped DEF Counting
<1>13. ~Holds(c)
  <2>1. toServer[c] \in ToServer /\ toServer[c] \notin Texts /\ toClient[c] # <<"1">>
    BY <1>3, Distinct, AtClient DEF TypeOK
  <2> QED BY <1>0, <1>1, <1>3, <2>1, HoldsDef
<1>14. Holds(c)'
  BY <1>1, <1>3, <1>5 DEF Holds, Unwritten, Scanning
<1>15. ASSUME NEW d \in Clients \ {c} PROVE Holds(d)' <=> Holds(d)
  <2>1. CASE ServerOf[d] = s
    BY <1>0, <1>1, <1>5, <1>7, <2>1 DEF Holds, Unwritten, Scanning, Releasing, clientVars, streams
  <2>2. CASE ServerOf[d] # s
    BY <1>1, <1>5, <1>7, <2>2, AtClient
    DEF Holds, Unwritten, Scanning, Releasing, clientVars, streams
  <2> QED BY <2>1, <2>2
<1>16. ASSUME NEW d \in Clients, Holds(d) PROVE d # c /\ LAST'[d] = LAST[d]
  BY <1>8, <1>13, <1>16
<1>17. ASSUME NEW d \in Clients, Trusted(d) PROVE LAST[d] # k
  <2>1. CASE ServerOf[d] = s
    BY <1>1, <1>2, <1>17, <2>1 DEF IInv, MylockKept, MarksExact, Trusted
  <2>2. CASE ServerOf[d] # s
    <3>1. owner[LAST[d]] = ServerOf[d] /\ ServerOf[d] # NoOne
      BY <1>17, AtClient, BoardAssumption DEF Granted, Trusted
    <3> QED BY <1>1, <2>2, <3>1 DEF CanLock
  <2> QED BY <2>1, <2>2
<1>18. mismarked' = mismarked
  BY DEF PostGrant
<1>19. ASSUME NEW d \in Clients PROVE Granted(d)'
  <2>1. CASE d = c
    BY <1>2, <1>3, <1>8, <1>9, <2>1 DEF Granted
  <2>2. CASE d # c /\ Holds(d)
    <3>1. OneAuthor(ServerOf[d]) => ServerOf[d] # s
      BY <1>3, <2>2, SoleHolder
    <3> QED BY <1>8, <1>9, <1>18, <2>2, <3>1, AtClient DEF Granted, Trusted
  <2>3. CASE d # c /\ ~Holds(d)
    BY <1>15, <2>3 DEF Granted
  <2> QED BY <2>1, <2>2, <2>3
<1>20. MylockKept'
  <2> SUFFICES ASSUME NEW t \in Servers, t \notin mismarked, NEW j \in Slots
               PROVE  mylock'[t][j] = 1 <=>
                        \E d \in Clients : ServerOf[d] = t /\ Holds(d)' /\ LAST'[d] = j
    BY <1>18 DEF IInv, MylockKept, MarksExact
  <2>1. mylock[t][j] = 1 <=> \E d \in Clients : ServerOf[d] = t /\ Holds(d) /\ LAST[d] = j
    BY DEF IInv, MylockKept, MarksExact
  <2>2. CASE t = s /\ j = k
    BY <1>2, <1>3, <1>8, <1>14, <2>2
  <2>3. CASE t = s /\ j # k
    <3>1. mylock'[t][j] = mylock[t][j]
      BY <1>8, <2>3
    <3> QED BY <1>8, <1>13, <1>15, <2>1, <2>3, <3>1
  <2>4. CASE t # s
    BY <1>3, <1>8, <1>15, <2>1, <2>4
  <2> QED BY <2>2, <2>3, <2>4
<1>21. NoDoubleGrant'
  <2> SUFFICES ASSUME NEW d \in Clients, NEW e \in Clients, d # e, Trusted(d)', Trusted(e)'
               PROVE  LAST'[d] # LAST'[e]
    BY DEF NoDoubleGrant
  <2>1. (d # c => Trusted(d)) /\ (e # c => Trusted(e))
    BY <1>15, <1>18 DEF Trusted
  <2>2. CASE d # c /\ e # c
    BY <1>8, <2>1, <2>2, NoSharedGrant
  <2>3. CASE d = c \/ e = c
    BY <1>8, <1>17, <2>1, <2>3
  <2> QED BY <2>2, <2>3
<1> QED BY <1>1, <1>5, <1>7, <1>8, <1>10, <1>11, <1>12, <1>19, <1>20, <1>21, ServerStep
        DEF GrantsSound

(* The submission is over: the grant ends, and its mark with it unless the  *)
(* record given out last is another one.                                    *)
LEMMA ReleaseInv == ASSUME IInv, NEW s \in Servers, Release(s) PROVE IInv'
<1>0. PICK c : c = scan[s].fd
  OBVIOUS
<1>1. /\ pc[s] = "release" /\ UnlockRecord(s, LAST[c])
      /\ mylock' = IF last[s] = -1 THEN mylock
                   ELSE [mylock EXCEPT ![s] = [mylock[s] EXCEPT ![last[s]] = 0]]
      /\ mismarked' = IF last[s] = LAST[c] THEN mismarked ELSE mismarked \cup {s}
      /\ scan' = [scan EXCEPT ![s] = Idle] /\ pc' = [pc EXCEPT ![s] = "select"]
      /\ UNCHANGED <<file, last, LAST, ready, clientVars, link, streams, faults>>
  BY <1>0 DEF Release, Go
<1>2. /\ c \in Clients /\ c \in Posters /\ ServerOf[c] = s
      /\ toClient[c] = <<>> /\ toServer[c] \notin Texts /\ user[c] \notin {"editing", "lost"}
  BY <1>0, <1>1, AtRequest
<1>3. Holds(c)
  BY <1>0, <1>1, <1>2 DEF Holds, Releasing
<1>4. /\ LAST[c] \in Slots /\ LAST[c] # -1
      /\ OneAuthor(s) => last[s] = LAST[c]
  BY <1>2, <1>3, AtClient, BoardAssumption DEF Granted, Slots
<1>5. /\ mismarked' \subseteq Servers /\ mismarked \subseteq mismarked'
      /\ \A t \in Servers \ {s} : t \in mismarked' <=> t \in mismarked
      /\ s \notin mismarked' => s \notin mismarked /\ last[s] = LAST[c]
  BY <1>1 DEF IInv, TypeOK
<1>6. /\ scan' \in [Servers -> Scans]
      /\ pc' \in [Servers -> {"select", "post", "release", "try", "unlock", "read", "down"}]
      /\ pc'[s] = "select"
      /\ \A t \in Servers \ {s} : scan'[t] = scan[t] /\ pc'[t] = pc[t]
  <2>1. Idle \in Scans
    BY IdleTyped
  <2> QED BY <1>1, <2>1 DEF IInv, TypeOK
<1>7. /\ mylock' \in [Servers -> [Slots -> {0, 1}]]
      /\ \A t \in Servers \ {s} : mylock'[t] = mylock[t]
      /\ last[s] = LAST[c] =>
           \A j \in Slots : mylock'[s][j] = IF j = LAST[c] THEN 0 ELSE mylock[s][j]
  <2>1. mylock \in [Servers -> [Slots -> {0, 1}]] /\ last[s] \in Slots \cup {-1}
    BY DEF IInv, TypeOK
  <2>2. CASE last[s] = -1
    BY <1>1, <1>4, <2>1, <2>2
  <2>3. CASE last[s] # -1
    BY <1>1, <2>1, <2>3
  <2> QED BY <2>2, <2>3
<1>8. /\ owner' \in [Slots -> Servers \cup {NoOne}]
      /\ \A j \in Slots : j # LAST[c] \/ owner[j] # s => owner'[j] = owner[j]
  BY <1>1, <1>4 DEF IInv, TypeOK, UnlockRecord
<1>9. TypeOK'
  BY <1>1, <1>5, <1>6, <1>7, <1>8 DEF IInv, TypeOK, clientVars, streams
<1>10. Serving(s)' /\ Counting(s)'
  BY <1>1, <1>6 DEF IInv, Serving, Counting
<1>11. ~Holds(c)'
  <2>1. toServer'[c] \in ToServer
    BY <1>2, <1>9 DEF TypeOK
  <2>2. toServer' = toServer /\ toClient' = toClient /\ user' = user
    BY <1>1 DEF clientVars, streams
  <2> QED BY <1>2, <1>6, <2>1, <2>2, HoldsNext, Distinct
<1>12. ASSUME NEW d \in Clients \ {c} PROVE Holds(d)' <=> Holds(d)
  <2>1. CASE ServerOf[d] = s
    BY <1>0, <1>1, <1>6, <2>1 DEF Holds, Unwritten, Scanning, Releasing, clientVars, streams
  <2>2. CASE ServerOf[d] # s
    BY <1>1, <1>6, <2>2, AtClient
    DEF Holds, Unwritten, Scanning, Releasing, clientVars, streams
  <2> QED BY <2>1, <2>2
<1>13. ASSUME NEW d \in Clients, Trusted(d)'
       PROVE  d # c /\ Trusted(d) /\ (ServerOf[d] = s => last[s] = LAST[c] /\ Trusted(c))
  <2>1. d # c /\ Holds(d) /\ ServerOf[d] \notin mismarked
    BY <1>5, <1>11, <1>12, <1>13 DEF Trusted
  <2>2. ServerOf[d] = s => last[s] = LAST[c] /\ s \notin mismarked
    BY <1>5, <1>13 DEF Trusted
  <2> QED BY <1>2, <1>3, <2>1, <2>2 DEF Trusted
<1>14. ASSUME NEW d \in Clients PROVE Granted(d)'
  <2>1. CASE ~Holds(d)'
    BY <2>1 DEF Granted
  <2>2. CASE Holds(d)'
    <3>1. d # c /\ Holds(d)
      BY <1>11, <1>12, <2>2
    <3>2. /\ d \in Posters /\ LAST'[d] \in Slots
          /\ OneAuthor(ServerOf[d]) => last'[ServerOf[d]] = LAST'[d]
      BY <1>1, <3>1, AtClient DEF Granted
    <3>3. ASSUME ServerOf[d] \notin mismarked' PROVE owner'[LAST'[d]] = ServerOf[d]
      <4>1. Trusted(d) /\ (ServerOf[d] = s => Trusted(c))
        BY <1>13, <2>2, <3>3 DEF Trusted
      <4>2. LAST[d] \in Slots /\ owner[LAST[d]] = ServerOf[d]
        BY <4>1, AtClient DEF Granted, Trusted
      <4>3. ServerOf[d] = s => LAST[d] # LAST[c]
        BY <1>2, <3>1, <4>1, NoSharedGrant
      <4> QED BY <1>1, <1>8, <4>2, <4>3
    <3> QED BY <3>2, <3>3 DEF Granted
  <2> QED BY <2>1, <2>2
<1>15. MylockKept'
  <2>1. ASSUME NEW t \in Servers, OneAuthor(t) PROVE t \notin mismarked'
    BY <1>1, <1>4, <2>1 DEF IInv, MylockKept
  <2>2. ASSUME NEW t \in Servers, t \notin mismarked', NEW j \in Slots
        PROVE  mylock'[t][j] = 1 <=>
                 \E d \in Clients : ServerOf[d] = t /\ Holds(d)' /\ LAST'[d] = j
    <3>1. mylock[t][j] = 1 <=> \E d \in Clients : ServerOf[d] = t /\ Holds(d) /\ LAST[d] = j
      BY <1>5, <2>2 DEF IInv, MylockKept, MarksExact
    <3>2. CASE t = s /\ j = LAST[c]
      <4>1. mylock'[t][j] # 1 /\ Trusted(c)
        BY <1>2, <1>3, <1>5, <1>7, <2>2, <3>2 DEF Trusted
      <4>2. ASSUME NEW d \in Clients, ServerOf[d] = t, Holds(d)' PROVE LAST'[d] # j
        <5>1. d # c /\ Trusted(d)
          BY <1>13, <2>2, <4>2 DEF Trusted
        <5> QED BY <1>1, <1>2, <3>2, <4>1, <5>1, NoSharedGrant
      <4> QED BY <4>1, <4>2
    <3>3. CASE t = s /\ j # LAST[c]
      <4>1. mylock'[t][j] = mylock[t][j]
        BY <1>5, <1>7, <2>2, <3>3
      <4> QED BY <1>1, <1>11, <1>12, <3>1, <3>3, <4>1
    <3>4. CASE t # s
      BY <1>1, <1>2, <1>7, <1>12, <3>1, <3>4
    <3> QED BY <3>2, <3>3, <3>4
  <2> QED BY <2>1, <2>2 DEF MylockKept, MarksExact
<1>16. NoDoubleGrant'
  BY <1>1, <1>13, NoSharedGrant DEF NoDoubleGrant
<1> QED BY <1>1, <1>6, <1>7, <1>9, <1>10, <1>14, <1>15, <1>16, ServerStep DEF GrantsSound

(* A step of a server and of the connection of one of its clients.          *)
LEMMA PairStep ==
  ASSUME IInv, NEW c \in Clients, NEW s \in Servers, ServerOf[c] = s, TypeOK',
         UNCHANGED clientVars,
         \A d \in Clients \ {c} :
           link'[d] = link[d] /\ toServer'[d] = toServer[d] /\ toClient'[d] = toClient[d],
         \A t \in Servers \ {s} :
           /\ pc'[t] = pc[t] /\ scan'[t] = scan[t] /\ ready'[t] = ready[t]
           /\ mylock'[t] = mylock[t],
         Conversation(c)', Connection(c)', Author(c)', Serving(s)', Counting(s)',
         GrantsSound'
  PROVE  IInv'
<1>1. ASSUME NEW d \in Clients PROVE Conversation(d)' /\ Connection(d)' /\ Author(d)'
  <2>1. CASE d = c
    BY <2>1
  <2>2. CASE d # c
    BY <2>2, AtClient DEF Conversation, Connection, Author, clientVars
  <2> QED BY <2>1, <2>2
<1>2. ASSUME NEW t \in Servers PROVE Serving(t)' /\ Counting(t)'
  <2>1. CASE t = s
    BY <2>1
  <2>2. CASE t # s
    <3>1. Serving(t) /\ Counting(t) /\ TypeOK
      BY DEF IInv
    <3>2. \A d \in Clients : ServerOf[d] = t => d # c
      BY <2>2
    <3>3. pc[t] \notin {"select", "down"} => scan[t].fd \in Clients \ {c}
      BY <2>2, AtRequest
    <3> QED BY <2>2, <3>1, <3>2, <3>3 DEF Serving, Counting, clientVars
  <2> QED BY <2>1, <2>2
<1> QED BY <1>1, <1>2 DEF IInv, GrantsSound

(* Where the other clients of s stand does not depend on what s does for c. *)
LEMMA OthersHold ==
  ASSUME IInv, NEW c \in Clients, NEW s \in Servers, ServerOf[c] = s,
         UNCHANGED clientVars,
         \A d \in Clients \ {c} :
           link'[d] = link[d] /\ toServer'[d] = toServer[d] /\ toClient'[d] = toClient[d],
         \A t \in Servers \ {s} : pc'[t] = pc[t] /\ scan'[t] = scan[t],
         pc[s] \in {"post", "release"} => scan[s].fd = c,
         pc'[s] \in {"post", "release"} => scan'[s].fd = c
  PROVE  \A d \in Clients \ {c} : Holds(d)' <=> Holds(d)
<1> TAKE d \in Clients \ {c}
<1>1. CASE ServerOf[d] = s
  BY <1>1 DEF Holds, Unwritten, Scanning, Releasing, clientVars
<1>2. CASE ServerOf[d] # s
  BY <1>2, AtClient DEF Holds, Unwritten, Scanning, Releasing, clientVars
<1> QED BY <1>1, <1>2

(* The counter of the post scan tells whether a record was given.           *)
LEMMA VerdictKnown ==
  ASSUME IInv, NEW s \in Servers, pc[s] = "post", scan[s].i = RECORD_NUM
  PROVE  scan[s].unlkc # 0 <=> scan[s].interlk = 1
<1>1. Counting(s)
  BY DEF IInv
<1> QED BY <1>1, ScanTyped DEF Counting

(* A reply: the verdict is what the scan found, a text answers a pull.      *)
LEMMA ReplyInv ==
  ASSUME IInv, NEW s \in Servers, NEW msg, Reply(s, msg),
         \/ pc[s] = "post" /\ msg = IF scan[s].interlk = 1 THEN "1" ELSE "0"
         \/ pc[s] = "try" /\ msg = "text",
         UNCHANGED <<boardVars, grantVars, ready, clientVars, link, toServer, faults>>
  PROVE  IInv'
<1>0. PICK c : c = scan[s].fd
  OBVIOUS
<1>1. /\ c \in Clients /\ ServerOf[c] = s /\ link[c] \in Served
      /\ toClient[c] = <<>> /\ toServer[c] = <<>> /\ user[c] \notin {"editing", "lost"}
      /\ pc[s] = "post" => c \in Posters
  BY <1>0, AtRequest
<1>2. /\ pc[s] = "post" => user[c] \in {"asking", "gone"}
      /\ pc[s] = "try" => user[c] \in {"welcome", "pulling", "gone"}
  BY <1>0 DEF IInv, Serving
<1>3. /\ toClient' \in [Clients -> ToClient] /\ toClient'[c] = <<msg>>
      /\ \A d \in Clients \ {c} : toClient'[d] = toClient[d]
  <2>1. Append(<<>>, msg) = <<msg>> /\ <<msg>> \in ToClient
    BY DEF ToClient
  <2>2. toClient' = [toClient EXCEPT ![c] = Append(toClient[c], msg)]
    BY <1>0 DEF Reply
  <2> QED BY <1>1, <2>1, <2>2 DEF IInv, TypeOK
<1>4. /\ scan' \in [Servers -> Scans]
      /\ pc' \in [Servers -> {"select", "post", "release", "try", "unlock", "read", "down"}]
      /\ pc'[s] = "select"
      /\ \A t \in Servers \ {s} : scan'[t] = scan[t] /\ pc'[t] = pc[t]
  BY IdleTyped DEF IInv, TypeOK, Reply, Go
<1>5. TypeOK'
  BY <1>3, <1>4 DEF IInv, TypeOK, boardVars, grantVars, clientVars
<1>6. Conversation(c)'
  <2>1. user[c] = "asking" => <<msg>> # <<"text">>
    BY <1>2, Distinct
  <2>2. user[c] \in {"welcome", "pulling"} => <<msg>> = <<"text">>
    BY <1>2
  <2> QED BY <1>1, <1>2, <1>3, <2>1, <2>2 DEF Conversation, clientVars
<1>7. Connection(c)'
  BY <1>1, <1>3, AtClient DEF Connection, clientVars, Served
<1>8. Author(c)'
  <2>1. <<msg>> \in {<<"0">>, <<"1">>} => c \in Posters
    BY <1>1, Distinct
  <2> QED BY <1>1, <1>3, <2>1, AtClient DEF Author, clientVars
<1>9. Serving(s)' /\ Counting(s)'
  BY <1>4 DEF IInv, Serving, Counting
<1>10. Holds(c)' <=> Holds(c)
  <2>1. toServer[c] \in ToServer /\ toServer[c] \notin Texts /\ toServer' = toServer
    BY <1>1, Distinct DEF IInv, TypeOK
  <2>2. Holds(c) <=> pc[s] = "post" /\ scan[s].interlk = 1
    BY <1>0, <1>1, <2>1, HoldsDef, Distinct
  <2>3. Holds(c)' <=> <<msg>> = <<"1">>
    BY <1>1, <1>3, <1>4, <2>1, HoldsNext DEF clientVars
  <2> QED BY <2>2, <2>3, Distinct
<1>11. \A d \in Clients \ {c} : Holds(d)' <=> Holds(d)
  BY <1>0, <1>1, <1>3, <1>4, OthersHold
<1>12. GrantsSound'
  <2>1. \A d \in Clients : Holds(d)' <=> Holds(d)
    BY <1>10, <1>11
  <2> QED BY <2>1, GrantsKept DEF boardVars, grantVars
<1> QED BY <1>1, <1>3, <1>4, <1>5, <1>6, <1>7, <1>8, <1>9, <1>12, PairStep DEF grantVars

(* The two replies.                                                         *)
LEMMA PostReplyInv == ASSUME IInv, NEW s \in Servers, PostReply(s) PROVE IInv'
  BY VerdictKnown, ReplyInv, ScanTyped DEF PostReply

(* The two replies.                                                         *)
LEMMA PullReplyInv == ASSUME IInv, NEW s \in Servers, PullReply(s) PROVE IInv'
  BY ReplyInv DEF PullReply

(* accept() begins the collection of the welcome.                           *)
LEMMA AcceptInv == ASSUME IInv, NEW s \in Servers, Accept(s) PROVE IInv'
<1>1. PICK c \in Arriving(s) :
        /\ link' = [link EXCEPT ![c] = IF @ = "queued" THEN "up" ELSE "half"]
        /\ scan' = [scan EXCEPT ![s] = [Idle EXCEPT !.fd = c]]
  BY DEF Accept
<1>2. c \in Clients /\ ServerOf[c] = s /\ link[c] \in {"queued", "left"}
  BY <1>1 DEF Arriving
<1>3. /\ toServer[c] = <<>> /\ toClient[c] = <<>>
      /\ \/ user[c] = "welcome" /\ link[c] = "queued"
         \/ user[c] = "gone" /\ link[c] = "left"
  BY <1>2, AtClient DEF Conversation, Connection, Served
<1>4. /\ link' \in [Clients -> Links]
      /\ link'[c] = IF link[c] = "queued" THEN "up" ELSE "half"
      /\ \A d \in Clients \ {c} : link'[d] = link[d]
  BY <1>1, <1>2 DEF IInv, TypeOK, Links
<1>5. /\ scan' \in [Servers -> Scans] /\ scan'[s].fd = c
      /\ pc' \in [Servers -> {"select", "post", "release", "try", "unlock", "read", "down"}]
      /\ pc[s] = "select" /\ pc'[s] = "try"
      /\ \A t \in Servers \ {s} : scan'[t] = scan[t] /\ pc'[t] = pc[t]
  <2>1. [Idle EXCEPT !.fd = c] \in Scans /\ [Idle EXCEPT !.fd = c].fd = c
    BY <1>2, IdleTyped DEF Scans
  <2> QED BY <1>1, <2>1 DEF IInv, TypeOK, Accept, Go
<1>6. TypeOK'
  BY <1>2, <1>4, <1>5 DEF IInv, TypeOK, Accept, boardVars, grantVars, clientVars, streams
<1>7. Conversation(c)' /\ Connection(c)' /\ Author(c)'
  BY <1>2, <1>3, <1>4, AtClient
  DEF Accept, Conversation, Connection, Author, clientVars, streams, Served
<1>8. Serving(s)' /\ Counting(s)'
  BY <1>2, <1>3, <1>4, <1>5
  DEF IInv, Accept, Serving, Counting, clientVars, streams, Served
<1>9. ~Holds(c) /\ ~Holds(c)'
  <2>1. toServer'[c] = <<>> /\ toClient'[c] = <<>> /\ user'[c] \notin {"editing", "lost"}
    BY <1>3 DEF Accept, clientVars, streams
  <2> QED BY <1>2, <1>3, <1>5, <2>1, Distinct
      DEF Holds, Unwritten, Scanning, Releasing, Served
<1>10. \A d \in Clients \ {c} : Holds(d)' <=> Holds(d)
  BY <1>2, <1>4, <1>5, OthersHold DEF Accept, streams
<1>11. GrantsSound'
  <2>1. \A d \in Clients : Holds(d)' <=> Holds(d)
    BY <1>9, <1>10
  <2> QED BY <2>1, GrantsKept DEF Accept, boardVars, grantVars
<1> QED BY <1>2, <1>4, <1>5, <1>6, <1>7, <1>8, <1>11, PairStep
    DEF Accept, grantVars, streams

(* What arrives and how the request begins.                                 *)
LEMMA Received ==
  ASSUME IInv, NEW s \in Servers, NEW c \in ready[s], Receive(s, c)
  PROVE  /\ c \in Clients /\ ServerOf[c] = s /\ pc[s] = "select"
         /\ link[c] \in Served /\ toClient[c] = <<>>
         /\ user[c] \in {"prompt", "asking", "pulling", "gone"}
         /\ ready' \in [Servers -> SUBSET Clients]
         /\ \A d \in ready'[s] : ServerOf[d] = s
         /\ toServer' \in [Clients -> ToServer] /\ toServer'[c] = <<>>
         /\ \A d \in Clients \ {c} : toServer'[d] = toServer[d]
         /\ \A t \in Servers \ {s} : ready'[t] = ready[t]
<1>1. TypeOK /\ Serving(s)
  BY DEF IInv
<1>2. c \in Clients /\ ServerOf[c] = s /\ pc[s] = "select" /\ toServer[c] # <<>>
  BY <1>1 DEF TypeOK, Serving, Receive
<1>3. /\ link[c] \in Served /\ toClient[c] = <<>>
      /\ user[c] \in {"prompt", "asking", "pulling", "gone"}
  BY <1>1, <1>2, AtClient DEF Conversation, TypeOK
<1>4. <<>> \in ToServer
  BY DEF ToServer
<1> QED BY <1>1, <1>2, <1>3, <1>4 DEF TypeOK, Serving, Receive

(* The start of a request for c.                                            *)
LEMMA Started ==
  ASSUME IInv, NEW s \in Servers, NEW c \in Clients,
         NEW n \in -1 .. RECORD_NUM - 1, NEW l \in {"post", "release", "try"},
         \/ scan' = [scan EXCEPT ![s] = [Idle EXCEPT !.fd = c]]
         \/ scan' = [scan EXCEPT ![s] = [Idle EXCEPT !.fd = c, !.oldlast = n]],
         pc' = [pc EXCEPT ![s] = l]
  PROVE  /\ scan' \in [Servers -> Scans] /\ scan'[s].fd = c
         /\ scan'[s].interlk = 0 /\ scan'[s].i = 0 /\ scan'[s].unlkc = RECORD_NUM
         /\ pc' \in [Servers -> {"select", "post", "release", "try", "unlock", "read", "down"}]
         /\ pc'[s] = l
         /\ \A t \in Servers \ {s} : scan'[t] = scan[t] /\ pc'[t] = pc[t]
<1>1. PICK r \in {[Idle EXCEPT !.fd = c], [Idle EXCEPT !.fd = c, !.oldlast = n]} :
        scan' = [scan EXCEPT ![s] = r]
  OBVIOUS
<1>2. r \in Scans
  BY IdleTyped DEF Scans
<1>3. r.fd = c /\ r.interlk = 0 /\ r.i = 0 /\ r.unlkc = RECORD_NUM
  BY DEF Idle
<1> QED BY <1>1, <1>2, <1>3 DEF IInv, TypeOK

(* A pull begins.                                                           *)
LEMMA ReceivePullInv == ASSUME IInv, NEW s \in Servers, ReceivePull(s) PROVE IInv'
<1>1. PICK c \in ready[s] :
        /\ toServer[c] = <<"pull">> /\ Receive(s, c)
        /\ scan' = [scan EXCEPT ![s] = [Idle EXCEPT !.fd = c]]
  BY DEF ReceivePull
<1>2. /\ c \in Clients /\ ServerOf[c] = s /\ pc[s] = "select"
      /\ link[c] \in Served /\ toClient[c] = <<>> /\ user[c] \in {"pulling", "gone"}
      /\ ready' \in [Servers -> SUBSET Clients] /\ \A d \in ready'[s] : ServerOf[d] = s
      /\ toServer' \in [Clients -> ToServer] /\ toServer'[c] = <<>>
      /\ \A d \in Clients \ {c} : toServer'[d] = toServer[d]
      /\ \A t \in Servers \ {s} : ready'[t] = ready[t]
  <2>1. <<"pull">> \notin {<<>>, <<"[SP]">>, <<"post">>, <<"[SP]", "post">>}
    OBVIOUS
  <2>2. c \in Clients /\ user[c] \in {"prompt", "asking", "pulling", "gone"}
    BY <1>1, Received
  <2>3. user[c] \notin {"prompt", "asking"}
    BY <1>1, <2>1, <2>2, AtClient DEF Conversation
  <2> QED BY <1>1, <2>2, <2>3, Received
<1>3. /\ scan' \in [Servers -> Scans] /\ scan'[s].fd = c
      /\ pc' \in [Servers -> {"select", "post", "release", "try", "unlock", "read", "down"}]
      /\ pc'[s] = "try"
      /\ \A t \in Servers \ {s} : scan'[t] = scan[t] /\ pc'[t] = pc[t]
  <2>1. -1 \in -1 .. RECORD_NUM - 1
    BY BoardAssumption
  <2> QED BY <1>1, <1>2, <2>1, Started DEF ReceivePull, Go
<1>4. TypeOK'
  BY <1>2, <1>3 DEF IInv, TypeOK, ReceivePull, boardVars, grantVars, clientVars
<1>5. Conversation(c)' /\ Connection(c)' /\ Author(c)'
  BY <1>2, AtClient DEF ReceivePull, Conversation, Connection, Author, clientVars
<1>6. Serving(s)' /\ Counting(s)'
  BY <1>2, <1>3 DEF ReceivePull, Serving, Counting, clientVars
<1>7. ~Holds(c) /\ ~Holds(c)'
  <2>1. toServer[c] \in ToServer /\ toServer[c] \notin Texts
    BY <1>1, <1>2, Distinct DEF IInv, TypeOK
  <2>2. toServer'[c] \in ToServer /\ toServer'[c] \notin Texts /\ toClient'[c] = <<>>
        /\ user' = user
    BY <1>2, Distinct DEF ReceivePull, clientVars
  <2> QED BY <1>2, <1>3, <2>1, <2>2, HoldsDef, HoldsNext, Distinct
<1>8. \A d \in Clients \ {c} : Holds(d)' <=> Holds(d)
  BY <1>2, <1>3, OthersHold DEF ReceivePull
<1>9. GrantsSound'
  <2>1. \A d \in Clients : Holds(d)' <=> Holds(d)
    BY <1>7, <1>8
  <2> QED BY <2>1, GrantsKept DEF ReceivePull, boardVars, grantVars
<1> QED BY <1>2, <1>3, <1>4, <1>5, <1>6, <1>9, PairStep DEF ReceivePull, grantVars

(* "exit" closes the connection.                                            *)
LEMMA ReceiveExitInv == ASSUME IInv, NEW s \in Servers, ReceiveExit(s) PROVE IInv'
<1>1. PICK c \in ready[s] :
        /\ toServer[c] = <<"exit">> /\ Receive(s, c)
        /\ link' = [link EXCEPT ![c] = "none"]
  BY DEF ReceiveExit
<1>2. /\ c \in Clients /\ ServerOf[c] = s /\ pc[s] = "select"
      /\ link[c] \in Served /\ toClient[c] = <<>> /\ user[c] = "gone"
      /\ ready' \in [Servers -> SUBSET Clients] /\ \A d \in ready'[s] : ServerOf[d] = s
      /\ toServer' \in [Clients -> ToServer] /\ toServer'[c] = <<>>
      /\ \A d \in Clients \ {c} : toServer'[d] = toServer[d]
      /\ \A t \in Servers \ {s} : ready'[t] = ready[t]
  <2>1. <<"exit">> \notin {<<>>, <<"[SP]">>, <<"post">>, <<"[SP]", "post">>,
                           <<"pull">>, <<"[SP]", "pull">>}
    OBVIOUS
  <2>2. c \in Clients /\ user[c] \in {"prompt", "asking", "pulling", "gone"}
    BY <1>1, Received
  <2>3. user[c] \notin {"prompt", "asking", "pulling"}
    BY <1>1, <2>1, <2>2, AtClient DEF Conversation
  <2> QED BY <1>1, <2>2, <2>3, Received
<1>3. /\ link' \in [Clients -> Links] /\ link'[c] = "none"
      /\ \A d \in Clients \ {c} : link'[d] = link[d]
  BY <1>1, <1>2 DEF IInv, TypeOK, Links
<1>4. TypeOK'
  BY <1>2, <1>3 DEF IInv, TypeOK, ReceiveExit, boardVars, grantVars, clientVars
<1>5. Conversation(c)' /\ Connection(c)' /\ Author(c)'
  BY <1>2, <1>3, AtClient DEF ReceiveExit, Conversation, Connection, Author, clientVars
<1>6. Serving(s)' /\ Counting(s)'
  BY <1>2 DEF ReceiveExit, Serving, Counting
<1>7. ~Holds(c) /\ ~Holds(c)'
  <2>1. toServer[c] \in ToServer /\ toServer[c] \notin Texts
    BY <1>1, <1>2, Distinct DEF IInv, TypeOK
  <2>2. link'[c] \notin Served /\ pc' = pc
    BY <1>3 DEF ReceiveExit, Served
  <2> QED BY <1>2, <2>1, <2>2, HoldsDef, HoldsNext, Distinct
<1>8. \A d \in Clients \ {c} : Holds(d)' <=> Holds(d)
  BY <1>2, <1>3, OthersHold DEF ReceiveExit
<1>9. GrantsSound'
  <2>1. \A d \in Clients : Holds(d)' <=> Holds(d)
    BY <1>7, <1>8
  <2> QED BY <2>1, GrantsKept DEF ReceiveExit, boardVars, grantVars
<1> QED BY <1>2, <1>3, <1>4, <1>5, <1>6, <1>9, PairStep DEF ReceiveExit, grantVars

(* An unknown word is received, and that is all.                            *)
LEMMA ReceiveOtherInv == ASSUME IInv, NEW s \in Servers, ReceiveOther(s) PROVE IInv'
<1>1. PICK c \in ready[s] : toServer[c] = <<"other">> /\ Receive(s, c)
  BY DEF ReceiveOther
<1>2. /\ c \in Clients /\ ServerOf[c] = s /\ pc[s] = "select"
      /\ link[c] \in Served /\ toClient[c] = <<>> /\ user[c] = "gone"
      /\ ready' \in [Servers -> SUBSET Clients] /\ \A d \in ready'[s] : ServerOf[d] = s
      /\ toServer' \in [Clients -> ToServer] /\ toServer'[c] = <<>>
      /\ \A d \in Clients \ {c} : toServer'[d] = toServer[d]
      /\ \A t \in Servers \ {s} : ready'[t] = ready[t]
  <2>1. <<"other">> \notin {<<>>, <<"[SP]">>, <<"post">>, <<"[SP]", "post">>,
                            <<"pull">>, <<"[SP]", "pull">>}
    OBVIOUS
  <2>2. c \in Clients /\ user[c] \in {"prompt", "asking", "pulling", "gone"}
    BY <1>1, Received
  <2>3. user[c] \notin {"prompt", "asking", "pulling"}
    BY <1>1, <2>1, <2>2, AtClient DEF Conversation
  <2> QED BY <1>1, <2>2, <2>3, Received
<1>3. TypeOK'
  BY <1>2 DEF IInv, TypeOK, ReceiveOther, boardVars, grantVars, clientVars
<1>4. Conversation(c)' /\ Connection(c)' /\ Author(c)'
  BY <1>2, AtClient DEF ReceiveOther, Conversation, Connection, Author, clientVars
<1>5. Serving(s)' /\ Counting(s)'
  BY <1>2 DEF ReceiveOther, Serving, Counting
<1>6. ~Holds(c) /\ ~Holds(c)'
  <2>1. toServer[c] \in ToServer /\ toServer[c] \notin Texts
    BY <1>1, <1>2, Distinct DEF IInv, TypeOK
  <2>2. toServer'[c] \in ToServer /\ toServer'[c] \notin Texts /\ toClient'[c] = <<>>
        /\ pc' = pc /\ user' = user
    BY <1>2, Distinct DEF ReceiveOther, clientVars
  <2> QED BY <1>2, <2>1, <2>2, HoldsDef, HoldsNext, Distinct
<1>7. \A d \in Clients \ {c} : Holds(d)' <=> Holds(d)
  BY <1>2, OthersHold DEF ReceiveOther
<1>8. GrantsSound'
  <2>1. \A d \in Clients : Holds(d)' <=> Holds(d)
    BY <1>6, <1>7
  <2> QED BY <2>1, GrantsKept DEF ReceiveOther, boardVars
<1> QED BY <1>2, <1>3, <1>4, <1>5, <1>8, PairStep DEF ReceiveOther, grantVars

(* A post begins: its author holds no record yet.                           *)
LEMMA ReceivePostInv ==
  ASSUME IInv, NEW s \in Servers, ReceivePost(s) PROVE IInv'
<1>1. PICK c \in ready[s] :
        /\ toServer[c] = <<"post">> /\ Receive(s, c)
        /\ scan' = [scan EXCEPT ![s] = [Idle EXCEPT !.fd = c, !.oldlast = Wrapped(s)]]
  BY DEF ReceivePost
<1>2. /\ c \in Clients /\ ServerOf[c] = s /\ pc[s] = "select"
      /\ link[c] \in Served /\ toClient[c] = <<>> /\ user[c] \in {"asking", "gone"}
      /\ ready' \in [Servers -> SUBSET Clients] /\ \A d \in ready'[s] : ServerOf[d] = s
      /\ toServer' \in [Clients -> ToServer] /\ toServer'[c] = <<>>
      /\ \A d \in Clients \ {c} : toServer'[d] = toServer[d]
      /\ \A t \in Servers \ {s} : ready'[t] = ready[t]
  <2>1. <<"post">> \notin {<<>>, <<"[SP]">>, <<"pull">>, <<"[SP]", "pull">>}
    OBVIOUS
  <2>2. c \in Clients /\ user[c] \in {"prompt", "asking", "pulling", "gone"}
    BY <1>1, Received
  <2>3. user[c] \notin {"prompt", "pulling"}
    BY <1>1, <2>1, <2>2, AtClient DEF Conversation
  <2> QED BY <1>1, <2>2, <2>3, Received
<1>3. c \in Posters
  <2>1. <<"post">> \notin {<<>>, <<"pull">>, <<"exit">>, <<"other">>}
    OBVIOUS
  <2> QED BY <1>1, <1>2, <2>1, AtClient DEF Author
<1>4. /\ Wrapped(s) \in Slots \cup {-1} /\ Wrapped(s) \in -1 .. RECORD_NUM - 1
      /\ last' = [last EXCEPT ![s] = Wrapped(s)]
  BY BoardAssumption DEF ReceivePost, Wrapped, IInv, TypeOK, Slots
<1>5. /\ last' \in [Servers -> Slots \cup {-1}]
      /\ \A t \in Servers \ {s} : last'[t] = last[t]
  BY <1>4 DEF IInv, TypeOK
<1>6. /\ scan' \in [Servers -> Scans] /\ scan'[s].fd = c /\ scan'[s].interlk = 0
      /\ scan'[s].i = 0 /\ scan'[s].unlkc = RECORD_NUM
      /\ pc' \in [Servers -> {"select", "post", "release", "try", "unlock", "read", "down"}]
      /\ pc'[s] = "post"
      /\ \A t \in Servers \ {s} : scan'[t] = scan[t] /\ pc'[t] = pc[t]
  BY <1>1, <1>2, <1>4, Started DEF ReceivePost, Go
<1>7. TypeOK'
  BY <1>2, <1>5, <1>6 DEF IInv, TypeOK, ReceivePost, boardVars, clientVars
<1>8. Conversation(c)' /\ Connection(c)' /\ Author(c)'
  BY <1>2, AtClient DEF ReceivePost, Conversation, Connection, Author, clientVars
<1>9. Serving(s)'
  BY <1>2, <1>3, <1>6 DEF ReceivePost, Serving, clientVars
<1>10. Counting(s)'
  BY <1>6, BoardAssumption DEF Counting
<1>11. ~Holds(c) /\ ~Holds(c)'
  <2>1. toServer[c] \in ToServer /\ toServer[c] \notin Texts
    BY <1>1, <1>2, Distinct DEF IInv, TypeOK
  <2>2. toServer'[c] \in ToServer /\ toServer'[c] \notin Texts /\ toClient'[c] = <<>>
        /\ user' = user
    BY <1>2, Distinct DEF ReceivePost, clientVars
  <2> QED BY <1>2, <1>6, <2>1, <2>2, HoldsDef, HoldsNext, Distinct
<1>12. \A d \in Clients \ {c} : Holds(d)' <=> Holds(d)
  BY <1>2, <1>6, OthersHold DEF ReceivePost
<1>13. \A d \in Clients : Holds(d)' <=> Holds(d)
  BY <1>11, <1>12
<1>14. ASSUME NEW d \in Clients PROVE Granted(d)'
  <2>1. CASE ~Holds(d)
    BY <1>13, <2>1 DEF Granted
  <2>2. CASE Holds(d)
    <3>1. OneAuthor(ServerOf[d]) => ServerOf[d] # s
      BY <1>2, <1>3, <1>11, <2>2, SoleHolder, AtClient
    <3> QED BY <1>5, <2>2, <3>1, AtClient DEF Granted, ReceivePost, boardVars
  <2> QED BY <2>1, <2>2
<1>15. MylockKept'
  BY <1>13 DEF IInv, MylockKept, MarksExact, ReceivePost
<1>16. NoDoubleGrant'
  BY <1>13 DEF IInv, NoDoubleGrant, Trusted, ReceivePost
<1> QED BY <1>2, <1>6, <1>7, <1>8, <1>9, <1>10, <1>14, <1>15, <1>16, PairStep
        DEF ReceivePost, GrantsSound

(* The text is written into the record that was given to the connection.    *)
LEMMA ReceiveSPInv == ASSUME IInv, NEW s \in Servers, ReceiveSP(s) PROVE IInv'
<1>1. PICK c \in ready[s] :
        /\ Receive(s, c) /\ Head(toServer[c]) = "[SP]"
        /\ file' = [file EXCEPT ![LAST[c]] = Record(c, posts[c], Len(toServer[c]) = 1)]
        /\ scan' = [scan EXCEPT ![s] = [Idle EXCEPT !.fd = c]]
  BY DEF ReceiveSP
<1>2. /\ c \in Clients /\ ServerOf[c] = s /\ pc[s] = "select"
      /\ link[c] \in Served /\ toClient[c] = <<>>
      /\ user[c] \in {"prompt", "asking", "pulling", "gone"}
      /\ ready' \in [Servers -> SUBSET Clients] /\ \A d \in ready'[s] : ServerOf[d] = s
      /\ toServer' \in [Clients -> ToServer] /\ toServer'[c] = <<>>
      /\ \A d \in Clients \ {c} : toServer'[d] = toServer[d]
      /\ \A t \in Servers \ {s} : ready'[t] = ready[t]
  BY <1>1, Received
<1>3. toServer[c] \in Texts /\ toServer[c] \in ToServer
  BY <1>1, <1>2, TextFirst DEF IInv, TypeOK, Receive
<1>4. Holds(c) /\ c \in Posters /\ LAST[c] \in Slots
  BY <1>2, <1>3, HoldsDef, AtClient DEF Granted
<1>5. /\ scan' \in [Servers -> Scans] /\ scan'[s].fd = c
      /\ pc' \in [Servers -> {"select", "post", "release", "try", "unlock", "read", "down"}]
      /\ pc'[s] = "release"
      /\ \A t \in Servers \ {s} : scan'[t] = scan[t] /\ pc'[t] = pc[t]
  <2>1. -1 \in -1 .. RECORD_NUM - 1
    BY BoardAssumption
  <2> QED BY <1>1, <1>2, <2>1, Started DEF ReceiveSP, Go
<1>6. file' \in [Slots -> Records]
  <2>1. Record(c, posts[c], Len(toServer[c]) = 1) \in Records
    <3>1. posts[c] \in 0 .. MaxPosts + 1
      BY <1>2, BoardAssumption DEF IInv, TypeOK
    <3> QED BY <1>2, <3>1 DEF Record, Records
  <2> QED BY <1>1, <1>4, <2>1 DEF IInv, TypeOK
<1>7. TypeOK'
  BY <1>2, <1>4, <1>5, <1>6 DEF IInv, TypeOK, ReceiveSP, grantVars, clientVars
<1>8. Conversation(c)' /\ Connection(c)' /\ Author(c)'
  BY <1>2, AtClient DEF ReceiveSP, Conversation, Connection, Author, clientVars
<1>9. Serving(s)' /\ Counting(s)'
  BY <1>2, <1>4, <1>5 DEF ReceiveSP, Serving, Counting, clientVars
<1>10. Holds(c)'
  BY <1>2, <1>5 DEF Holds, Releasing
<1>11. \A d \in Clients \ {c} : Holds(d)' <=> Holds(d)
  BY <1>2, <1>5, OthersHold DEF ReceiveSP
<1>12. GrantsSound'
  <2>1. \A d \in Clients : Holds(d)' <=> Holds(d)
    BY <1>4, <1>10, <1>11
  <2> QED BY <2>1, GrantsKept DEF ReceiveSP, grantVars
<1> QED BY <1>2, <1>5, <1>7, <1>8, <1>9, <1>12, PairStep DEF ReceiveSP, grantVars

(* The end of a server: its clients are cut off, its locks and grants gone. *)
LEMMA DieInv ==
  ASSUME IInv, NEW s \in Servers, Die(s), faults' \in 0 .. MaxFaults
  PROVE  IInv'
<1>0. UNCHANGED <<file, clientVars>>
  BY DEF Die
<1>1. /\ owner' \in [Slots -> Servers \cup {NoOne}]
      /\ \A k \in Slots : owner[k] # s => owner'[k] = owner[k]
  BY DEF Die, IInv, TypeOK
<1>2. /\ mylock' \in [Servers -> [Slots -> {0, 1}]]
      /\ \A k \in Slots : mylock'[s][k] = 0
      /\ \A t \in Servers \ {s} : mylock'[t] = mylock[t]
  BY DEF Die, IInv, TypeOK
<1>3. /\ last' \in [Servers -> Slots \cup {-1}]
      /\ \A t \in Servers \ {s} : last'[t] = last[t]
      /\ LAST' \in [Clients -> Slots \cup {-1}]
      /\ \A c \in Clients : ServerOf[c] # s => LAST'[c] = LAST[c]
      /\ mismarked' = mismarked \ {s} /\ mismarked' \subseteq Servers
  BY DEF Die, IInv, TypeOK
<1>4. /\ pc' \in [Servers -> {"select", "post", "release", "try", "unlock", "read", "down"}]
      /\ pc'[s] = "down" /\ \A t \in Servers \ {s} : pc'[t] = pc[t]
  BY DEF Die, Go, IInv, TypeOK
<1>5. /\ ready' \in [Servers -> SUBSET Clients]
      /\ ready'[s] = {} /\ \A t \in Servers \ {s} : ready'[t] = ready[t]
  BY DEF Die, IInv, TypeOK
<1>6. /\ scan' \in [Servers -> Scans] /\ scan'[s] = Idle
      /\ \A t \in Servers \ {s} : scan'[t] = scan[t]
  BY IdleTyped DEF Die, IInv, TypeOK
<1>7. \A c \in Clients : ServerOf[c] # s =>
        link'[c] = link[c] /\ toServer'[c] = toServer[c] /\ toClient'[c] = toClient[c]
  BY DEF Die
<1>8. ASSUME NEW c \in Clients, ServerOf[c] = s
      PROVE  /\ link'[c] \in {"none", "fin", "dead", "reset"}
             /\ link'[c] = "none" <=> link[c] \in {"none", "left", "half", "broken"}
             /\ toServer'[c] = <<>>
             /\ toClient'[c] = IF link'[c] = "none" THEN <<>> ELSE toClient[c]
  <2>1. link[c] \in Links
    BY DEF IInv, TypeOK
  <2>2. toServer'[c] = <<>>
    BY <1>8 DEF Die
  <2>3. link'[c] = CASE link[c] = "queued" -> "reset"
                     [] link[c] = "up" -> IF toServer[c] = <<>> THEN "fin" ELSE "reset"
                     [] link[c] \in {"left", "half", "broken"} -> "none"
                     [] OTHER -> link[c]
    BY <1>8 DEF Die
  <2>4. link'[c] \in {"none", "fin", "dead", "reset"}
        /\ (link'[c] = "none" <=> link[c] \in {"none", "left", "half", "broken"})
    BY <2>1, <2>3 DEF Links
  <2>5. toClient'[c] = IF link'[c] = "none" THEN <<>> ELSE toClient[c]
    BY <1>8, <2>3 DEF Die
  <2> QED BY <2>2, <2>4, <2>5
<1>9. TypeOK'
  <2>1. link' \in [Clients -> Links]
    <3>1. \A c \in Clients : link'[c] \in Links
      BY <1>7, <1>8 DEF IInv, TypeOK, Links
    <3> QED BY <3>1 DEF Die
  <2>2. toServer' \in [Clients -> ToServer]
    <3>1. \A c \in Clients : toServer'[c] \in ToServer
      BY <1>7, <1>8 DEF IInv, TypeOK, ToServer
    <3> QED BY <3>1 DEF Die
  <2>3. toClient' \in [Clients -> ToClient]
    <3>1. \A c \in Clients : toClient'[c] \in ToClient
      BY <1>7, <1>8 DEF IInv, TypeOK, ToClient
    <3> QED BY <3>1 DEF Die
  <2>4. ASSUME NEW t \in Servers
        PROVE  /\ pc'[t] \notin {"select", "down"} => scan'[t].fd \in Clients
               /\ pc'[t] \in {"unlock", "read"} => scan'[t].i \in Slots
               /\ pc'[t] = "release" => LAST'[scan'[t].fd] \in Slots
    <3>1. CASE t = s
      BY <1>4, <3>1
    <3>2. CASE t # s
      <4>1. pc[t] \notin {"select", "down"} => ServerOf[scan[t].fd] # s
        BY <3>2, AtRequest
      <4> QED BY <1>3, <1>4, <1>6, <3>2, <4>1 DEF IInv, TypeOK
    <3> QED BY <3>1, <3>2
  <2> QED BY <1>0, <1>1, <1>2, <1>3, <1>4, <1>5, <1>6, <2>1, <2>2, <2>3, <2>4
          DEF IInv, TypeOK, clientVars
<1>10. ASSUME NEW c \in Clients PROVE Conversation(c)' /\ Connection(c)' /\ Author(c)'
  <2>1. CASE ServerOf[c] = s
    BY <1>0, <1>8, <2>1, AtClient, Distinct
    DEF Conversation, Connection, Author, clientVars, Served
  <2>2. CASE ServerOf[c] # s
    BY <1>0, <1>7, <2>2, AtClient DEF Conversation, Connection, Author, clientVars
  <2> QED BY <2>1, <2>2
<1>11. ASSUME NEW t \in Servers PROVE Serving(t)' /\ Counting(t)'
  <2>1. CASE t = s
    BY <1>4, <1>5, <1>8, <2>1 DEF Serving, Counting, Served
  <2>2. CASE t # s
    <3>1. Serving(t) /\ Counting(t) /\ TypeOK
      BY DEF IInv
    <3>2. pc[t] \notin {"select", "down"} => scan[t].fd \in Clients /\ ServerOf[scan[t].fd] # s
      BY <2>2, AtRequest
    <3>3. pc'[t] = pc[t] /\ scan'[t] = scan[t] /\ ready'[t] = ready[t] /\ mylock'[t] = mylock[t]
      BY <1>2, <1>4, <1>5, <1>6, <2>2
    <3>4. UNCHANGED user
      BY <1>0 DEF clientVars
    <3>5. Serving(t)'
      BY <1>7, <2>2, <3>1, <3>2, <3>3, <3>4, ServingUntouched
    <3>6. Counting(t)'
      BY <3>1, <3>3 DEF Counting
    <3> QED BY <3>5, <3>6
  <2> QED BY <2>1, <2>2
<1>12. ASSUME NEW c \in Clients PROVE Holds(c)' <=> Holds(c) /\ ServerOf[c] # s
  <2>1. CASE ServerOf[c] = s
    BY <1>4, <1>8, <2>1 DEF Holds, Unwritten, Scanning, Releasing, Served
  <2>2. CASE ServerOf[c] # s
    BY <1>0, <1>4, <1>6, <1>7, <2>2, AtClient
    DEF Holds, Unwritten, Scanning, Releasing, clientVars
  <2> QED BY <2>1, <2>2
<1>13. ASSUME NEW c \in Clients PROVE Granted(c)'
  BY <1>1, <1>3, <1>12, AtClient DEF Granted
<1>14. MylockKept'
  <2>1. ASSUME NEW t \in Servers, OneAuthor(t) PROVE t \notin mismarked'
    BY <1>3, <2>1 DEF IInv, MylockKept
  <2>2. ASSUME NEW t \in Servers, t \notin mismarked', NEW k \in Slots
        PROVE  mylock'[t][k] = 1 <=>
                 \E c \in Clients : ServerOf[c] = t /\ Holds(c)' /\ LAST'[c] = k
    <3>1. CASE t = s
      BY <1>2, <1>12, <3>1
    <3>2. CASE t # s
      BY <1>2, <1>3, <1>12, <2>2, <3>2 DEF IInv, MylockKept, MarksExact
    <3> QED BY <3>1, <3>2
  <2> QED BY <2>1, <2>2 DEF MylockKept, MarksExact
<1>15. NoDoubleGrant'
  BY <1>3, <1>12 DEF IInv, NoDoubleGrant, Trusted
<1> QED BY <1>9, <1>10, <1>11, <1>13, <1>14, <1>15 DEF IInv

(* A failed receive and a crash.                                            *)
LEMMA ReceiveFailsInv == ASSUME IInv, NEW s \in Servers, ReceiveFails(s) PROVE IInv'
  BY DieInv DEF ReceiveFails, IInv, TypeOK

(* A failed receive and a crash.                                            *)
LEMMA CrashInv == ASSUME IInv, NEW s \in Servers, Crash(s) PROVE IInv'
<1>1. faults' \in 0 .. MaxFaults
  BY BoardAssumption DEF Crash, IInv, TypeOK
<1> QED BY <1>1, DieInv DEF Crash

-----------------------------------------------------------------------------
(* Every step keeps the invariant, and the theorems.                        *)

(* Each action keeps the invariant.                                         *)
LEMMA NextInv == ASSUME IInv, [Next]_vars PROVE IInv'
<1>1. CASE UNCHANGED vars
  <2>1. \A c \in Clients : Holds(c)' <=> Holds(c)
    BY <1>1 DEF vars, serverVars, clientVars, streams, Holds, Unwritten, Scanning, Releasing
  <2>2. GrantsSound'
    BY <1>1, <2>1, GrantsKept DEF vars, boardVars, grantVars
  <2>3. TypeOK'
    BY <1>1 DEF IInv, TypeOK, vars, boardVars, grantVars, serverVars, clientVars, streams
  <2>4. \A c \in Clients : Conversation(c)' /\ Connection(c)' /\ Author(c)'
    BY <1>1 DEF IInv, Conversation, Connection, Author, vars, clientVars, streams
  <2>5. \A s \in Servers : Serving(s)' /\ Counting(s)'
    BY <1>1
    DEF IInv, Serving, Counting, vars, grantVars, serverVars, clientVars, streams
  <2> QED BY <2>2, <2>3, <2>4, <2>5 DEF IInv, GrantsSound
<1>2. ASSUME NEW s \in Servers, Server(s) PROVE IInv'
  <2>1. CASE Select(s) \/ Accept(s)
    BY <2>1, SelectInv, AcceptInv
  <2>2. CASE ReceiveExit(s) \/ ReceiveOther(s) \/ ReceiveFails(s) \/ ReceiveSP(s) \/ Release(s)
    BY <2>2, ReceiveExitInv, ReceiveOtherInv, ReceiveFailsInv, ReceiveSPInv, ReleaseInv
  <2>3. CASE ReceivePost(s) \/ PostLocked(s) \/ PostGrant(s) \/ PostExtra(s)
    BY <2>3, ReceivePostInv, PostLockedInv, PostGrantInv, PostExtraInv
  <2>4. CASE PostReply(s) \/ ReceivePull(s) \/ PullLocked(s) \/ PullLock(s)
    BY <2>4, PostReplyInv, ReceivePullInv, PullLockedInv, PullLockInv
  <2>5. CASE PullUnlock(s) \/ PullRead(s) \/ PullReply(s)
    BY <2>5, PullUnlockInv, PullReadInv, PullReplyInv
  <2> QED BY <1>2, <2>1, <2>2, <2>3, <2>4, <2>5 DEF Server
<1>3. ASSUME NEW s \in Servers, Crash(s) \/ Restart(s) PROVE IInv'
  BY <1>3, CrashInv, RestartInv
<1>4. ASSUME NEW c \in Clients, Connect(c) \/ Reads(c) \/ Types(c) \/ Kill(c) PROVE IInv'
  BY <1>4, ConnectInv, ReadTextInv, ReadVerdictInv, ReadFailsInv,
     TypePostInv, TypePullInv, TypeExitInv, SubmitInv, KillInv DEF Reads, Types
<1>5. ASSUME NEW s \in Servers, SelectTimeout(s) PROVE UNCHANGED vars
  BY <1>5 DEF SelectTimeout
<1> QED BY <1>1, <1>2, <1>3, <1>4, <1>5 DEF Next

(* The invariant holds of every state that is reached.                      *)
THEOREM Invariance == Spec => []IInv
<1>1. Init => IInv
  BY InitInv
<1>2. IInv /\ [Next]_vars => IInv'
  BY NextInv
<1> QED BY <1>1, <1>2, PTL DEF Spec

(* Indices, counters, program counters and messages are of their kind: no   *)
(* array of server.c is indexed outside of its bounds, but for mylock[last] *)
(* with last = -1 in Release (server.c 382).                                *)
THEOREM TypeCorrect == Spec => []TypeOK
<1>1. IInv => TypeOK
  BY DEF IInv
<1> QED BY <1>1, Invariance, PTL

(* A record given to a client is locked by its server until it is written   *)
(* and released, as long as no submission to the server has reset the mark  *)
(* of another record than its own: no lock or unlock of the same process    *)
(* takes it away, of however many authors.                                  *)
THEOREM GrantsAreLocked == Spec => []WriterOwnsRecord
<1>1. IInv => WriterOwnsRecord
  BY DEF IInv, Granted, WriterOwnsRecord, Trusted
<1> QED BY <1>1, Invariance, PTL

(* mylock of a server is 1 exactly for the records its clients are writing, *)
(* until a submission resets the mark of another record than its own, which *)
(* never happens to a server with one author.                               *)
THEOREM MylockIsKept == Spec => []MylockKept
<1>1. IInv => MylockKept
  BY DEF IInv
<1> QED BY <1>1, Invariance, PTL

(* With one author per server, mylock is as the comment of server.c has it. *)
THEOREM MylockIsExact ==
  ASSUME \A s \in Servers : OneAuthor(s)
  PROVE  Spec => []MylockExact
<1>1. IInv => MylockExact
  BY DEF IInv, MylockKept, MylockExact
<1> QED BY <1>1, Invariance, PTL

(* No record is given to two clients at a time, of one server or of two,    *)
(* while no submission to these servers has reset the wrong mark.           *)
THEOREM GrantsAreExclusive == Spec => []NoDoubleGrant
<1>1. IInv => NoDoubleGrant
  BY DEF IInv
<1> QED BY <1>1, Invariance, PTL

(* The verdict of a post request is true, and who edits has a record.       *)
THEOREM VerdictIsTrue == Spec => []VerdictTrue
<1>1. ASSUME IInv PROVE VerdictTrue
  <2>1. ASSUME NEW c \in Clients, user[c] = "editing", link[c] = "up"
        PROVE  LAST[c] \in Slots
    BY <1>1, <2>1, AtClient DEF Granted, Holds, Unwritten, Served
  <2> QED BY <1>1, <2>1, VerdictKnown DEF VerdictTrue
<1> QED BY <1>1, Invariance, PTL

(* Only a submission writes the file.                                       *)
LEMMA OnlySubmissionWrites ==
  ASSUME Next, file' # file PROVE \E s \in Servers : ReceiveSP(s)
<1>1. ASSUME NEW s \in Servers, Server(s), ~ReceiveSP(s) PROVE file' = file
  BY <1>1
  DEF Server, Select, Accept, ReceiveExit, ReceiveOther, ReceiveFails, Die, Release, ReceivePost,
      PostLocked, PostGrant, PostExtra, PostReply, ReceivePull, PullLocked, PullLock,
      PullUnlock, PullRead, PullReply, boardVars
<1>2. ASSUME NEW s \in Servers, SelectTimeout(s) \/ Crash(s) \/ Restart(s)
      PROVE  file' = file
  BY <1>2 DEF SelectTimeout, Crash, Die, Restart, vars, boardVars
<1>3. ASSUME NEW c \in Clients, Connect(c) \/ Reads(c) \/ Types(c) \/ Kill(c)
      PROVE  file' = file
  BY <1>3
  DEF Connect, Reads, ReadText, ReadVerdict, ReadFails, Types, TypePost, TypePull,
      TypeExit, Submit, Kill, boardVars
<1> QED BY <1>1, <1>2, <1>3 DEF Next

(* The file changes only by a submission, in the record that was given to   *)
(* its author; while no submission to the author's server has reset the     *)
(* wrong mark, the server has the lock of it and no other author of such a  *)
(* server was given it.                                                     *)
THEOREM WritesByHolder == Spec => WrittenByHolder
<1> DEFINE WrittenBy(c, k) ==
             /\ LAST[c] = k /\ Holds(c)
             /\ file'[k].from = c
             /\ Trusted(c) => /\ owner[k] = ServerOf[c]
                              /\ \A d \in Clients \ {c} : Trusted(d) => LAST[d] # k
           Written == \A k \in Slots : file'[k] # file[k] => \E c \in Clients : WrittenBy(c, k)
<1>1. ASSUME IInv, [Next]_vars PROVE [Written]_vars
  <2> SUFFICES ASSUME Next, NEW k \in Slots, file'[k] # file[k]
               PROVE  \E c \in Clients : WrittenBy(c, k)
    BY <1>1
  <2>1. PICK s \in Servers : ReceiveSP(s)
    BY OnlySubmissionWrites
  <2>2. PICK c \in ready[s] :
          /\ Receive(s, c) /\ Head(toServer[c]) = "[SP]"
          /\ file' = [file EXCEPT ![LAST[c]] = Record(c, posts[c], Len(toServer[c]) = 1)]
    BY <2>1 DEF ReceiveSP
  <2>3. c \in Clients /\ link[c] \in Served /\ toServer[c] # <<>>
    BY <1>1, <2>2, Received DEF Receive
  <2>4. Holds(c)
    BY <2>2, <2>3 DEF Holds, Unwritten
  <2>5. LAST[c] \in Slots
    BY <1>1, <2>3, <2>4, AtClient DEF Granted
  <2>6. file \in [Slots -> Records]
    BY <1>1 DEF IInv, TypeOK
  <2>7. k = LAST[c] /\ file'[k].from = c
    BY <2>2, <2>5, <2>6 DEF Record
  <2>8. ASSUME Trusted(c)
        PROVE  /\ owner[k] = ServerOf[c]
               /\ \A d \in Clients \ {c} : Trusted(d) => LAST[d] # k
    BY <1>1, <2>3, <2>4, <2>7, <2>8, AtClient, NoSharedGrant DEF Granted, Trusted
  <2> QED BY <2>3, <2>4, <2>7, <2>8
<1>2. Spec => [][Written]_vars
  BY <1>1, Invariance, PTL DEF Spec
<1> QED BY <1>2 DEF WrittenByHolder

-----------------------------------------------------------------------------
(* What the users of one server see: a pull shows the whole board, and the  *)
(* board is RecentPosts.tla, the list of the last RECORD_NUM posts.  It     *)
(* holds for one server with one author and any number of readers.          *)
(* SoleServerInv is inductive on top of IInv; PendingMeans reads from       *)
(* mylock whether a post is pending, so that a step that leaves mylock      *)
(* alone leaves the abstract board alone.                                   *)

(* The steps of clients, and what they leave alone.                         *)
ClientSteps == \E c \in Clients : Connect(c) \/ Reads(c) \/ Types(c) \/ Kill(c)

LEMMA ClientsQuiet ==
  ASSUME ClientSteps
  PROVE  UNCHANGED <<boardVars, grantVars, serverVars>>
  BY DEF ClientSteps, Connect, Reads, ReadText, ReadVerdict, ReadFails, Types, TypePost,
     TypePull, TypeExit, Submit, Kill

(* The server and its author.                                               *)
LEMMA TheServer ==
  ASSUME SoleServer, NEW s \in Servers
  PROVE  /\ Sole(Servers) = s /\ \A t \in Servers : t = s
         /\ \A c \in Clients : ServerOf[c] = s
<1>1. \A t \in Servers : t = s
  BY DEF SoleServer
<1>2. Sole(Servers) \in Servers
  BY DEF Sole
<1> QED BY <1>1, <1>2, BoardAssumption

LEMMA TheAuthor ==
  ASSUME SoleAuthor, NEW c \in Posters
  PROVE  Sole(Posters) = c /\ \A d \in Posters : d = c
<1>1. \A d \in Posters : d = c
  BY DEF SoleAuthor
<1>2. Sole(Posters) \in Posters
  BY DEF Sole
<1> QED BY <1>1, <1>2

-----------------------------------------------------------------------------
(* The records as a circle.                                                 *)

LEMMA RecordNum == RECORD_NUM \in Nat /\ RECORD_NUM > 0
  BY BoardAssumption

LEMMA OnceAround ==
  ASSUME NEW a \in Int
  PROVE  (a + RECORD_NUM) % RECORD_NUM = a % RECORD_NUM
<1>1. a + RECORD_NUM = 1 * RECORD_NUM + a /\ a + RECORD_NUM \in Int
  BY RecordNum
<1>2. Congruent(a + RECORD_NUM, a, RECORD_NUM)
  BY <1>1 DEF Congruent
<1> QED BY <1>1, <1>2, RecordNum, SameRemainder

LEMMA FromSlot ==
  ASSUME NEW a \in Int, NEW b \in Int
  PROVE  ((a % RECORD_NUM) + b) % RECORD_NUM = (a + b) % RECORD_NUM
<1>1. a % RECORD_NUM \in Int /\ Congruent(a % RECORD_NUM, a, RECORD_NUM)
  BY RecordNum, DivMod, RemainderCongruent
<1>2. Congruent(b, b, RECORD_NUM)
  <2>1. b = 0 * RECORD_NUM + b
    BY RecordNum
  <2> QED BY <2>1 DEF Congruent
<1>3. Congruent((a % RECORD_NUM) + b, a + b, RECORD_NUM)
  BY <1>1, <1>2, RecordNum, CongruentSum
<1> QED BY <1>1, <1>3, RecordNum, SameRemainder

(* Fewer steps than records never lead back.                                *)
LEMMA NotAround ==
  ASSUME NEW a \in Slots, NEW i \in 1 .. RECORD_NUM - 1
  PROVE  (a + i) % RECORD_NUM # a
<1> SUFFICES ASSUME (a + i) % RECORD_NUM = a PROVE FALSE
  OBVIOUS
<1>1. a \in Int /\ i \in Int /\ a + i \in Int
  BY RecordNum DEF Slots
<1>2. Congruent(a, a + i, RECORD_NUM)
  BY <1>1, RecordNum, RemainderCongruent
<1>3. PICK k \in Int : a = k * RECORD_NUM + (a + i)
  BY <1>2 DEF Congruent
<1>4. 0 = k * RECORD_NUM + i /\ k * RECORD_NUM \in Int
  BY <1>1, <1>3, RecordNum
<1>5. Congruent(0, i, RECORD_NUM)
  BY <1>4 DEF Congruent
<1>6. 0 \in 0 .. (RECORD_NUM - 1) /\ i \in 0 .. (RECORD_NUM - 1)
  BY RecordNum
<1> QED BY <1>5, <1>6, RecordNum, RemaindersEqual

LEMMA SlotItself ==
  ASSUME NEW a \in Slots
  PROVE  a % RECORD_NUM = a /\ (a + RECORD_NUM) % RECORD_NUM = a /\ a \in Int
  BY RecordNum, Remainder, OnceAround DEF Slots

(* A list of RECORD_NUM records that loses its first and gets a new last.   *)
LEMMA NewPost ==
  ASSUME NEW q \in [1 .. RECORD_NUM -> Records], NEW p \in Records
  PROVE  Append(Tail(q), p) =
           [i \in 1 .. RECORD_NUM |-> IF i = RECORD_NUM THEN p ELSE q[i + 1]]
<1> DEFINE a == Append(Tail(q), p)
           b == [i \in 1 .. RECORD_NUM |-> IF i = RECORD_NUM THEN p ELSE q[i + 1]]
<1>1. q \in Seq(Records) /\ Len(q) = RECORD_NUM /\ q # <<>>
  BY RecordNum
<1>2. /\ Tail(q) \in Seq(Records) /\ Len(Tail(q)) = RECORD_NUM - 1
      /\ \A i \in 1 .. RECORD_NUM - 1 : Tail(q)[i] = q[i + 1]
  BY <1>1, RecordNum, HeadTailProperties
<1>3. /\ a \in Seq(Records) /\ Len(a) = RECORD_NUM /\ a[RECORD_NUM] = p
      /\ \A i \in 1 .. RECORD_NUM - 1 : a[i] = q[i + 1]
  BY <1>2, RecordNum, AppendProperties
<1>4. b \in [1 .. RECORD_NUM -> Records]
  BY RecordNum
<1>5. b \in Seq(Records) /\ Len(b) = RECORD_NUM
  BY <1>4, RecordNum
<1>6. \A i \in 1 .. RECORD_NUM : b[i] = IF i = RECORD_NUM THEN p ELSE q[i + 1]
  OBVIOUS
<1> HIDE DEF a, b
<1>7. \A i \in 1 .. RECORD_NUM : a[i] = b[i]
  BY <1>3, <1>6, RecordNum
<1>8. a = b
  BY <1>3, <1>5, <1>7, SeqEqual
<1> QED BY <1>8 DEF a, b

-----------------------------------------------------------------------------
(* What a pull may show, record by record.                                  *)

Hidden(s, n) == mylock[s][n] = 1 \/ file[n] = Blank

LEMMA ShownIs ==
  ASSUME TypeOK, NEW s \in Servers
  PROVE  /\ Shown(s)[0] = <<>>
         /\ \A n \in Slots :
              Shown(s)[n + 1] = IF Hidden(s, n) THEN Shown(s)[n]
                                ELSE Append(Shown(s)[n], file[n])
<1> DEFINE S == Seq(Records)
           H == [x \in Nat \X S |-> IF x[1] \notin Slots \/ Hidden(s, x[1]) THEN x[2]
                                    ELSE Append(x[2], file[x[1]])]
           Is(f) == f = [n \in 0 .. RECORD_NUM |->
                           IF n = 0 THEN <<>>
                           ELSE IF mylock[s][n - 1] = 1 \/ file[n - 1] = Blank THEN f[n - 1]
                           ELSE Append(f[n - 1], file[n - 1])]
<1>1. \A n \in Slots : file[n] \in Records
  BY DEF TypeOK
<1>2. H \in [Nat \X S -> S] /\ <<>> \in S
  BY <1>1
<1>3. \A n \in Nat, q \in S :
        H[<<n, q>>] = IF n \notin Slots \/ Hidden(s, n) THEN q ELSE Append(q, file[n])
  OBVIOUS
<1>4. PICK g \in [Nat -> S] : g[0] = <<>> /\ \A n \in Nat : g[n + 1] = H[<<n, g[n]>>]
  <2>1. RecursionOver(S)
    <3> HIDE DEF S
    <3> QED BY Recursion
  <2> HIDE DEF S, H
  <2> QED BY <1>2, <2>1 DEF RecursionOver
<1> HIDE DEF S, H
<1>5. \E f : Is(f)
  <2> DEFINE f == [n \in 0 .. RECORD_NUM |-> g[n]]
             body(n) == IF n = 0 THEN <<>>
                        ELSE IF mylock[s][n - 1] = 1 \/ file[n - 1] = Blank THEN f[n - 1]
                        ELSE Append(f[n - 1], file[n - 1])
  <2>1. ASSUME NEW n \in 0 .. RECORD_NUM PROVE g[n] = body(n)
    <3>1. CASE n = 0
      BY <1>4, <3>1
    <3>2. CASE n # 0
      <4>1. n - 1 \in Nat /\ n - 1 \in Slots /\ (n - 1) + 1 = n /\ f[n - 1] = g[n - 1]
        BY <3>2, RecordNum DEF Slots
      <4>2. g[n] = H[<<n - 1, g[n - 1]>>] /\ g[n - 1] \in S
        BY <1>4, <4>1
      <4> QED BY <1>3, <3>2, <4>1, <4>2 DEF Hidden
    <3> QED BY <3>1, <3>2
  <2>2. f = [n \in 0 .. RECORD_NUM |-> body(n)]
    <3> HIDE DEF body
    <3> QED BY <2>1
  <2>3. Is(f)
    BY <2>2, Zenon
  <2> QED BY <2>3
<1>6. Is(Shown(s))
  <2>1. Shown(s) = CHOOSE f : Is(f)
    BY DEF Shown
  <2> HIDE DEF Is
  <2> QED BY <1>5, <2>1
<1>7. Shown(s)[0] = <<>>
  BY <1>6, RecordNum
<1>8. ASSUME NEW n \in Slots
      PROVE  Shown(s)[n + 1] = IF Hidden(s, n) THEN Shown(s)[n]
                               ELSE Append(Shown(s)[n], file[n])
  <2>1. n + 1 \in 0 .. RECORD_NUM /\ n + 1 # 0 /\ (n + 1) - 1 = n
    BY RecordNum DEF Slots
  <2> QED BY <1>6, <2>1 DEF Hidden
<1> QED BY <1>7, <1>8

(* It changes with the records and the grants only.                         *)
LEMMA ShownKept ==
  ASSUME NEW s \in Servers, UNCHANGED <<file, mylock>>
  PROVE  Shown(s)' = Shown(s)
  BY DEF Shown

-----------------------------------------------------------------------------
(* A pull shows the whole board.                                            *)

(* The only server gets every lock it asks for.                             *)
LEMMA AlwaysFree ==
  ASSUME IInv, SoleServer, NEW s \in Servers, NEW k \in Slots
  PROVE  CanLock(s, k)
  BY TheServer DEF IInv, TypeOK, CanLock

(* The only author never lets its server forget a record: mylock says       *)
(* exactly what it writes, and the record is the one given out last.        *)
LEMMA OneWriter ==
  ASSUME IInv, SoleServer, SoleAuthor, NEW s \in Servers
  PROVE  /\ \A k \in Slots : mylock[s][k] = 1 <=> \E c \in Clients : Holds(c) /\ LAST[c] = k
         /\ \A c \in Clients : Holds(c) => c \in Posters /\ LAST[c] \in Slots /\ last[s] = LAST[c]
<1>1. OneAuthor(s) /\ \A c \in Clients : ServerOf[c] = s
  BY TheServer DEF OneAuthor, SoleAuthor
<1>2. MarksExact(s)
  BY <1>1 DEF IInv, MylockKept
<1> QED BY <1>1, <1>2 DEF IInv, Granted, MarksExact

(* While a request to post waits for a record nobody has one.               *)
LEMMA NobodyHolds ==
  ASSUME IInv, SoleServer, SoleAuthor, NEW s \in Servers,
         pc[s] = "post", scan[s].interlk = 0
  PROVE  /\ \A c \in Clients : ~Holds(c)
         /\ \A k \in Slots : mylock[s][k] = 0
<1> DEFINE a == scan[s].fd
<1>1. a \in Clients /\ a \in Posters /\ toServer[a] \in ToServer
  BY AtRequest DEF IInv, TypeOK
<1>2. ~Holds(a)
  <2>1. /\ ServerOf[a] = s /\ toClient[a] = <<>> /\ user[a] \notin {"editing", "lost"}
        /\ toServer[a] \notin Texts
    BY AtRequest
  <2> HIDE DEF a
  <2>2. <<>> # <<"1">>
    BY Distinct
  <2> QED BY <1>1, <2>1, <2>2, HoldsDef DEF a
<1>3. ASSUME NEW c \in Clients PROVE ~Holds(c)
  <2>1. Holds(c) => c \in Posters
    BY OneWriter
  <2> QED BY <1>1, <1>2, <2>1, TheAuthor
<1>4. ASSUME NEW k \in Slots PROVE mylock[s][k] = 0
  <2>1. mylock[s][k] \in {0, 1}
    BY DEF IInv, TypeOK
  <2> QED BY <1>3, <2>1, OneWriter
<1> QED BY <1>3, <1>4

(* A server that is not at a pull has nothing to keep.                      *)
LEMMA NoPull ==
  ASSUME NEW s \in Servers, pc'[s] \in {"select", "post", "release", "down"}
  PROVE  Collected(s)'
  BY DEF Collected

(* A pull, or the welcome of a client, begins with nothing.                 *)
LEMMA ScanBegins ==
  ASSUME IInv, NEW s \in Servers, NEW c, UNCHANGED <<file, mylock>>,
         scan' = [scan EXCEPT ![s] = [Idle EXCEPT !.fd = c]], Go(s, "try")
  PROVE  Collected(s)'
<1>1. pc'[s] = "try" /\ scan'[s] = [Idle EXCEPT !.fd = c]
  BY DEF Go, IInv, TypeOK
<1>2. scan'[s].i = 0 /\ scan'[s].temp = <<>>
  BY <1>1 DEF Idle
<1>3. Shown(s)' = Shown(s) /\ Shown(s)[0] = <<>>
  BY ShownIs, ShownKept DEF IInv
<1> QED BY <1>1, <1>2, <1>3 DEF Collected

LEMMA PullSteps ==
  ASSUME IInv, SoleServer, NEW s \in Servers, Collected(s),
         PullLocked(s) \/ PullLock(s) \/ PullUnlock(s) \/ PullRead(s)
  PROVE  Collected(s)'
<1> DEFINE k == scan[s].i
<1>0. Shown(s)' = Shown(s) /\ mylock' = mylock
  BY ShownKept DEF PullLocked, PullLock, PullUnlock, PullRead, boardVars, grantVars
<1>1. CASE PullLocked(s)
  <2>1. k \in Slots
    BY <1>1, ScanTyped DEF PullLocked, Slots
  <2>2. mylock[s][k] = 1
    BY <1>1, <2>1, AlwaysFree DEF PullLocked
  <2>3. scan' = [scan EXCEPT ![s] = [scan[s] EXCEPT !.i = scan[s].i + 1,
                                           !.lockcount = scan[s].lockcount + 1]]
    BY <1>1 DEF PullLocked, Local
  <2>4. scan'[s].i = k + 1 /\ scan'[s].temp = scan[s].temp
    BY <2>3, ScanTyped DEF Scans
  <2>6. pc'[s] = "try" /\ pc[s] = "try"
    BY <1>1 DEF PullLocked
  <2>5. Shown(s)[k + 1] = Shown(s)[k]
    BY <2>1, <2>2, ShownIs DEF Hidden, IInv
  <2> QED BY <1>0, <2>4, <2>5, <2>6 DEF Collected
<1>2. CASE PullLock(s)
  <2>1. pc[s] = "try" /\ pc'[s] = "unlock" /\ scan' = scan
    BY <1>2 DEF PullLock, Go, IInv, TypeOK
  <2> QED BY <1>0, <2>1 DEF Collected
<1>3. CASE PullUnlock(s)
  <2>1. pc[s] = "unlock" /\ pc'[s] = "read" /\ scan' = scan
    BY <1>3 DEF PullUnlock, Go, IInv, TypeOK
  <2>2. mylock[s][k] = 0
    BY <2>1 DEF IInv, Counting
  <2> QED BY <1>0, <2>1, <2>2 DEF Collected
<1>4. CASE PullRead(s)
  <2> DEFINE r == file[k]
             t == IF r # Blank THEN Append(scan[s].temp, r) ELSE scan[s].temp
  <2>1. pc[s] = "read" /\ pc'[s] = "try" /\ k \in Slots
    BY <1>4 DEF PullRead, Go, IInv, TypeOK
  <2>2. scan' = [scan EXCEPT ![s] = [scan[s] EXCEPT !.i = scan[s].i + 1, !.temp = t]]
    BY <1>4 DEF PullRead, Local
  <2> HIDE DEF t
  <2>3. scan'[s].i = k + 1 /\ scan'[s].temp = t
    BY <2>2, ScanTyped DEF Scans
  <2> USE DEF t
  <2>4. Shown(s)[k + 1] = IF Hidden(s, k) THEN Shown(s)[k] ELSE Append(Shown(s)[k], r)
    BY <2>1, ShownIs DEF IInv
  <2>5. mylock[s][k] = 0 /\ scan[s].temp = Shown(s)[k]
    BY <2>1 DEF Collected
  <2>6. t = Shown(s)[k + 1]
    BY <2>4, <2>5 DEF Hidden
  <2> QED BY <1>0, <2>1, <2>3, <2>6 DEF Collected
<1> QED BY <1>1, <1>2, <1>3, <1>4

LEMMA SoleServerStep ==
  ASSUME SoleServerInv, SoleServer, [Next]_vars, NEW s \in Servers
  PROVE  Collected(s)'
<1>0. IInv /\ Collected(s)
  BY DEF SoleServerInv
<1>1. ASSUME UNCHANGED <<file, mylock, pc, scan>> PROVE Collected(s)'
  <2>1. Shown(s)' = Shown(s)
    BY <1>1, ShownKept
  <2> QED BY <1>0, <1>1, <2>1 DEF Collected
<1>2. CASE ClientSteps \/ UNCHANGED vars
  BY <1>1, <1>2, ClientsQuiet DEF vars, boardVars, grantVars, serverVars
<1>3. CASE Select(s) \/ ReceiveExit(s) \/ ReceiveOther(s) \/ SelectTimeout(s)
  BY <1>1, <1>3 DEF Select, ReceiveExit, ReceiveOther, SelectTimeout, vars, boardVars,
     grantVars, serverVars
<1>4. CASE Accept(s)
  BY <1>0, <1>4, ScanBegins DEF Accept, boardVars, grantVars
<1>5. CASE ReceivePull(s)
  BY <1>0, <1>5, ScanBegins DEF ReceivePull, boardVars, grantVars
<1>6. CASE ReceiveSP(s) \/ Release(s) \/ ReceiveFails(s) \/ Crash(s) \/ Restart(s)
          \/ PostReply(s) \/ PullReply(s)
  <2>1. pc'[s] \in {"select", "release", "down"}
    BY <1>0, <1>6 DEF ReceiveSP, Release, ReceiveFails, Crash, Restart, Die, PostReply, PullReply,
       Reply, Go, IInv, TypeOK
  <2> QED BY <2>1, NoPull
<1>7. CASE ReceivePost(s) \/ PostLocked(s) \/ PostGrant(s) \/ PostExtra(s)
  <2>1. pc'[s] = "post"
    BY <1>0, <1>7 DEF ReceivePost, PostLocked, PostGrant, PostExtra, Go, IInv, TypeOK
  <2> QED BY <2>1, NoPull
<1>8. CASE PullLocked(s) \/ PullLock(s) \/ PullUnlock(s) \/ PullRead(s)
  BY <1>0, <1>8, PullSteps
<1>9. Next => ClientSteps \/ Server(s) \/ SelectTimeout(s) \/ Crash(s) \/ Restart(s)
  BY TheServer DEF Next, ClientSteps
<1> QED BY <1>2, <1>3, <1>4, <1>5, <1>6, <1>7, <1>8, <1>9 DEF Server

(* The invariant of a board with one server.                                *)
THEOREM SoleInvariance ==
  ASSUME SoleServer PROVE Spec => []SoleServerInv
<1>1. Init => SoleServerInv
  BY InitInv DEF SoleServerInv, Init, Collected
<1>2. SoleServerInv /\ [Next]_vars => SoleServerInv'
  BY NextInv, SoleServerStep DEF SoleServerInv
<1> QED BY <1>1, <1>2, PTL DEF Spec

(* With one server a pull shows every post that is on the board and is not  *)
(* being replaced, although it takes the records one by one and clients act *)
(* in between.                                                              *)
THEOREM PullsShowAll ==
  ASSUME SoleServer PROVE Spec => []PullShowsBoard
<1>1. SoleServerInv => PullShowsBoard
  BY DEF SoleServerInv, Collected, PullShowsBoard
<1> QED BY <1>1, SoleInvariance, PTL

-----------------------------------------------------------------------------
(* With one author the scan for a post takes the first record it visits.    *)

(* The scan of a request to post begins after the record given out last,    *)
(* and finds the next one free.                                             *)
LEMMA PostSteps ==
  ASSUME IInv, SoleServer, SoleAuthor, NEW s \in Servers, FirstVisit(s),
         ReceivePost(s) \/ PostLocked(s) \/ PostGrant(s) \/ PostExtra(s)
  PROVE  FirstVisit(s)'
<1>1. CASE ReceivePost(s)
  <2>1. PICK c : scan' = [scan EXCEPT ![s] = [Idle EXCEPT !.fd = c, !.oldlast = Wrapped(s)]]
    BY <1>1 DEF ReceivePost
  <2>2. /\ pc'[s] = "post" /\ last'[s] = Wrapped(s)
        /\ scan'[s] = [Idle EXCEPT !.fd = c, !.oldlast = Wrapped(s)]
    BY <1>1, <2>1 DEF ReceivePost, Go, IInv, TypeOK
  <2>3. scan'[s].i = 0 /\ scan'[s].oldlast = Wrapped(s)
    BY <2>2 DEF Idle
  <2>4. Wrapped(s) # RECORD_NUM - 1
    <3>1. last[s] \in Slots \cup {-1}
      BY DEF IInv, TypeOK
    <3> QED BY <3>1, RecordNum DEF Wrapped, Slots
  <2> QED BY <2>2, <2>3, <2>4 DEF FirstVisit
<1>2. CASE PostLocked(s)
  <2>1. CanLock(s, PostSlot(s)) /\ mylock[s][PostSlot(s)] = 1 /\ PostSlot(s) \in Slots
    BY <1>2, PostSlotIsSlot, AlwaysFree DEF PostLocked
  <2>2. scan[s].interlk # 0
    BY <1>2, <2>1, NobodyHolds DEF PostLocked
  <2>3. scan' = [scan EXCEPT ![s] = [scan[s] EXCEPT !.i = scan[s].i + 1,
                                                   !.unlkc = scan[s].unlkc - 1]]
    BY <1>2 DEF PostLocked, Local
  <2>4. scan'[s].interlk = scan[s].interlk
    BY <2>3, ScanTyped DEF Scans
  <2>5. pc'[s] = "post"
    BY <1>2 DEF PostLocked
  <2> QED BY <2>2, <2>4, <2>5 DEF FirstVisit
<1>3. CASE PostGrant(s)
  <2>1. scan' = [scan EXCEPT ![s] = [scan[s] EXCEPT !.i = scan[s].i + 1, !.interlk = 1]]
    BY <1>3 DEF PostGrant, Local
  <2>2. scan'[s].interlk = 1
    BY <2>1, ScanTyped DEF Scans
  <2>5. pc'[s] = "post"
    BY <1>3 DEF PostGrant
  <2> QED BY <2>2, <2>5 DEF FirstVisit
<1>4. CASE PostExtra(s)
  <2>1. scan' = [scan EXCEPT ![s] = [scan[s] EXCEPT !.i = scan[s].i + 1]]
    BY <1>4 DEF PostExtra, Visited
  <2>2. scan'[s].interlk = scan[s].interlk
    BY <2>1, ScanTyped DEF Scans
  <2>5. pc'[s] = "post" /\ scan[s].interlk = 1
    BY <1>4 DEF PostExtra
  <2> QED BY <2>2, <2>5 DEF FirstVisit
<1> QED BY <1>1, <1>2, <1>3, <1>4

LEMMA FirstStep ==
  ASSUME SoleAuthorInv, SoleServer, SoleAuthor, [Next]_vars, NEW s \in Servers
  PROVE  FirstVisit(s)'
<1>0. IInv /\ FirstVisit(s)
  BY DEF SoleAuthorInv, SoleServerInv
<1>1. CASE UNCHANGED <<last, pc, scan>>
  BY <1>0, <1>1 DEF FirstVisit
<1>2. CASE ReceivePost(s) \/ PostLocked(s) \/ PostGrant(s) \/ PostExtra(s)
  BY <1>0, <1>2, PostSteps
<1>3. CASE pc'[s] # "post"
  BY <1>3 DEF FirstVisit
<1>4. CASE ClientSteps \/ UNCHANGED vars
  BY <1>1, <1>4, ClientsQuiet DEF vars, grantVars, serverVars
<1>5. CASE Select(s) \/ ReceiveExit(s) \/ ReceiveOther(s) \/ SelectTimeout(s)
  BY <1>1, <1>5 DEF Select, ReceiveExit, ReceiveOther, SelectTimeout, vars, grantVars, serverVars
<1>6. CASE \/ Accept(s) \/ ReceivePull(s) \/ ReceiveSP(s) \/ Release(s) \/ ReceiveFails(s)
           \/ Crash(s) \/ Restart(s) \/ PostReply(s) \/ PullReply(s)
  <2>1. pc'[s] \in {"select", "try", "release", "down"}
    BY <1>0, <1>6 DEF Accept, ReceivePull, ReceiveSP, Release, ReceiveFails, Crash, Restart, Die,
       PostReply, PullReply, Reply, Go, IInv, TypeOK
  <2> QED BY <1>3, <2>1
<1>7. CASE PullLocked(s) \/ PullLock(s) \/ PullUnlock(s) \/ PullRead(s)
  <2>1. pc'[s] \in {"try", "unlock", "read"}
    BY <1>0, <1>7 DEF PullLocked, PullLock, PullUnlock, PullRead, Go, IInv, TypeOK
  <2> QED BY <1>3, <2>1
<1>8. Next => ClientSteps \/ Server(s) \/ SelectTimeout(s) \/ Crash(s) \/ Restart(s)
  BY TheServer DEF Next, ClientSteps
<1> QED BY <1>2, <1>4, <1>5, <1>6, <1>7, <1>8 DEF Server

(* The invariant of a board with one server and one author.                 *)
THEOREM AuthorInvariance ==
  ASSUME SoleAuthor, SoleServer PROVE Spec => []SoleAuthorInv
<1>1. Init => SoleAuthorInv
  BY InitInv DEF SoleAuthorInv, SoleServerInv, Init, Collected, FirstVisit
<1>2. SoleAuthorInv /\ [Next]_vars => SoleAuthorInv'
  BY NextInv, SoleServerStep, FirstStep DEF SoleAuthorInv, SoleServerInv
<1> QED BY <1>1, <1>2, PTL DEF Spec

-----------------------------------------------------------------------------
(* The board is the list of the last posts.                                 *)

(* A post is pending exactly while mylock says 1 of a record and the server *)
(* has not come to its release.                                             *)
PendingMeans ==
  \A s \in Servers, a \in Posters :
    Pending <=> /\ \E k \in Slots : mylock[s][k] = 1
                /\ ~(pc[s] = "release" /\ scan[s].fd = a)

LEMMA PendingIs == ASSUME IInv, SoleServer, SoleAuthor PROVE PendingMeans
<1> SUFFICES ASSUME NEW s \in Servers, NEW a \in Posters
             PROVE  Unwritten(a) <=> /\ \E k \in Slots : mylock[s][k] = 1
                                     /\ ~(pc[s] = "release" /\ scan[s].fd = a)
  BY TheAuthor DEF PendingMeans, Pending
<1>1. a \in Clients /\ ServerOf[a] = s /\ toServer[a] \in ToServer
  BY TheServer, BoardAssumption DEF IInv, TypeOK
<1>2. Holds(a) <=> \E k \in Slots : mylock[s][k] = 1
  <2>1. Holds(a) => LAST[a] \in Slots /\ mylock[s][LAST[a]] = 1
    BY <1>1, OneWriter
  <2>2. ASSUME NEW k \in Slots, mylock[s][k] = 1 PROVE Holds(a)
    <3>1. PICK c \in Clients : Holds(c)
      BY <2>2, OneWriter
    <3>2. c \in Posters
      BY <3>1, OneWriter
    <3> QED BY <3>1, <3>2, TheAuthor
  <2> QED BY <2>1, <2>2
<1>3. ASSUME Releasing(a) PROVE ~Unwritten(a)
  <2>1. pc[s] = "release" /\ scan[s].fd = a
    BY <1>1, <1>3 DEF Releasing
  <2>2. toClient[a] = <<>> /\ user[a] \notin {"editing", "lost"} /\ toServer[a] \notin Texts
    BY <2>1, AtRequest
  <2>3. <<>> # <<"1">>
    BY Distinct
  <2> QED BY <1>1, <2>1, <2>2, <2>3, TextFirst DEF Unwritten, Scanning
<1> QED BY <1>1, <1>2, <1>3 DEF Holds, Releasing

(* The list of posts from the record that is written last.                  *)
From(w, f) == [i \in 1 .. RECORD_NUM |-> f[(w + i) % RECORD_NUM]]

LEMMA RecentIs ==
  ASSUME IInv, SoleServer, NEW s \in Servers
  PROVE  /\ Recent = From(LastWritten, file)
         /\ LastWritten = last[s] - (IF Pending THEN 1 ELSE 0)
         /\ LastWritten \in Int /\ last[s] \in Slots \cup {-1} /\ last[s] \in Int
         /\ Recent \in [1 .. RECORD_NUM -> Records]
<1>1. Recent = From(LastWritten, file)
  BY DEF Recent, From
<1>2. LastWritten = last[s] - (IF Pending THEN 1 ELSE 0)
  BY TheServer DEF LastWritten
<1>3. last[s] \in Slots \cup {-1} /\ last[s] \in Int
  BY RecordNum DEF IInv, TypeOK, Slots
<1>4. LastWritten \in Int
  BY <1>2, <1>3
<1>5. ASSUME NEW i \in 1 .. RECORD_NUM PROVE file[(LastWritten + i) % RECORD_NUM] \in Records
  <2>1. (LastWritten + i) % RECORD_NUM \in Slots
    BY <1>4, SlotArith
  <2> QED BY <2>1 DEF IInv, TypeOK
<1> QED BY <1>1, <1>2, <1>3, <1>4, <1>5 DEF From

(* A step that leaves the records, the grants and the end of a request as   *)
(* they are.                                                                *)
LEMMA QuietBoard ==
  ASSUME SoleServer, NEW s \in Servers, NEW a \in Posters,
         PendingMeans, PendingMeans', UNCHANGED <<file, mylock, last>>,
         \/ pc'[s] = pc[s] /\ scan' = scan
         \/ pc[s] # "release" /\ pc'[s] # "release",
         pc'[s] = "down" <=> pc[s] = "down"
  PROVE  UNCHANGED Board!rpVars
<1>1. Pending' <=> Pending
  BY DEF PendingMeans
<1>2. Pending' = Pending
  BY <1>1 DEF Pending, Unwritten, Scanning
<1>3. LastWritten' = LastWritten
  BY <1>1 DEF LastWritten
<1>4. Recent' = Recent
  BY <1>3 DEF Recent
<1>5. (pc[Sole(Servers)] # "down")' = (pc[Sole(Servers)] # "down")
  BY TheServer
<1> QED BY <1>2, <1>4, <1>5 DEF Board!rpVars

(* The scan for a post goes back to the first record: the same list.        *)
LEMMA ReceivePostQuiet ==
  ASSUME IInv, SoleServer, NEW s \in Servers, NEW a \in Posters,
         PendingMeans, PendingMeans', ReceivePost(s)
  PROVE  UNCHANGED Board!rpVars
<1>1. /\ pc[s] = "select" /\ pc'[s] = "post" /\ UNCHANGED <<file, mylock>>
      /\ last'[s] = Wrapped(s)
  BY DEF ReceivePost, Receive, Go, boardVars, IInv, TypeOK
<1>2. Pending' <=> Pending
  BY <1>1 DEF PendingMeans
<1>3. Pending' = Pending
  BY <1>2 DEF Pending, Unwritten, Scanning
<1>4. LastWritten' = last'[s] - (IF Pending THEN 1 ELSE 0)
  BY <1>2, TheServer DEF LastWritten
<1>5. Recent' = From(LastWritten', file)
  BY <1>1 DEF Recent, From
<1>6. From(LastWritten', file) = From(LastWritten, file)
  <2>1. CASE last[s] + 1 = RECORD_NUM
    <3>1. LastWritten' + RECORD_NUM = LastWritten /\ LastWritten' \in Int
      BY <1>1, <1>4, <2>1, RecentIs, RecordNum DEF Wrapped
    <3>2. ASSUME NEW i \in 1 .. RECORD_NUM
          PROVE  (LastWritten' + i) % RECORD_NUM = (LastWritten + i) % RECORD_NUM
      <4>1. LastWritten' + i \in Int /\ (LastWritten' + i) + RECORD_NUM = LastWritten + i
        BY <3>1, RecordNum
      <4> QED BY <4>1, OnceAround
    <3> QED BY <3>2 DEF From
  <2>2. CASE last[s] + 1 # RECORD_NUM
    <3>1. LastWritten' = LastWritten
      BY <1>1, <1>4, <2>2, RecentIs DEF Wrapped
    <3> QED BY <3>1
  <2> QED BY <2>1, <2>2
<1>7. (pc[Sole(Servers)] # "down")' = (pc[Sole(Servers)] # "down")
  BY <1>1, TheServer
<1> QED BY <1>3, <1>5, <1>6, <1>7, RecentIs DEF Board!rpVars

(* The author is given the record of the oldest post.                       *)
LEMMA GrantBegins ==
  ASSUME IInv, SoleServer, SoleAuthor, NEW s \in Servers, NEW a \in Posters,
         FirstVisit(s), PendingMeans, PendingMeans', PostGrant(s)
  PROVE  Board!Begin
<1> DEFINE k == PostSlot(s)
<1>1. /\ pc[s] = "post" /\ pc'[s] = "post" /\ file' = file /\ scan[s].interlk = 0
      /\ k \in Slots
  BY PostSlotIsSlot DEF PostGrant
<1>2. k = last[s] + 1
  <2>1. k = ((last[s] + 1) + 0) % RECORD_NUM
    BY <1>1 DEF FirstVisit, PostSlot
  <2>2. last[s] + 1 \in 0 .. (RECORD_NUM - 1) /\ (last[s] + 1) + 0 = last[s] + 1
    BY <1>1, RecentIs, RecordNum DEF FirstVisit, Slots
  <2> QED BY <2>1, <2>2, RecordNum, Remainder
<1> HIDE DEF k
<1>3. last'[s] = k /\ mylock'[s][k] = 1
  BY <1>1 DEF PostGrant, k, IInv, TypeOK
<1>4. ~Pending
  BY <1>1, NobodyHolds DEF PendingMeans
<1>5. Pending'
  BY <1>1, <1>3 DEF PendingMeans
<1>6. LastWritten' = LastWritten
  <2>1. LastWritten' = last'[s] - 1
    BY <1>5, TheServer DEF LastWritten
  <2> QED BY <1>2, <1>3, <1>4, <2>1, RecentIs
<1>7. Recent' = Recent
  BY <1>1, <1>6 DEF Recent
<1>8. (pc[Sole(Servers)] # "down") /\ (pc[Sole(Servers)] # "down")'
  BY <1>1, TheServer
<1>9. Pending' = TRUE
  BY <1>5 DEF Pending, Unwritten, Scanning
<1> QED BY <1>4, <1>7, <1>8, <1>9 DEF Board!Begin

(* The text of the author takes the place of the oldest post.               *)
LEMMA TextSubmits ==
  ASSUME IInv, SoleServer, SoleAuthor, NEW s \in Servers, NEW a \in Posters,
         PendingMeans, PendingMeans', ReceiveSP(s)
  PROVE  Board!Submit
<1>1. PICK c \in ready[s] :
        /\ Receive(s, c) /\ Head(toServer[c]) = "[SP]"
        /\ file' = [file EXCEPT ![LAST[c]] = Record(c, posts[c], Len(toServer[c]) = 1)]
        /\ scan' = [scan EXCEPT ![s] = [Idle EXCEPT !.fd = c]]
  BY DEF ReceiveSP
<1> DEFINE p == Record(c, posts[c], Len(toServer[c]) = 1)
           l == LAST[c]
<1>2. c \in Clients /\ ServerOf[c] = s /\ pc[s] = "select" /\ link[c] \in Served
  BY <1>1, Received
<1>3. Unwritten(c) /\ Holds(c)
  BY <1>1, <1>2 DEF Holds, Unwritten, Receive
<1>4. c = a /\ l \in Slots /\ last[s] = l
  BY <1>2, <1>3, TheAuthor, OneWriter
<1>5. Pending
  BY <1>3, <1>4, TheAuthor DEF Pending
<1>6. pc'[s] = "release" /\ scan'[s].fd = a /\ last' = last
  BY <1>1, <1>4 DEF ReceiveSP, Go, grantVars, Idle, IInv, TypeOK
<1>7. ~Pending'
  BY <1>6 DEF PendingMeans
<1>8. p \in Records
  <2>1. posts[c] \in 0 .. MaxPosts /\ MaxPosts \in Nat
    BY <1>2, BoardAssumption DEF IInv, TypeOK
  <2> QED BY <1>2, <2>1 DEF Record, Records
<1> HIDE DEF p, l
<1>9. file' = [file EXCEPT ![l] = p] /\ file \in [Slots -> Records]
  BY <1>1 DEF p, l, IInv, TypeOK
<1>10. LastWritten = l - 1 /\ LastWritten' = l /\ l \in Int
  <2>1. LastWritten' = last'[s] - 0
    BY <1>7, TheServer DEF LastWritten
  <2> QED BY <1>4, <1>5, <1>6, <2>1, RecentIs, SlotItself
<1>11. ASSUME NEW i \in 1 .. RECORD_NUM
       PROVE  file'[(l + i) % RECORD_NUM] = IF i = RECORD_NUM THEN p ELSE Recent[i + 1]
  <2>1. CASE i = RECORD_NUM
    BY <1>4, <1>9, <2>1, SlotItself
  <2>2. CASE i # RECORD_NUM
    <3>1. i \in 1 .. RECORD_NUM - 1 /\ i + 1 \in 1 .. RECORD_NUM
      BY <2>2, RecordNum
    <3>2. (l + i) % RECORD_NUM # l /\ (l + i) % RECORD_NUM \in Slots
      BY <1>4, <1>10, <3>1, NotAround, SlotArith
    <3>3. Recent[i + 1] = file[(LastWritten + (i + 1)) % RECORD_NUM]
      BY <3>1 DEF Recent
    <3>4. LastWritten + (i + 1) = l + i
      BY <1>10, <3>1
    <3> QED BY <1>9, <2>2, <3>2, <3>3, <3>4
  <2> QED BY <2>1, <2>2
<1>12. Recent' = Append(Tail(Recent), p)
  <2>1. Append(Tail(Recent), p) =
          [i \in 1 .. RECORD_NUM |-> IF i = RECORD_NUM THEN p ELSE Recent[i + 1]]
    <3>1. PICK q \in [1 .. RECORD_NUM -> Records] : q = Recent
      BY RecentIs, Zenon
    <3>2. Append(Tail(q), p) =
            [i \in 1 .. RECORD_NUM |-> IF i = RECORD_NUM THEN p ELSE q[i + 1]]
      BY <1>8, NewPost
    <3> QED BY <3>1, <3>2, Zenon
  <2>2. Recent' = [i \in 1 .. RECORD_NUM |-> file'[(l + i) % RECORD_NUM]]
    BY <1>10 DEF Recent
  <2> QED BY <1>11, <2>1, <2>2
<1>13. (pc[Sole(Servers)] # "down") /\ (pc[Sole(Servers)] # "down")'
  BY <1>2, <1>6, TheServer
<1>14. Pending' = FALSE
  BY <1>7 DEF Pending, Unwritten, Scanning
<1> QED BY <1>5, <1>8, <1>12, <1>13, <1>14 DEF Board!Submit

(* The release after it changes nothing that is seen.                       *)
LEMMA ReleaseQuiet ==
  ASSUME IInv, SoleServer, SoleAuthor, NEW s \in Servers, NEW a \in Posters,
         PendingMeans, PendingMeans', Release(s)
  PROVE  UNCHANGED Board!rpVars
<1>0. pc[s] = "release" /\ pc'[s] = "select" /\ UNCHANGED <<file, last>>
  BY DEF Release, Go, IInv, TypeOK
<1>1. last[s] \in Slots /\ scan[s].fd = a
  <2>1. scan[s].fd \in Posters /\ scan[s].fd \in Clients /\ ServerOf[scan[s].fd] = s
    BY <1>0, AtRequest
  <2>2. Holds(scan[s].fd)
    BY <1>0, <2>1 DEF Holds, Releasing
  <2> QED BY <2>1, <2>2, TheAuthor, OneWriter
<1>2. ~Pending
  BY <1>0, <1>1 DEF PendingMeans
<1>3. ASSUME NEW k \in Slots PROVE mylock'[s][k] = 0
  <2>1. last[s] # -1
    BY <1>1, RecordNum DEF Slots
  <2>2. mylock' = [mylock EXCEPT ![s][last[s]] = 0] /\ mylock \in [Servers -> [Slots -> {0, 1}]]
    BY <2>1 DEF Release, IInv, TypeOK
  <2>3. mylock[s][k] = 1 => k = last[s]
    BY OneWriter
  <2>4. mylock[s][k] \in {0, 1}
    BY <2>2
  <2> QED BY <1>1, <2>2, <2>3, <2>4
<1>4. ~Pending'
  BY <1>3 DEF PendingMeans
<1>5. Pending' = Pending
  BY <1>2, <1>4 DEF Pending, Unwritten, Scanning
<1>6. Recent' = Recent
  <2>1. LastWritten' = LastWritten
    BY <1>0, <1>2, <1>4 DEF LastWritten
  <2> QED BY <1>0, <2>1 DEF Recent
<1>7. (pc[Sole(Servers)] # "down")' = (pc[Sole(Servers)] # "down")
  BY <1>0, TheServer
<1> QED BY <1>5, <1>6, <1>7 DEF Board!rpVars

(* The server ends: a pending post is given up, and the list begins at      *)
(* another place of the circle.                                             *)
LEMMA DieStops ==
  ASSUME IInv, SoleServer, NEW s \in Servers, NEW a \in Posters,
         PendingMeans', Die(s), pc[s] # "down"
  PROVE  Board!Stop
<1>1. pc'[s] = "down" /\ last'[s] = -1 /\ file' = file
  BY DEF Die, Go, IInv, TypeOK
<1>2. \A k \in Slots : mylock'[s][k] = 0
  BY DEF Die, IInv, TypeOK
<1>3. ~Pending'
  BY <1>2 DEF PendingMeans
<1>4. LastWritten' = -1
  <2>1. LastWritten' = last'[s] - 0
    BY <1>3, TheServer DEF LastWritten
  <2> QED BY <1>1, <2>1
<1>5. Recent' = From(-1, file)
  BY <1>1, <1>4 DEF Recent, From
<1> DEFINE w == LastWritten
           m == -(w + 1)
           k == m % RECORD_NUM
<1>6. w \in Int /\ m \in Int /\ k \in 0 .. RECORD_NUM - 1 /\ k \in Int
  BY RecentIs, RecordNum, DivMod
<1>7. ASSUME NEW i \in 1 .. RECORD_NUM
      PROVE  (-1 + i) % RECORD_NUM = (w + (((i - 1 + k) % RECORD_NUM) + 1)) % RECORD_NUM
  <2> HIDE DEF w
  <2>1. (i - 1 + k) % RECORD_NUM \in Int /\ i - 1 + k \in Int /\ i - 1 \in Int /\ w + i \in Int
    BY <1>6, RecordNum, DivMod
  <2>2. (((i - 1 + k) % RECORD_NUM) + (w + 1)) % RECORD_NUM = ((i - 1 + k) + (w + 1)) % RECORD_NUM
    BY <1>6, <2>1, FromSlot
  <2>3. (k + (w + i)) % RECORD_NUM = (m + (w + i)) % RECORD_NUM
    BY <1>6, <2>1, FromSlot
  <2> HIDE DEF k
  <2>4. (i - 1 + k) + (w + 1) = k + (w + i) /\ m + (w + i) = -1 + i
    BY <1>6, <2>1
  <2>5. w + (((i - 1 + k) % RECORD_NUM) + 1) = ((i - 1 + k) % RECORD_NUM) + (w + 1)
    BY <1>6, <2>1
  <2> QED BY <2>2, <2>3, <2>4, <2>5
<1> HIDE DEF w, m, k
<1>8. ASSUME NEW i \in 1 .. RECORD_NUM
      PROVE  Recent[((i - 1 + k) % RECORD_NUM) + 1] = file[(-1 + i) % RECORD_NUM]
  <2>1. ((i - 1 + k) % RECORD_NUM) + 1 \in 1 .. RECORD_NUM
    BY <1>6, RecordNum, DivMod
  <2>2. \A j \in 1 .. RECORD_NUM : Recent[j] = file[(w + j) % RECORD_NUM]
    BY DEF Recent, w
  <2> QED BY <1>7, <2>1, <2>2
<1>9. Recent' = [i \in 1 .. RECORD_NUM |-> Recent[((i - 1 + k) % RECORD_NUM) + 1]]
  BY <1>5, <1>8 DEF From
<1>10. (pc[Sole(Servers)] # "down") /\ ~(pc[Sole(Servers)] # "down")'
  BY <1>1, TheServer
<1>11. Pending' = FALSE
  BY <1>3 DEF Pending, Unwritten, Scanning
<1> QED BY <1>6, <1>9, <1>10, <1>11 DEF Board!Stop

(* It is started again.                                                     *)
LEMMA RestartStarts ==
  ASSUME IInv, SoleServer, NEW s \in Servers, NEW a \in Posters,
         PendingMeans, PendingMeans', Restart(s)
  PROVE  Board!Start
<1>1. pc[s] = "down" /\ pc'[s] = "select" /\ UNCHANGED <<file, mylock, last>>
  BY DEF Restart, Go, boardVars, grantVars, IInv, TypeOK
<1>2. Pending' <=> Pending
  BY <1>1 DEF PendingMeans
<1>3. Pending' = Pending
  BY <1>2 DEF Pending, Unwritten, Scanning
<1>4. Recent' = Recent
  <2>1. LastWritten' = LastWritten
    BY <1>1, <1>2 DEF LastWritten
  <2> QED BY <1>1, <2>1 DEF Recent
<1>5. ~(pc[Sole(Servers)] # "down") /\ (pc[Sole(Servers)] # "down")'
  BY <1>1, TheServer
<1>6. (pc[Sole(Servers)] # "down")' = TRUE
  BY <1>5
<1> QED BY <1>3, <1>4, <1>5, <1>6 DEF Board!Start

(* Every step of the program is a step of the list, or changes nothing that *)
(* is seen of it.                                                           *)
LEMMA BoardStep ==
  ASSUME SoleAuthorInv, SoleServer, SoleAuthor, Posters # {},
         PendingMeans, PendingMeans', [Next]_vars
  PROVE  [Board!RPNext]_(Board!rpVars)
<1>1. PICK a \in Posters : TRUE
  OBVIOUS
<1>2. PICK s \in Servers : s = ServerOf[a]
  BY <1>1, BoardAssumption
<1>3. IInv /\ FirstVisit(s)
  BY DEF SoleAuthorInv, SoleServerInv
<1>4. CASE ClientSteps \/ UNCHANGED vars
  <2>1. UNCHANGED <<file, mylock, last, pc, scan>>
    BY <1>4, ClientsQuiet DEF vars, boardVars, grantVars, serverVars
  <2> QED BY <1>1, <2>1, QuietBoard
<1>5. CASE \/ Select(s) \/ SelectTimeout(s) \/ Accept(s)
           \/ ReceiveExit(s) \/ ReceiveOther(s) \/ ReceivePull(s)
  <2>1. UNCHANGED <<file, mylock, last>> /\ pc[s] = "select" /\ pc'[s] \in {"select", "try"}
    BY <1>3, <1>5 DEF Select, SelectTimeout, Accept, ReceiveExit, ReceiveOther, ReceivePull,
       Receive, Go, vars, boardVars, grantVars, serverVars, IInv, TypeOK
  <2> QED BY <1>1, <2>1, QuietBoard
<1>6. CASE PostLocked(s) \/ PostExtra(s) \/ PostReply(s)
  <2>1. UNCHANGED <<file, mylock, last>> /\ pc[s] = "post" /\ pc'[s] \in {"select", "post"}
    BY <1>3, <1>6 DEF PostLocked, PostExtra, PostReply, Reply, Go, boardVars, grantVars, IInv, TypeOK
  <2> QED BY <1>1, <2>1, QuietBoard
<1>7. CASE PullLocked(s) \/ PullLock(s) \/ PullUnlock(s) \/ PullRead(s) \/ PullReply(s)
  <2>1. /\ UNCHANGED <<file, mylock, last>> /\ pc[s] \in {"try", "unlock", "read"}
        /\ pc'[s] \in {"select", "try", "unlock", "read"}
    BY <1>3, <1>7 DEF PullLocked, PullLock, PullUnlock, PullRead, PullReply, Reply, Go,
       boardVars, grantVars, IInv, TypeOK
  <2> QED BY <1>1, <2>1, QuietBoard
<1>8. CASE ReceivePost(s) \/ Release(s)
  BY <1>1, <1>3, <1>8, ReceivePostQuiet, ReleaseQuiet
<1>9. CASE PostGrant(s)
  BY <1>1, <1>3, <1>9, GrantBegins DEF Board!RPNext
<1>10. CASE ReceiveSP(s)
  BY <1>1, <1>3, <1>10, TextSubmits DEF Board!RPNext
<1>11. CASE ReceiveFails(s) \/ Crash(s)
  <2>1. Die(s) /\ pc[s] # "down"
    BY <1>11 DEF ReceiveFails, Crash
  <2> QED BY <1>1, <1>3, <2>1, DieStops DEF Board!RPNext
<1>12. CASE Restart(s)
  BY <1>1, <1>3, <1>12, RestartStarts DEF Board!RPNext
<1>13. Next => ClientSteps \/ Server(s) \/ SelectTimeout(s) \/ Crash(s) \/ Restart(s)
  BY TheServer DEF Next, ClientSteps
<1> QED BY <1>4, <1>5, <1>6, <1>7, <1>8, <1>9, <1>10, <1>11, <1>12, <1>13 DEF Server

LEMMA BoardInit ==
  ASSUME Init, SoleServer, SoleAuthor, Posters # {} PROVE Board!RPInit
<1>1. PICK a \in Posters : TRUE
  OBVIOUS
<1>2. PICK s \in Servers : s = ServerOf[a]
  BY <1>1, BoardAssumption
<1>3. IInv
  BY InitInv
<1>4. ~Pending
  BY <1>1, <1>3, PendingIs DEF PendingMeans, Init
<1>5. Pending = FALSE
  BY <1>4 DEF Pending, Unwritten, Scanning
<1>6. Recent \in [1 .. RECORD_NUM -> Records]
  BY <1>3, RecentIs
<1>7. (pc[Sole(Servers)] # "down") = TRUE
  BY TheServer DEF Init
<1> QED BY <1>5, <1>6, <1>7 DEF Board!RPInit

(* With one server and one author the board is the list of the last         *)
(* RECORD_NUM posts: a post replaces the oldest one, and the end of a       *)
(* server loses no post but the one that is being written.                  *)
THEOREM BoardKeepsPosts ==
  ASSUME SoleAuthor, SoleServer, Posters # {}
  PROVE  Spec => KeepsRecentPosts
<1>1. Init => Board!RPInit
  BY BoardInit
<1>2. SoleAuthorInv => PendingMeans
  BY PendingIs DEF SoleAuthorInv, SoleServerInv
<1>3. SoleAuthorInv /\ PendingMeans /\ PendingMeans' /\ [Next]_vars
        => [Board!RPNext]_(Board!rpVars)
  BY BoardStep
<1> QED BY <1>1, <1>2, <1>3, AuthorInvariance, PTL DEF Spec, KeepsRecentPosts, Board!RPSpec
=============================================================================
