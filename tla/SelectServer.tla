----------------------------- MODULE SelectServer -----------------------------
(***************************************************************************)
(* The echo server of src/C/unclassify/server.c: one thread, select, and a *)
(* table of the connections by descriptor.  Peers connect, send and close  *)
(* at any time.                                                            *)
(***************************************************************************)
EXTENDS Integers, SequencesExt

CONSTANTS
    CLIENTSIZE,
    Conns,          \* the connections that peers may make
    server_listen   \* the descriptor of the socket that listens

Fds == 0 .. CLIENTSIZE + 1
Slots == 0 .. CLIENTSIZE - 1

VARIABLES
    desc,           \* the table of the process: what a descriptor is open for
    client,
    rfds,           \* the descriptors that select found, and still to look at
    backlog,        \* the connections that are not accepted
    peer,           \* what the peer has done: "new", "connected", "closed"
    data,           \* the connections with bytes to receive
    stopped,        \* what ended the server, "no" while it runs
    ended           \* history: the connections that were seen to end

vars == <<desc, client, rfds, backlog, peer, data, stopped, ended>>

Init ==
    /\ desc = [fd \in Fds |-> CASE fd < 3 -> "std"
                                [] fd = server_listen -> "listen"
                                [] OTHER -> "free"]
    /\ client = [i \in Slots |-> -1]
    /\ rfds = {}
    /\ backlog = << >>
    /\ peer = [c \in Conns |-> "new"]
    /\ data = {}
    /\ stopped = "no"
    /\ ended = {}
-----------------------------------------------------------------------------
Connect(c) ==
    /\ peer[c] = "new"
    /\ peer' = [peer EXCEPT ![c] = "connected"]
    /\ backlog' = Append(backlog, c)
    /\ UNCHANGED <<desc, client, rfds, data, stopped, ended>>

Send(c) ==
    /\ peer[c] = "connected"
    /\ data' = data \cup {c}
    /\ UNCHANGED <<desc, client, rfds, backlog, peer, stopped, ended>>

Close(c) ==
    /\ peer[c] = "connected"
    /\ peer' = [peer EXCEPT ![c] = "closed"]
    /\ UNCHANGED <<desc, client, rfds, backlog, data, stopped, ended>>
-----------------------------------------------------------------------------
Watched == {client[i] : i \in {j \in Slots : client[j] > 0 /\ client[j] # server_listen}}

Readable(fd) ==
    \/ fd = server_listen /\ backlog # << >>
    \/ desc[fd] \in Conns /\ (desc[fd] \in data \/ peer[desc[fd]] = "closed")

(* main returns 1 where select or accept fails, and a signal ends it where *)
(* it writes to a peer that has closed.                                    *)
Stops(reason) ==
    /\ stopped' = reason
    /\ UNCHANGED <<desc, client, rfds, backlog, peer, data, ended>>

BrokenPipe(fd) == desc[fd] \in Conns /\ peer[desc[fd]] = "closed" /\ Stops("pipe")

(* The sets are built from the table.  A descriptor in it that is not open *)
(* makes select fail, and so may other things.                             *)
Select ==
    /\ rfds = {}
    /\ \/ (\E fd \in Watched : desc[fd] = "free") /\ Stops("badfd")
       \/ /\ \A fd \in Watched : desc[fd] # "free"
          /\ \/ Stops("select")
             \/ /\ rfds' = {fd \in Watched \cup {server_listen} : Readable(fd)}
                /\ rfds' # {}
                /\ UNCHANGED <<desc, client, backlog, peer, data, stopped, ended>>

MutEntered(sockfd) ==
    LET i == Min({j \in Slots : client[j] = -1})
    IN  [client EXCEPT ![i] = sockfd]

Entered(sockfd) ==
    IF client[sockfd] = -1 THEN [client EXCEPT ![sockfd] = sockfd] ELSE client

(* The new descriptor is the lowest there is.  One too many is closed; of  *)
(* descriptor CLIENTSIZE the entry is behind the table, where what is      *)
(* found and written is not known and no one looks for it.                 *)
Accept ==
    LET sockfd == Min({fd \in Fds : desc[fd] = "free"})
    IN  /\ server_listen \in rfds
        /\ \/ Stops("accept")
           \/ /\ rfds' = rfds \ {server_listen}
              /\ backlog' = Tail(backlog)
              /\ desc' = IF sockfd > CLIENTSIZE THEN desc
                         ELSE [desc EXCEPT ![sockfd] = Head(backlog)]
              /\ client' = IF sockfd < CLIENTSIZE THEN Entered(sockfd) ELSE client
              /\ UNCHANGED <<peer, data, stopped, ended>>

(* recv on the next descriptor that was found: what it gets is sent back;  *)
(* at the end of the connection, or when the peer that closed has reset    *)
(* it, its entry is cleared, and descriptor 1 is closed in place of its    *)
(* own.                                                                    *)
Recv(i) ==
    /\ server_listen \notin rfds
    /\ i \in rfds /\ \A j \in rfds : i <= j
    /\ \/ /\ desc[i] \in data
          /\ \/ BrokenPipe(i)
             \/ /\ data' = data \ {desc[i]}
                /\ rfds' = rfds \ {i}
                /\ UNCHANGED <<desc, client, backlog, peer, stopped, ended>>
       \/ /\ desc[i] \in Conns
          /\ desc[i] \notin data \/ peer[desc[i]] = "closed"
          /\ rfds' = rfds \ {i}
          /\ client' = [client EXCEPT ![i] = -1]
          /\ desc' = [desc EXCEPT ![1] = "free"]
          /\ ended' = ended \cup {desc[i]}
          /\ UNCHANGED <<backlog, peer, data, stopped>>

(* What printf writes goes to descriptor 1, which may be a connection.     *)
Flush == rfds # {} /\ BrokenPipe(1)

Next ==
    \/ \E c \in Conns : Connect(c) \/ Send(c) \/ Close(c)
    \/ /\ stopped = "no"
       /\ Select \/ Accept \/ Flush \/ \E i \in Slots \ {server_listen} : Recv(i)

Spec == Init /\ [][Next]_vars
-----------------------------------------------------------------------------
(* The table and the descriptors agree, whoever came, sent and left in     *)
(* between: an entry is the descriptor it is found by, of a connection     *)
(* that has not ended, and each such connection with a descriptor inside   *)
(* the table has its entry.  The one that close(1) took from its owner is  *)
(* the only other, and the only one that select refuses; the server also   *)
(* ends where select is interrupted, accept fails or a peer has closed     *)
(* before it is written to (server.c:34-85).                               *)
TableIsConnections ==
    /\ \A i \in Slots :
          client[i] # -1 => /\ client[i] = i
                            /\ \/ desc[i] \in Conns \ ended
                               \/ i = 1 /\ desc[1] = "free"
    /\ \A fd \in Slots : desc[fd] \in Conns \ ended => client[fd] = fd
    /\ stopped = "badfd" => client[1] = 1 /\ desc[1] = "free"
=============================================================================
