-------------------------------- MODULE Tcp --------------------------------
(***************************************************************************)
(* The TCP of src/drivers/net.c, on two hosts that both run it.            *)
(*                                                                         *)
(* Every function here holds net_lock, so that each call of a program,     *)
(* each segment handled and each timer of net_poll is one step of its      *)
(* host.  The network may lose, duplicate and reorder segments; that one    *)
(* stays in it for longer than TCP_RETRANS_MS is a fault, too ("early": the *)
(* timer of net_poll runs out before).  The window field of a segment is   *)
(* left out: the code sends it and never reads it.  A Mectov host sends no *)
(* RST; `Forge` is what a middlebox may do.                                *)
(*                                                                         *)
(* A client makes one connection to a server, and byte n of the stream a   *)
(* program sends is the number n.  sent, got and cut are history.          *)
(***************************************************************************)
EXTENDS Tables, Sequences, FiniteSets

CONSTANTS Client, Server, \* the two hosts
          Slot,           \* Slot[h]: the slots of tcp_conns[] on h
          PORT,           \* the port the server listens on
          Ephemeral,      \* the client's tcp_port_counter
          Isn,            \* Isn[h]: the first initial sequence number of h
          STEP,           \* how far the next one is from it
          MOD,            \* 2^32: sequence numbers wrap
          BUF,            \* TCP_CONN_BUF, in bytes
          MSS,            \* 1460: less free room than this is a tight window
          RETRANS_MAX,    \* TCP_RETRANS_MAX
          Writes,         \* bound: bytes the program of each host sends
          MaxLen,         \* bound: bytes in one net_tcp_send (1400 in the code)
          MaxFaults,      \* bound: faults of the network in one behaviour
          Faults          \* their kinds: "loss", "dup", "early", "reset"

Host == {Client, Server}
Peer(h) == IF h = Client THEN Server ELSE Client

ASSUME TcpAssumption ==
  /\ Client # Server /\ None \notin Host /\ PORT # Ephemeral
  /\ \A h \in Host : Slot[h] \subseteq Nat /\ IsFiniteSet(Slot[h]) /\ Slot[h] # {}
  /\ Isn \in [Host -> 0 .. MOD - 1]
  /\ STEP \in Nat /\ MOD \in Nat \ {0} /\ BUF \in Nat /\ MSS \in Nat /\ RETRANS_MAX \in Nat
  /\ MaxLen \in Nat /\ MaxFaults \in Nat /\ Faults \subseteq {"loss", "dup", "early", "reset"}
  /\ Writes \in [Host -> Nat]

VARIABLES
  conns,   \* conns[h]: tcp_conns[] of h
  ready,   \* ready[h]: net_ready, the gateway's MAC is known
  pending, \* pending[h]: pending_tcp_id, the connect queued until then
  held,    \* held[h]: the connection ids the program of h holds
  net,     \* segments in flight
  faults,  \* faults left to the network
  isn,     \* isn[h]: the next initial sequence number of h
  sent,    \* sent[h]: bytes the program of h has sent
  stored,  \* stored[h]: how many of them its peer has put into a receive buffer
  got,     \* got[h]: what the program of its peer has received
  cut      \* hosts that closed with a segment not acknowledged, or were reset

hist == <<sent, stored, got, cut>>
tcpVars == <<conns, ready, pending, held, net, faults, isn, sent, stored, got, cut>>

Plus(a, n) == (a + n) % MOD

\* memset(c, 0, sizeof(tcp_conn_t))
Zero == [in_use |-> FALSE, state |-> "CLOSED", lport |-> 0, rport |-> 0, seq |-> 0, ack |-> 0,
         rx |-> <<>>, eof |-> FALSE, tx |-> <<>>, unacked_seq |-> 0, retrans |-> 0,
         parent |-> None, accepted |-> FALSE]

Closed(c) == [c EXCEPT !.state = "CLOSED", !.in_use = FALSE]

Free(h) == {i \in Slot[h] : ~conns[h][i].in_use}

\* net_send_tcp_segment: a segment of c, or nothing before net_ready
Segment(h, c, flags, data) ==
  IF ready[h]
  THEN {[src |-> h, sport |-> c.lport, dport |-> c.rport, flags |-> flags,
         seq |-> c.seq, ack |-> c.ack, data |-> data]}
  ELSE {}

Set(h, i, c) == conns' = [conns EXCEPT ![h][i] = c]

-----------------------------------------------------------------------------
(* The calls of programs.                                                  *)

\* tcp_start_conn, up to and with the SYN's sequence number
Started(h, c) ==
  [c EXCEPT !.rport = PORT, !.seq = isn[h], !.ack = 0, !.rx = <<>>, !.eof = FALSE,
            !.tx = <<>>, !.retrans = 0, !.state = "SYN_SENT"]

Advance(h) == isn' = [isn EXCEPT ![h] = Plus(@, STEP)]

StartConn(h, i, c, out) ==
  /\ Set(h, i, [Started(h, c) EXCEPT !.seq = Plus(@, 1)])
  /\ net' = net \cup out
  /\ Advance(h)

net_tcp_connect(h) ==
  /\ h = Client /\ held[h] = {} /\ \A i \in Slot[h] : conns[h][i] = Zero
  /\ LET i == First(Free(h))
         c == [Zero EXCEPT !.in_use = TRUE, !.lport = Ephemeral]
     IN  /\ \/ /\ ready[h]
               /\ StartConn(h, i, c, Segment(h, Started(h, c), {"SYN"}, <<>>))
               /\ UNCHANGED pending
            \/ /\ ~ready[h]
               /\ Set(h, i, c)
               /\ pending' = [pending EXCEPT ![h] = i]
               /\ UNCHANGED <<net, isn>>
         /\ held' = [held EXCEPT ![h] = @ \cup {i}]
  /\ UNCHANGED <<ready, faults, hist>>

net_tcp_listen(h) ==
  /\ h = Server /\ held[h] = {} /\ \A i \in Slot[h] : conns[h][i] = Zero
  /\ LET i == First(Free(h))
     IN  /\ Set(h, i, [Zero EXCEPT !.in_use = TRUE, !.state = "LISTEN", !.lport = PORT,
                                   !.seq = isn[h]])
         /\ held' = [held EXCEPT ![h] = @ \cup {i}]
  /\ UNCHANGED <<ready, pending, net, faults, isn, hist>>

net_tcp_accept(h, l) ==
  /\ l \in held[h]
  /\ LET done == {i \in Slot[h] : /\ conns[h][i].in_use /\ ~conns[h][i].accepted
                                  /\ conns[h][i].parent = l
                                  /\ conns[h][i].state = "ESTABLISHED"}
     IN  /\ done # {}
         /\ Set(h, First(done), [conns[h][First(done)] EXCEPT !.accepted = TRUE])
         /\ held' = [held EXCEPT ![h] = @ \cup {First(done)}]
  /\ UNCHANGED <<ready, pending, net, faults, isn, hist>>

\* One segment at most is outstanding; until it is acknowledged the call returns 0.
net_tcp_send(h, i, n) ==
  /\ i \in held[h] /\ conns[h][i].in_use /\ conns[h][i].state = "ESTABLISHED"
  /\ conns[h][i].tx = <<>>
  /\ sent[h] + n <= Writes[h]
  /\ LET c == conns[h][i]
         data == [k \in 1 .. n |-> sent[h] + k]
     IN  /\ Set(h, i, [c EXCEPT !.unacked_seq = c.seq, !.tx = data, !.retrans = 0,
                                !.seq = Plus(@, n)])
         /\ net' = net \cup Segment(h, c, {"ACK"}, data)
  /\ sent' = [sent EXCEPT ![h] = @ + n]
  /\ UNCHANGED <<ready, pending, held, faults, isn, stored, got, cut>>

\* The program takes n bytes; a window that was tight and opens is announced.
net_tcp_recv(h, i, n) ==
  /\ i \in held[h] /\ conns[h][i].in_use /\ conns[h][i].state # "CLOSED"
  /\ n <= Len(conns[h][i].rx)
  /\ LET c == conns[h][i]
         drained == [c EXCEPT !.rx = SubSeq(@, n + 1, Len(@))]
     IN  /\ Set(h, i, drained)
         /\ net' = net \cup
              IF /\ BUF - Len(c.rx) < MSS /\ BUF - Len(drained.rx) >= MSS
                 /\ c.state \in {"ESTABLISHED", "CLOSE_WAIT"}
              THEN Segment(h, drained, {"ACK"}, <<>>) ELSE {}
         /\ got' = [got EXCEPT ![Peer(h)] = @ \o SubSeq(c.rx, 1, n)]
  /\ UNCHANGED <<ready, pending, held, faults, isn, sent, stored, cut>>

\* A FIN and its sequence number, or the slot is freed.
net_tcp_close(h, i) ==
  /\ i \in held[h]
  /\ LET c == conns[h][i]
         fin == [c EXCEPT !.seq = Plus(@, 1)]
     IN  \/ /\ ~c.in_use
            /\ UNCHANGED <<conns, net>>
         \/ /\ c.in_use /\ c.state = "ESTABLISHED"
            /\ Set(h, i, [fin EXCEPT !.state = "FIN_WAIT_1"])
            /\ net' = net \cup Segment(h, c, {"ACK", "FIN"}, <<>>)
         \/ /\ c.in_use /\ c.state = "CLOSE_WAIT"
            /\ Set(h, i, [fin EXCEPT !.state = "LAST_ACK"])
            /\ net' = net \cup Segment(h, c, {"ACK", "FIN"}, <<>>)
         \/ /\ c.in_use /\ c.state \notin {"ESTABLISHED", "CLOSE_WAIT"}
            /\ Set(h, i, Closed(c))
            /\ UNCHANGED net
  /\ held' = [held EXCEPT ![h] = @ \ {i}]
  /\ cut' = IF conns[h][i].tx # <<>> THEN cut \cup {h} ELSE cut
  /\ UNCHANGED <<ready, pending, faults, isn, sent, stored, got>>

-----------------------------------------------------------------------------
(* net_handle_tcp, for a segment s that has reached its host.  A stage maps *)
(* the connection to what it is after the stage.                            *)

\* Broken: an ACK of what came before the segment clears it.
AckClears_Early(c, s) ==
  IF "ACK" \in s.flags /\ c.tx # <<>> /\ s.ack >= c.unacked_seq
  THEN [c EXCEPT !.tx = <<>>, !.retrans = 0] ELSE c

\* ACK of our sent data clears the retransmit state.
AckClears(c, s) ==
  IF "ACK" \in s.flags /\ c.tx # <<>> /\ s.ack >= Plus(c.unacked_seq, Len(c.tx))
  THEN [c EXCEPT !.tx = <<>>, !.retrans = 0] ELSE c

\* Data is acknowledged if it comes in order and fits; any other is re-ACKed.
Carries(c, s) == s.data # <<>> /\ c.state \in {"ESTABLISHED", "CLOSE_WAIT"}
Fits(c, s) == Carries(c, s) /\ s.seq = c.ack /\ Len(c.rx) + Len(s.data) <= BUF

\* Broken, as before v38.83: data that does not fit is acknowledged all the same.
Store_AcksAll(c, s) ==
  IF Carries(c, s) /\ s.seq = c.ack
  THEN [c EXCEPT !.rx = IF Fits(c, s) THEN @ \o s.data ELSE @, !.ack = Plus(s.seq, Len(s.data))]
  ELSE c

\* Broken: a retransmitted segment is stored again.
Store_Twice(c, s) ==
  IF Carries(c, s) /\ Len(c.rx) + Len(s.data) <= BUF
  THEN [c EXCEPT !.rx = @ \o s.data, !.ack = Plus(s.seq, Len(s.data))] ELSE c

Store(c, s) ==
  IF Fits(c, s) THEN [c EXCEPT !.rx = @ \o s.data, !.ack = Plus(s.seq, Len(s.data))] ELSE c

\* The ACK covers our FIN.
FinAcked(c, s) ==
  IF c.state \in {"FIN_WAIT_1", "LAST_ACK"} /\ "ACK" \in s.flags /\ s.ack >= c.seq
  THEN IF c.state = "LAST_ACK" \/ "FIN" \in s.flags THEN Closed(c)
       ELSE [c EXCEPT !.state = "FIN_WAIT_2"]
  ELSE c

\* Peer FIN: it is taken wherever it stands in the stream.
TakesFin(c, s) == /\ "FIN" \in s.flags /\ c.in_use
                  /\ c.state \in {"ESTABLISHED", "CLOSE_WAIT", "FIN_WAIT_2"}
PeerFin(c, s) ==
  IF ~TakesFin(c, s) THEN c
  ELSE LET a == Plus(s.seq, Len(s.data) + 1)
       IN  IF c.state = "FIN_WAIT_2" THEN [Closed(c) EXCEPT !.ack = a]
           ELSE [c EXCEPT !.state = "CLOSE_WAIT", !.ack = a, !.eof = TRUE]

\* air is what else is in flight.  A segment for a connection past its handshake
Synchronized(h, i, s, air) ==
  LET c0 == conns[h][i]
      c1 == AckClears(c0, s)
      c2 == Store(c1, s)
      c3 == FinAcked(c2, s)
      c4 == PeerFin(c3, s)
      n  == Len(c2.rx) - Len(c1.rx)
  IN  /\ c0.state \in {"ESTABLISHED", "FIN_WAIT_1", "FIN_WAIT_2", "CLOSE_WAIT", "LAST_ACK"}
      /\ Set(h, i, c4)
      /\ stored' = [stored EXCEPT ![Peer(h)] = @ + n]
      /\ net' = (air \cup IF Carries(c1, s) THEN Segment(h, c2, {"ACK"}, <<>>) ELSE {})
                     \cup IF TakesFin(c3, s) THEN Segment(h, c4, {"ACK"}, <<>>) ELSE {}
      /\ UNCHANGED isn

SynSent(h, i, s, air) ==
  /\ conns[h][i].state = "SYN_SENT"
  /\ LET c == conns[h][i]
         up == [c EXCEPT !.ack = Plus(s.seq, 1), !.seq = s.ack, !.state = "ESTABLISHED", !.retrans = 0]
     IN  IF {"SYN", "ACK"} \subseteq s.flags /\ s.ack \in {c.seq, Plus(c.seq, 1)}
         THEN Set(h, i, up) /\ net' = air \cup Segment(h, up, {"ACK"}, <<>>)
         ELSE UNCHANGED conns /\ net' = air
  /\ UNCHANGED <<isn, stored>>

\* A repeated SYN is answered and takes the sequence number of the child along.
SynRcvd(h, i, s, air) ==
  /\ conns[h][i].state = "SYN_RCVD"
  /\ LET c == conns[h][i]
     IN  \/ /\ "ACK" \in s.flags /\ "SYN" \notin s.flags /\ s.ack = c.seq
            /\ Set(h, i, [c EXCEPT !.state = "ESTABLISHED", !.retrans = 0])
            /\ net' = air
         \/ /\ "SYN" \in s.flags
            /\ Set(h, i, [c EXCEPT !.seq = Plus(s.seq, 1)])
            /\ net' = air \cup Segment(h, c, {"SYN", "ACK"}, <<>>)
         \/ /\ "SYN" \notin s.flags /\ ("ACK" \notin s.flags \/ s.ack # c.seq)
            /\ UNCHANGED conns /\ net' = air
  /\ UNCHANGED <<isn, stored>>

Matching(h, s) == {i \in Slot[h] : LET c == conns[h][i]
                                   IN  c.in_use /\ c.lport = s.dport /\ c.rport = s.sport}
Listening(h, s) == {i \in Slot[h] : LET c == conns[h][i]
                                    IN  c.in_use /\ c.state = "LISTEN" /\ c.lport = s.dport}

\* A SYN to a listener takes a free slot for a child; without one it is dropped.
Spawn(h, s, air) ==
  /\ "SYN" \in s.flags /\ Listening(h, s) # {} /\ Free(h) # {}
  /\ LET l == First(Listening(h, s))
         child == [Zero EXCEPT !.in_use = TRUE, !.state = "SYN_RCVD", !.lport = conns[h][l].lport,
                               !.rport = s.sport, !.seq = isn[h], !.ack = Plus(s.seq, 1),
                               !.parent = l]
     IN  /\ Set(h, First(Free(h)), [child EXCEPT !.seq = Plus(@, 1)])
         /\ net' = air \cup Segment(h, child, {"SYN", "ACK"}, <<>>)
  /\ Advance(h)
  /\ UNCHANGED stored

Dropped(h, s, air) ==
  /\ "SYN" \notin s.flags \/ Listening(h, s) = {} \/ Free(h) = {}
  /\ net' = air /\ UNCHANGED <<conns, isn, stored>>

\* RST frees the slot, whoever holds its id.
Reset(h, i, s, air) ==
  /\ "RST" \in s.flags
  /\ Set(h, i, Closed(conns[h][i]))
  /\ net' = air
  /\ UNCHANGED <<isn, stored>>

net_handle_tcp(s, air) ==
  LET h == Peer(s.src)
  IN  \/ /\ Matching(h, s) # {}
         /\ LET i == First(Matching(h, s))
            IN  \/ Reset(h, i, s, air)
               \/ /\ "RST" \notin s.flags
                  /\ Synchronized(h, i, s, air) \/ SynSent(h, i, s, air) \/ SynRcvd(h, i, s, air)
      \/ Matching(h, s) = {} /\ (Spawn(h, s, air) \/ Dropped(h, s, air))

Receive(s) ==
  /\ net_handle_tcp(s, net \ {s})
  /\ UNCHANGED <<ready, pending, held, faults, sent, got, cut>>

-----------------------------------------------------------------------------
(* Timers of net_poll, ARP, and the network's faults.                      *)

ConnectTimeout(h, i) ==
  /\ conns[h][i].in_use /\ conns[h][i].state = "SYN_SENT"
  /\ Set(h, i, Closed(conns[h][i]))
  /\ UNCHANGED <<ready, pending, held, net, faults, isn, hist>>

Fault(k) == k \in Faults /\ faults > 0 /\ faults' = faults - 1

Retransmit(h, i) ==
  /\ \/ net = {} /\ UNCHANGED faults
     \/ net # {} /\ Fault("early")
  /\ LET c == conns[h][i]
     IN  /\ c.in_use /\ c.state # "SYN_SENT" /\ c.tx # <<>> /\ c.retrans < RETRANS_MAX
         /\ Set(h, i, [c EXCEPT !.retrans = @ + 1])
         /\ net' = net \cup Segment(h, [c EXCEPT !.seq = c.unacked_seq], {"ACK"}, c.tx)
  /\ UNCHANGED <<ready, pending, held, isn, hist>>

\* The gateway answers: a queued connect starts, on its slot whatever became of it.
ArpReply(h) ==
  /\ ~ready[h]
  /\ ready' = [ready EXCEPT ![h] = TRUE]
  /\ \/ /\ pending[h] # None
        /\ LET c == Started(h, conns[h][pending[h]])
           IN  StartConn(h, pending[h], c,
                         {[src |-> h, sport |-> c.lport, dport |-> c.rport, flags |-> {"SYN"},
                           seq |-> c.seq, ack |-> 0, data |-> <<>>]})
     \/ pending[h] = None /\ UNCHANGED <<conns, net, isn>>
  /\ pending' = [pending EXCEPT ![h] = None]
  /\ UNCHANGED <<held, faults, hist>>

Lose(s) == /\ Fault("loss")
           /\ net' = net \ {s}
           /\ UNCHANGED <<conns, ready, pending, held, isn, hist>>

\* s arrives once and is still to arrive.
Duplicate(s) == /\ Fault("dup")
                /\ net_handle_tcp(s, net)
                /\ UNCHANGED <<ready, pending, held, sent, got, cut>>

\* An RST for a connection of h from outside
Forge(h, i) ==
  /\ Fault("reset") /\ conns[h][i].in_use /\ conns[h][i].rport # 0
  /\ net' = net \cup {[src |-> Peer(h), sport |-> conns[h][i].rport, dport |-> conns[h][i].lport,
                       flags |-> {"RST"}, seq |-> 0, ack |-> 0, data |-> <<>>]}
  /\ cut' = Host
  /\ UNCHANGED <<conns, ready, pending, held, isn, sent, stored, got>>

-----------------------------------------------------------------------------
TcpInit ==
  /\ conns = [h \in Host |-> [i \in Slot[h] |-> Zero]]
  /\ ready \in [Host -> BOOLEAN]
  /\ pending = [h \in Host |-> None]
  /\ held = [h \in Host |-> {}]
  /\ net = {}
  /\ faults = MaxFaults
  /\ isn = Isn
  /\ sent = [h \in Host |-> 0] /\ stored = [h \in Host |-> 0]
  /\ got = [h \in Host |-> <<>>]
  /\ cut = {}

Program(h) ==
  \/ net_tcp_connect(h) \/ net_tcp_listen(h)
  \/ \E i \in held[h] :
       \/ net_tcp_accept(h, i) \/ net_tcp_close(h, i)
       \/ \E n \in 1 .. MaxLen : net_tcp_send(h, i, n)
       \/ \E n \in 1 .. Len(conns[h][i].rx) : net_tcp_recv(h, i, n)

TcpNext ==
  \/ \E h \in Host : \/ Program(h) \/ ArpReply(h)
                     \/ \E i \in Slot[h] : ConnectTimeout(h, i) \/ Retransmit(h, i) \/ Forge(h, i)
  \/ \E s \in net : Receive(s) \/ Duplicate(s) \/ Lose(s)

\* The network delivers, net_poll runs, and programs that hold data take it.
TcpFairness ==
  /\ WF_tcpVars(\E s \in net : Receive(s))
  /\ WF_tcpVars(\E h \in Host : \E i \in Slot[h] : Retransmit(h, i))
  /\ WF_tcpVars(\E h \in Host : \E i \in Slot[h], n \in 1 .. BUF : net_tcp_recv(h, i, n))

TcpSpec == TcpInit /\ [][TcpNext]_tcpVars /\ TcpFairness

-----------------------------------------------------------------------------
States == {"CLOSED", "SYN_SENT", "ESTABLISHED", "FIN_WAIT_1", "FIN_WAIT_2", "CLOSE_WAIT",
           "LAST_ACK", "LISTEN", "SYN_RCVD"}
Seq32 == 0 .. MOD - 1

(* Buffers keep within their sizes, and sequence numbers within 32 bits.      *)
TcpTypeOK ==
  /\ \A h \in Host : \A i \in Slot[h] :
       LET c == conns[h][i]
       IN  /\ c.state \in States /\ {c.in_use, c.eof, c.accepted} \subseteq BOOLEAN
           /\ {c.seq, c.ack, c.unacked_seq} \subseteq Seq32 /\ c.retrans \in 0 .. RETRANS_MAX
           /\ Len(c.rx) <= BUF /\ Len(c.tx) <= MaxLen
           /\ c.parent \in Slot[h] \cup {None}
  /\ \A h \in Host : held[h] \subseteq Slot[h] /\ pending[h] \in Slot[h] \cup {None}
  /\ \A s \in net : s.src \in Host /\ s.flags \subseteq {"SYN", "ACK", "FIN", "RST"}

\* The bytes of the peer of h that wait in the receive buffers of h
Buffered(h) == LET r == {i \in Slot[h] : conns[h][i].rx # <<>>}
               IN  IF r = {} THEN <<>> ELSE conns[h][First(r)].rx

(* What a program reads, and what waits for it, are the first bytes its peer  *)
(* sent, each once and in order, whatever the network loses, doubles and      *)
(* overtakes (the order test and the re-ACK of net_handle_tcp).               *)
StreamIntact ==
  \A h \in Host :
    LET all == got[h] \o Buffered(Peer(h))
    IN  Len(all) <= sent[h] /\ \A k \in DOMAIN all : all[k] = k

(* Data the sender has dropped from its retransmit buffer, and data before an *)
(* end of file, is in the receiver's hands, unless the sender closed with a   *)
(* segment outstanding or the connection was reset.                           *)
NothingForgotten ==
  \A h \in Host \ cut :
    /\ (\A i \in Slot[h] : conns[h][i].tx = <<>>) => stored[h] = sent[h]
    /\ (\E i \in Slot[Peer(h)] : conns[Peer(h)][i].eof) => stored[h] = sent[h]

\* The initial sequence number of the server after n more of them
Far(n) == Isn[Server] + n * STEP

(* What both need of the initial sequence numbers, which the code draws at    *)
(* random: the streams stay below 2^32, one connection of the server begins    *)
(* behind all the bytes of the one before, and the client's number is none of *)
(* the server's.                                                              *)
NumbersFit ==
  /\ STEP > Writes[Server] + 1
  /\ Isn[Client] + Writes[Client] + Writes[Server] + 3 < MOD
  /\ Far(MaxFaults + 1) + 1 < MOD
  /\ Isn[Client] \notin Isn[Server] .. Far(MaxFaults + 1)

Tried(h) == \E i \in Slot[h] : conns[h][i].retrans = RETRANS_MAX

\* h has data on the way, on a connection both programs keep and nobody has reset,
\* with retransmissions left.
UnderWay(h) == /\ sent[h] > stored[h] /\ ~Tried(h) /\ cut = {}
               /\ held[h] # {} /\ held[Peer(h)] # {}

(* What is sent on a connection that both ends keep open reaches the other    *)
(* program, unless the retransmissions of net_poll are used up.               *)
SentArrives == \A h \in Host : []<>~UnderWay(h)
=============================================================================
