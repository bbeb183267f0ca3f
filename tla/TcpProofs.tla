----------------------------- MODULE TcpProofs -----------------------------
(***************************************************************************)
(* The connections of src/drivers/net.c, for any tables, buffers, numbers  *)
(* of bytes and faults of the network: what a program reads is what its    *)
(* peer sent, in order, and nothing sent or acknowledged is forgotten      *)
(* unless the connection is cut.                                           *)
(*                                                                         *)
(* The invariant has three parts.  TypeInv has the types and the bounds of *)
(* the histories.  Shape says how far the handshake is: which slots are in *)
(* use, which SYNs there can be, and which sequence numbers are taken.     *)
(* Link relates the two hosts: for each direction a Way from the sender's  *)
(* slot through the segments on the wire to the slot of the receiver, with *)
(* the initial sequence number of the connection as its base b.            *)
(***************************************************************************)
EXTENDS Tcp, Lemmas

-----------------------------------------------------------------------------
(* Types                                                                   *)

Flags == {"SYN", "ACK", "FIN", "RST"}
Ports == {0, PORT, Ephemeral}

Conns == [in_use : BOOLEAN, state : States, lport : Ports, rport : Ports, seq : Seq32,
          ack : Seq32, rx : Seq(Nat), eof : BOOLEAN, tx : Seq(Nat), unacked_seq : Seq32,
          retrans : 0 .. RETRANS_MAX, parent : Nat \cup {None}, accepted : BOOLEAN]

Segments == [src : Host, sport : Ports, dport : Ports, flags : SUBSET Flags,
             seq : Seq32, ack : Seq32, data : Seq(Nat)]

\* A control block of h within its bounds
Sized(h, c) == /\ c \in Conns /\ Len(c.rx) <= BUF /\ Len(c.tx) <= MaxLen
               /\ c.parent \in Slot[h] \cup {None}

TablesOK == /\ DOMAIN conns = Host
            /\ \A h \in Host : DOMAIN conns[h] = Slot[h]
            /\ \A h \in Host : \A i \in Slot[h] : Sized(h, conns[h][i])

IdsOK == /\ DOMAIN held = Host /\ \A h \in Host : held[h] \subseteq Slot[h]
         /\ DOMAIN pending = Host /\ \A h \in Host : pending[h] \in Slot[h] \cup {None}
         /\ ready \in [Host -> BOOLEAN]

NetOK == net \subseteq Segments /\ faults \in 0 .. MaxFaults /\ isn \in [Host -> Seq32]

HistOK == /\ sent \in [Host -> Nat] /\ stored \in [Host -> Nat] /\ got \in [Host -> Seq(Nat)]
          /\ cut \subseteq Host

TypeInv == TablesOK /\ IdsOK /\ NetOK /\ HistOK

-----------------------------------------------------------------------------
(* What the proofs need of the operators                                   *)

LEMMA Hosts ==
  /\ Client \in Host /\ Server \in Host /\ Peer(Client) = Server /\ Peer(Server) = Client
  /\ \A h \in Host : Peer(h) \in Host /\ Peer(Peer(h)) = h /\ Peer(h) # h
  /\ Client # Server
BY TcpAssumption DEF Host, Peer

LEMMA SlotsAre ==
  ASSUME NEW h \in Host
  PROVE  Slot[h] \subseteq Nat /\ None \notin Slot[h] /\ Slot[h] # {}
<1>1. Slot[h] \subseteq Nat /\ Slot[h] # {}
  BY TcpAssumption
<1> QED
  BY <1>1, TablesAssumption

LEMMA FirstIs ==
  ASSUME NEW S \in SUBSET Nat, S # {}
  PROVE  First(S) \in S
BY LeastOf DEF First

LEMMA PlusIn ==
  ASSUME NEW a \in Nat, NEW n \in Nat
  PROVE  Plus(a, n) \in Seq32
<1>1. MOD \in Nat /\ MOD > 0 /\ a + n \in Nat
  BY TcpAssumption
<1>2. (a + n) % MOD \in 0 .. MOD - 1
  BY <1>1
<1> QED
  BY <1>2 DEF Plus, Seq32

LEMMA PlusIs ==
  ASSUME NEW a \in Nat, NEW n \in Nat, a + n < MOD
  PROVE  Plus(a, n) = a + n
<1>1. MOD \in Nat /\ MOD > 0 /\ a + n \in 0 .. MOD - 1
  BY TcpAssumption
<1>2. \A x \in 0 .. MOD - 1 : x % MOD = x
  BY <1>1
<1> QED
  BY <1>1, <1>2 DEF Plus

LEMMA Seq32In == Seq32 \subseteq Nat /\ 0 \in Seq32 /\ MOD \in Nat
BY TcpAssumption DEF Seq32

LEMMA ZeroIs ==
  /\ Zero \in Conns /\ \A h \in Host : Sized(h, Zero)
  /\ Zero.rx = <<>> /\ Zero.tx = <<>> /\ Zero.state = "CLOSED" /\ ~Zero.in_use /\ ~Zero.eof
  /\ Zero.seq = 0 /\ Zero.lport = 0 /\ Zero.rport = 0
<1>1. <<>> \in Seq(Nat) /\ Len(<<>>) = 0
  OBVIOUS
<1>2. Zero \in Conns
  BY <1>1, Seq32In, TcpAssumption DEF Zero, Conns, States, Ports
<1>3. Zero.rx = <<>> /\ Zero.tx = <<>> /\ Zero.parent = None
  BY DEF Zero
<1>4. ASSUME NEW h \in Host PROVE Sized(h, Zero)
  <2>1. 0 <= BUF /\ 0 <= MaxLen
    BY TcpAssumption
  <2> QED
    BY <1>1, <1>2, <1>3, <2>1 DEF Sized
<1> QED
  BY <1>2, <1>4 DEF Zero

\* What an assignment to a slot leaves
LEMMA SetIs ==
  ASSUME NEW h \in Host, NEW i \in Slot[h], NEW c, TablesOK, Set(h, i, c)
  PROVE  /\ DOMAIN conns' = Host /\ \A g \in Host : DOMAIN conns'[g] = Slot[g]
         /\ conns'[h][i] = c /\ conns'[h] = [conns[h] EXCEPT ![i] = c]
         /\ \A g \in Host : \A j \in Slot[g] : (g = h /\ j = i) \/ conns'[g][j] = conns[g][j]
         /\ \A g \in Host : g # h => conns'[g] = conns[g]
BY DEF Set, TablesOK

LEMMA SetTables ==
  ASSUME NEW h \in Host, NEW i \in Slot[h], NEW c, TablesOK, Set(h, i, c), Sized(h, c)
  PROVE  TablesOK'
<1>1. DOMAIN conns' = Host /\ \A g \in Host : DOMAIN conns'[g] = Slot[g]
  BY SetIs
<1>4. conns'[h][i] = c
  BY DEF Set, TablesOK
<1>5. \A g \in Host : \A j \in Slot[g] : (g = h /\ j = i) \/ conns'[g][j] = conns[g][j]
  BY SetIs
<1>2. ASSUME NEW g \in Host, NEW j \in Slot[g] PROVE Sized(g, conns'[g][j])
  <2>2. Sized(g, conns[g][j])
    BY DEF TablesOK
  <2> QED
    BY <1>4, <1>5, <2>2
<1>3. \A g \in Host : \A j \in Slot[g] : Sized(g, conns'[g][j])
  BY <1>2
<1> QED
  BY <1>1, <1>3 DEF TablesOK

\* The segments in new are h's, with the numbers of c.
Sends(new, h, c, f, d) ==
  /\ new \subseteq Segments
  /\ \A s \in new : /\ s.src = h /\ s.flags = f /\ s.data = d /\ s.seq = c.seq /\ s.ack = c.ack
                    /\ s.sport = c.lport /\ s.dport = c.rport

LEMMA SegmentIs ==
  ASSUME NEW h \in Host, NEW c \in Conns, NEW f \in SUBSET Flags, NEW d \in Seq(Nat)
  PROVE  Sends(Segment(h, c, f, d), h, c, f, d)
BY DEF Segment, Segments, Conns, Sends

\* The fields of a control block have the types of Conns.
LEMMA Fields ==
  ASSUME NEW c \in Conns
  PROVE  /\ c.in_use \in BOOLEAN /\ c.state \in States /\ c.lport \in Ports /\ c.rport \in Ports
         /\ c.seq \in Nat /\ c.ack \in Nat /\ c.unacked_seq \in Nat
         /\ c.seq \in Seq32 /\ c.ack \in Seq32 /\ c.unacked_seq \in Seq32
         /\ c.rx \in Seq(Nat) /\ c.tx \in Seq(Nat) /\ Len(c.rx) \in Nat /\ Len(c.tx) \in Nat
         /\ c.eof \in BOOLEAN
         /\ c.retrans \in 0 .. RETRANS_MAX /\ c.parent \in Nat \cup {None} /\ c.accepted \in BOOLEAN
<1>1. c.seq \in Seq32 /\ c.ack \in Seq32 /\ c.unacked_seq \in Seq32
  BY DEF Conns
<1>2. c.rx \in Seq(Nat) /\ c.tx \in Seq(Nat)
  BY DEF Conns
<1>3. c.seq \in Nat /\ c.ack \in Nat /\ c.unacked_seq \in Nat
  BY <1>1, Seq32In
<1>4. Len(c.rx) \in Nat /\ Len(c.tx) \in Nat
  BY <1>2
<1>5. /\ c.in_use \in BOOLEAN /\ c.state \in States /\ c.lport \in Ports /\ c.rport \in Ports
      /\ c.eof \in BOOLEAN /\ c.retrans \in 0 .. RETRANS_MAX
      /\ c.parent \in Nat \cup {None} /\ c.accepted \in BOOLEAN
  BY DEF Conns
<1> QED
  BY <1>1, <1>2, <1>3, <1>4, <1>5

LEMMA SegmentFields ==
  ASSUME NEW s \in Segments
  PROVE  /\ s.src \in Host /\ s.flags \subseteq Flags /\ s.seq \in Nat /\ s.ack \in Nat
         /\ s.seq \in Seq32 /\ s.ack \in Seq32 /\ s.sport \in Ports /\ s.dport \in Ports
         /\ s.data \in Seq(Nat) /\ Len(s.data) \in Nat
<1>1. s.data \in Seq(Nat) /\ s.seq \in Seq32 /\ s.ack \in Seq32
  BY DEF Segments
<1>2. s.seq \in Nat /\ s.ack \in Nat
  BY <1>1, Seq32In
<1>4. Len(s.data) \in Nat
  BY <1>1
<1>3. s.src \in Host /\ s.flags \subseteq Flags /\ s.sport \in Ports /\ s.dport \in Ports
  BY DEF Segments
<1> QED
  BY <1>1, <1>2, <1>3, <1>4

-----------------------------------------------------------------------------
(* The control blocks that the actions assign                              *)

\* What d keeps of c besides its numbers and buffers
Same(d, c) == /\ d.in_use = c.in_use /\ d.lport = c.lport /\ d.rport = c.rport
              /\ d.parent = c.parent

LEMMA ClosedIs ==
  ASSUME NEW h \in Host, NEW c, Sized(h, c)
  PROVE  \E d : /\ d = Closed(c) /\ Sized(h, d) /\ d.state = "CLOSED" /\ ~d.in_use
                /\ d.seq = c.seq /\ d.ack = c.ack /\ d.rx = c.rx /\ d.tx = c.tx
                /\ d.unacked_seq = c.unacked_seq /\ d.eof = c.eof
                /\ d.lport = c.lport /\ d.rport = c.rport
<1>1. PICK d : d = Closed(c)
  OBVIOUS
<1>2. d \in Conns
  BY <1>1 DEF Closed, Conns, Sized, States
<1>3. /\ d.state = "CLOSED" /\ d.in_use = FALSE /\ d.seq = c.seq /\ d.ack = c.ack /\ d.rx = c.rx
      /\ d.tx = c.tx /\ d.unacked_seq = c.unacked_seq /\ d.parent = c.parent
      /\ d.lport = c.lport /\ d.rport = c.rport
  BY <1>1 DEF Closed, Conns, Sized
<1>5. d.eof = c.eof
  BY <1>1, Zenon DEF Closed, Conns, Sized
<1>4. Sized(h, d)
  BY <1>2, <1>3 DEF Sized
<1> QED
  BY <1>1, <1>3, <1>4, <1>5

LEMMA StartedIs ==
  ASSUME NEW h \in Host, NEW c, Sized(h, c), isn[h] \in Seq32
  PROVE  \E d : /\ d = Started(h, c) /\ Sized(h, d) /\ d.state = "SYN_SENT" /\ d.seq = isn[h]
                /\ d.ack = 0 /\ d.rx = <<>> /\ d.tx = <<>> /\ ~d.eof /\ d.rport = PORT
                /\ d.lport = c.lport
<1>1. PICK d : d = Started(h, c)
  OBVIOUS
<1>2. PICK q \in Seq32 : q = isn[h]
  OBVIOUS
<1>3. <<>> \in Seq(Nat) /\ Len(<<>>) = 0 /\ 0 \in 0 .. RETRANS_MAX /\ 0 <= BUF /\ 0 <= MaxLen
  BY TcpAssumption
<1>4. c \in Conns
  BY DEF Sized
<1>5. d = [c EXCEPT !.rport = PORT, !.seq = q, !.ack = 0, !.rx = <<>>, !.eof = FALSE,
            !.tx = <<>>, !.retrans = 0, !.state = "SYN_SENT"]
  BY <1>1, <1>2 DEF Started
<1>6. d \in Conns
  BY <1>3, <1>4, <1>5, Seq32In DEF Conns, States, Ports
<1>7. /\ d.state = "SYN_SENT" /\ d.seq = q /\ d.ack = 0 /\ d.rx = <<>> /\ d.tx = <<>>
      /\ d.eof = FALSE /\ d.rport = PORT /\ d.lport = c.lport /\ d.parent = c.parent
  BY <1>4, <1>5 DEF Conns
<1>8. Sized(h, d)
  BY <1>3, <1>6, <1>7 DEF Sized
<1> QED
  BY <1>1, <1>2, <1>7, <1>8

\* The sequence number is one more than c's.
Bumped(d, c) == /\ d.seq = Plus(c.seq, 1) /\ d.ack = c.ack /\ d.rx = c.rx /\ d.tx = c.tx
                /\ d.unacked_seq = c.unacked_seq /\ d.eof = c.eof /\ d.lport = c.lport
                /\ d.rport = c.rport /\ d.in_use = c.in_use

LEMMA BumpedIs ==
  ASSUME NEW h \in Host, NEW c, Sized(h, c)
  PROVE  \E d : /\ d = [c EXCEPT !.seq = Plus(@, 1)] /\ Sized(h, d) /\ Bumped(d, c)
                /\ d.state = c.state
<1>1. PICK q \in Seq32 : q = Plus(c.seq, 1)
  <2>1. c.seq \in Nat
    BY Fields DEF Sized
  <2> QED
    BY <2>1, PlusIn
<1>2. PICK d : d = [c EXCEPT !.seq = Plus(@, 1)]
  OBVIOUS
<1>3. c \in Conns
  BY DEF Sized
<1>4. d = [c EXCEPT !.seq = q]
  BY <1>1, <1>2, <1>3 DEF Conns
<1>5. d \in Conns
  BY <1>3, <1>4 DEF Conns
<1>6. /\ d.seq = q /\ d.ack = c.ack /\ d.rx = c.rx /\ d.tx = c.tx /\ d.unacked_seq = c.unacked_seq
      /\ d.lport = c.lport /\ d.rport = c.rport /\ d.state = c.state /\ d.parent = c.parent
  BY <1>3, <1>4 DEF Conns
<1>7. d.eof = c.eof /\ d.in_use = c.in_use
  BY <1>3, <1>4, Zenon DEF Conns
<1>8. Sized(h, d)
  BY <1>5, <1>6 DEF Sized
<1> QED
  BY <1>1, <1>2, <1>6, <1>7, <1>8 DEF Bumped

LEMMA Joined ==
  ASSUME NEW q \in Seq(Nat), NEW r \in Seq(Nat)
  PROVE  /\ q \o r \in Seq(Nat) /\ Len(q \o r) = Len(q) + Len(r)
         /\ Len(q) \in Nat /\ Len(r) \in Nat
         /\ \A k \in 1 .. Len(q) + Len(r) :
              (q \o r)[k] = IF k <= Len(q) THEN q[k] ELSE r[k - Len(q)]
OBVIOUS

\* d has the ports, the sequence number and the buffers of c.
KeptFields(d, c) == /\ d.seq = c.seq /\ d.rx = c.rx /\ d.tx = c.tx /\ d.unacked_seq = c.unacked_seq
                    /\ d.lport = c.lport /\ d.rport = c.rport

LEMMA ClosedKept ==
  ASSUME NEW c \in Conns
  PROVE  /\ Closed(c).state = "CLOSED" /\ Closed(c).in_use = FALSE /\ KeptFields(Closed(c), c)
         /\ Closed(c) \in Conns /\ Closed(c).parent = c.parent
BY DEF Closed, Conns, States, KeptFields

LEMMA ClosedAck ==
  ASSUME NEW c \in Conns
  PROVE  Closed(c).ack = c.ack /\ (Closed(c).eof <=> c.eof)
<1>1. Closed(c).ack = c.ack
  BY DEF Closed, Conns
<1>2. Closed(c).eof = c.eof
  BY Zenon DEF Closed, Conns
<1> QED
  BY <1>1, <1>2

Cleared(d, c, s) ==
  /\ d.seq = c.seq /\ d.ack = c.ack /\ d.rx = c.rx /\ d.unacked_seq = c.unacked_seq
  /\ d.lport = c.lport /\ d.rport = c.rport /\ d.state = c.state
  /\ d.in_use = c.in_use /\ d.eof = c.eof
  /\ d.tx = c.tx \/ /\ d.tx = <<>> /\ "ACK" \in s.flags /\ c.tx # <<>>
                    /\ s.ack >= Plus(c.unacked_seq, Len(c.tx))

LEMMA AckClearsIs ==
  ASSUME NEW h \in Host, NEW c, Sized(h, c), NEW s \in Segments
  PROVE  \E d : d = AckClears(c, s) /\ Sized(h, d) /\ Cleared(d, c, s)
<1>1. CASE "ACK" \in s.flags /\ c.tx # <<>> /\ s.ack >= Plus(c.unacked_seq, Len(c.tx))
  <2>1. PICK d : d = [c EXCEPT !.tx = <<>>, !.retrans = 0]
    OBVIOUS
  <2>2. c \in Conns /\ <<>> \in Seq(Nat) /\ Len(<<>>) = 0 /\ 0 \in 0 .. RETRANS_MAX /\ 0 <= MaxLen
    BY TcpAssumption DEF Sized
  <2>3. d \in Conns
    BY <2>1, <2>2 DEF Conns
  <2>4. /\ d.seq = c.seq /\ d.ack = c.ack /\ d.rx = c.rx /\ d.unacked_seq = c.unacked_seq
        /\ d.lport = c.lport /\ d.rport = c.rport /\ d.state = c.state /\ d.parent = c.parent
        /\ d.tx = <<>>
    BY <2>1, <2>2 DEF Conns
  <2>5. d.in_use = c.in_use /\ d.eof = c.eof
    BY <2>1, <2>2, Zenon DEF Conns
  <2>6. Sized(h, d)
    BY <2>2, <2>3, <2>4 DEF Sized
  <2>7. d = AckClears(c, s)
    BY <1>1, <2>1 DEF AckClears
  <2> QED
    BY <1>1, <2>4, <2>5, <2>6, <2>7 DEF Cleared
<1>2. CASE ~("ACK" \in s.flags /\ c.tx # <<>> /\ s.ack >= Plus(c.unacked_seq, Len(c.tx)))
  <2>1. c = AckClears(c, s)
    BY <1>2 DEF AckClears
  <2> QED
    BY <2>1 DEF Cleared
<1> QED
  BY <1>1, <1>2

TookData(d, c, s) ==
  /\ d.seq = c.seq /\ d.tx = c.tx /\ d.unacked_seq = c.unacked_seq
  /\ d.lport = c.lport /\ d.rport = c.rport /\ d.state = c.state
  /\ d.in_use = c.in_use /\ d.eof = c.eof
  /\ d.rx = c.rx \o s.data /\ d.ack = Plus(s.seq, Len(s.data))

LEMMA StoreIs ==
  ASSUME NEW h \in Host, NEW c, Sized(h, c), NEW s \in Segments
  PROVE  \E d : /\ d = Store(c, s) /\ Sized(h, d)
                /\ (~Fits(c, s) /\ d = c) \/ (Fits(c, s) /\ TookData(d, c, s))
<1>1. CASE Fits(c, s)
  <2>1. PICK a \in Seq32 : a = Plus(s.seq, Len(s.data))
    <3>1. s.seq \in Nat /\ Len(s.data) \in Nat
      BY SegmentFields
    <3> QED
      BY <3>1, PlusIn
  <2>2. PICK q : q = c.rx \o s.data
    OBVIOUS
  <2>3. q \in Seq(Nat) /\ Len(q) <= BUF
    <3>1. c.rx \in Seq(Nat) /\ s.data \in Seq(Nat)
      BY Fields, SegmentFields DEF Sized
    <3>2. Len(c.rx) + Len(s.data) <= BUF
      BY <1>1 DEF Fits
    <3>3. q \in Seq(Nat) /\ Len(q) = Len(c.rx) + Len(s.data)
      BY <2>2, <3>1, Joined
    <3> QED
      BY <3>2, <3>3
  <2>4. PICK d : d = [c EXCEPT !.rx = @ \o s.data, !.ack = Plus(s.seq, Len(s.data))]
    OBVIOUS
  <2>5. c \in Conns
    BY DEF Sized
  <2>6. d = [c EXCEPT !.rx = q, !.ack = a]
    BY <2>1, <2>2, <2>4, <2>5 DEF Conns
  <2>7. d \in Conns
    BY <2>3, <2>5, <2>6 DEF Conns
  <2>8. /\ d.seq = c.seq /\ d.tx = c.tx /\ d.unacked_seq = c.unacked_seq
        /\ d.lport = c.lport /\ d.rport = c.rport /\ d.state = c.state /\ d.parent = c.parent
        /\ d.rx = q /\ d.ack = a
    BY <2>5, <2>6 DEF Conns
  <2>9. d.in_use = c.in_use /\ d.eof = c.eof
    BY <2>5, <2>6, Zenon DEF Conns
  <2>10. Sized(h, d)
    BY <2>3, <2>7, <2>8 DEF Sized
  <2>11. d = Store(c, s)
    BY <1>1, <2>4 DEF Store
  <2> QED
    BY <1>1, <2>1, <2>2, <2>8, <2>9, <2>10, <2>11 DEF TookData
<1>2. CASE ~Fits(c, s)
  <2>1. c = Store(c, s)
    BY <1>2 DEF Store
  <2> QED
    BY <1>2, <2>1
<1> QED
  BY <1>1, <1>2

\* What an ACK of a FIN makes of c
Finished(d, c, s) ==
  /\ c.state \in {"FIN_WAIT_1", "LAST_ACK"} /\ KeptFields(d, c) /\ d.ack = c.ack /\ d.eof = c.eof
  /\ \/ d.state = "CLOSED" /\ d.in_use = FALSE
     \/ d.state = "FIN_WAIT_2" /\ c.state = "FIN_WAIT_1" /\ "FIN" \notin s.flags
        /\ d.in_use = c.in_use

LEMMA FinAckedIs ==
  ASSUME NEW h \in Host, NEW c, Sized(h, c), NEW s \in Segments
  PROVE  \E d : d = FinAcked(c, s) /\ Sized(h, d) /\ (d = c \/ Finished(d, c, s))
<1>1. PICK d : d = FinAcked(c, s)
  OBVIOUS
<1>2. c \in Conns
  BY DEF Sized
<1>3. CASE d = c
  BY <1>1, <1>3
<1>4. CASE c.state \in {"FIN_WAIT_1", "LAST_ACK"} /\ d = Closed(c)
  <2>1. PICK e : /\ e = Closed(c) /\ Sized(h, e) /\ e.state = "CLOSED" /\ ~e.in_use
                /\ e.seq = c.seq /\ e.ack = c.ack /\ e.rx = c.rx /\ e.tx = c.tx
                /\ e.unacked_seq = c.unacked_seq /\ e.eof = c.eof
                /\ e.lport = c.lport /\ e.rport = c.rport
    BY ClosedIs
  <2>2. d = e
    BY <1>4, <2>1
  <2>3. e.in_use = FALSE
    BY <1>2, <2>1, ClosedKept
  <2> QED
    BY <1>1, <1>4, <2>1, <2>2, <2>3 DEF Finished, KeptFields
<1>5. CASE /\ c.state = "FIN_WAIT_1" /\ "FIN" \notin s.flags
           /\ d = [c EXCEPT !.state = "FIN_WAIT_2"]
  <2>1. d \in Conns
    BY <1>2, <1>5 DEF Conns, States
  <2>2. /\ d.seq = c.seq /\ d.ack = c.ack /\ d.rx = c.rx /\ d.tx = c.tx
        /\ d.unacked_seq = c.unacked_seq /\ d.lport = c.lport /\ d.rport = c.rport
        /\ d.parent = c.parent /\ d.state = "FIN_WAIT_2"
    BY <1>2, <1>5 DEF Conns
  <2>3. d.eof = c.eof /\ d.in_use = c.in_use
    BY <1>2, <1>5, Zenon DEF Conns
  <2>4. Sized(h, d)
    BY <2>1, <2>2 DEF Sized
  <2> QED
    BY <1>1, <1>5, <2>2, <2>3, <2>4 DEF Finished, KeptFields
<1> QED
  BY <1>1, <1>3, <1>4, <1>5 DEF FinAcked

\* What the FIN of the peer makes of c
Ended(d, c, s) ==
  /\ TakesFin(c, s) /\ KeptFields(d, c) /\ d.ack = Plus(s.seq, Len(s.data) + 1)
  /\ \/ c.state = "FIN_WAIT_2" /\ d.state = "CLOSED" /\ d.in_use = FALSE /\ d.eof = c.eof
     \/ c.state \in {"ESTABLISHED", "CLOSE_WAIT"} /\ d.state = "CLOSE_WAIT" /\ d.eof = TRUE
        /\ d.in_use = c.in_use

LEMMA PeerFinIs ==
  ASSUME NEW h \in Host, NEW c, Sized(h, c), NEW s \in Segments
  PROVE  \E d : /\ d = PeerFin(c, s) /\ Sized(h, d)
                /\ (~TakesFin(c, s) /\ d = c) \/ Ended(d, c, s)
<1>1. PICK d : d = PeerFin(c, s)
  OBVIOUS
<1>2. c \in Conns
  BY DEF Sized
<1>3. PICK a \in Seq32 : a = Plus(s.seq, Len(s.data) + 1)
  <2>1. s.seq \in Nat /\ Len(s.data) + 1 \in Nat
    BY SegmentFields
  <2> QED
    BY <2>1, PlusIn
<1>4. CASE ~TakesFin(c, s)
  <2>1. d = c
    BY <1>1, <1>4 DEF PeerFin
  <2> QED
    BY <1>1, <1>4, <2>1
<1>5. CASE TakesFin(c, s) /\ c.state = "FIN_WAIT_2"
  <2>1. PICK e : /\ e = Closed(c) /\ Sized(h, e) /\ e.state = "CLOSED" /\ ~e.in_use
                /\ e.seq = c.seq /\ e.ack = c.ack /\ e.rx = c.rx /\ e.tx = c.tx
                /\ e.unacked_seq = c.unacked_seq /\ e.eof = c.eof
                /\ e.lport = c.lport /\ e.rport = c.rport
    BY ClosedIs
  <2>2. e \in Conns /\ e.in_use = FALSE
    BY <1>2, <2>1, ClosedKept
  <2>3. d = [e EXCEPT !.ack = a]
    BY <1>1, <1>3, <1>5, <2>1 DEF PeerFin
  <2>4. d \in Conns
    BY <2>2, <2>3 DEF Conns
  <2>5. /\ d.seq = e.seq /\ d.rx = e.rx /\ d.tx = e.tx /\ d.state = e.state
        /\ d.unacked_seq = e.unacked_seq /\ d.lport = e.lport /\ d.rport = e.rport
        /\ d.parent = e.parent /\ d.ack = a
    BY <2>2, <2>3 DEF Conns
  <2>6. d.eof = e.eof /\ d.in_use = e.in_use
    BY <2>2, <2>3, Zenon DEF Conns
  <2>7. Sized(h, d)
    BY <2>1, <2>4, <2>5 DEF Sized
  <2>8. d.in_use = FALSE
    BY <2>2, <2>6
  <2>9. d.state = "CLOSED" /\ d.eof = c.eof /\ KeptFields(d, c)
    BY <2>1, <2>5, <2>6 DEF KeptFields
  <2> QED
    BY <1>1, <1>3, <1>5, <2>5, <2>7, <2>8, <2>9 DEF Ended
<1>6. CASE TakesFin(c, s) /\ c.state # "FIN_WAIT_2"
  <2>1. d = [c EXCEPT !.state = "CLOSE_WAIT", !.ack = a, !.eof = TRUE]
    BY <1>1, <1>3, <1>6 DEF PeerFin
  <2>2. c.state \in {"ESTABLISHED", "CLOSE_WAIT"}
    BY <1>6 DEF TakesFin
  <2>3. d \in Conns
    BY <1>2, <2>1 DEF Conns, States
  <2>4. /\ d.seq = c.seq /\ d.ack = a /\ d.rx = c.rx /\ d.tx = c.tx /\ d.eof = TRUE
        /\ d.unacked_seq = c.unacked_seq /\ d.lport = c.lport /\ d.rport = c.rport
        /\ d.parent = c.parent /\ d.state = "CLOSE_WAIT"
    BY <1>2, <2>1 DEF Conns
  <2>5. d.in_use = c.in_use
    BY <1>2, <2>1, Zenon DEF Conns
  <2>6. Sized(h, d)
    BY <2>3, <2>4 DEF Sized
  <2> QED
    BY <1>1, <1>3, <1>6, <2>2, <2>4, <2>5, <2>6 DEF Ended, KeptFields
<1> QED
  BY <1>4, <1>5, <1>6

-----------------------------------------------------------------------------
(* What each action does                                                   *)

Hello == [src |-> Client, sport |-> Ephemeral, dport |-> PORT, flags |-> {"SYN"},
          seq |-> Isn[Client], ack |-> 0, data |-> <<>>]

\* Slot i of h becomes d, and the segments in new go out.
Moves(h, i, d, new) == /\ Set(h, i, d) /\ Sized(h, d)
                       /\ net' = net \cup new /\ new \subseteq Segments

\* d starts a connection.
Opening(h, d) == /\ d.state = "SYN_SENT" /\ d.seq = Plus(isn[h], 1) /\ d.ack = 0
                    /\ d.rx = <<>> /\ d.tx = <<>> /\ ~d.eof /\ d.rport = PORT

\* d has sent and received nothing.
NoData(d) == d.rx = <<>> /\ d.tx = <<>> /\ ~d.eof

Opened(h, s) == /\ s.src = h /\ s.flags = {"SYN"} /\ s.seq = isn[h] /\ s.ack = 0
                /\ s.data = <<>> /\ s.dport = PORT

LEMMA ZeroTaken ==
  ASSUME NEW h \in Host, NEW p \in Ports
  PROVE  \E c : /\ c = [Zero EXCEPT !.in_use = TRUE, !.lport = p] /\ Sized(h, c)
                /\ c.state = "CLOSED" /\ c.in_use = TRUE /\ c.lport = p /\ c.seq = 0
                /\ NoData(c)
<1>1. PICK c : c = [Zero EXCEPT !.in_use = TRUE, !.lport = p]
  OBVIOUS
<1>2. c \in Conns
  BY <1>1, ZeroIs DEF Conns
<1>3. /\ c.state = "CLOSED" /\ c.in_use = TRUE /\ c.lport = p /\ c.seq = 0 /\ c.rx = <<>>
      /\ c.tx = <<>> /\ c.parent = None /\ c.eof = FALSE
  BY <1>1 DEF Zero
<1>4. Sized(h, c)
  BY <1>2, <1>3, TcpAssumption DEF Sized
<1> QED
  BY <1>1, <1>3, <1>4 DEF NoData

LEMMA FreeIs ==
  ASSUME NEW h \in Host, Free(h) # {}
  PROVE  First(Free(h)) \in Slot[h] /\ ~conns[h][First(Free(h))].in_use
<1>1. Free(h) \subseteq Slot[h]
  BY DEF Free
<1>2. Free(h) \in SUBSET Nat
  BY <1>1, SlotsAre
<1>3. First(Free(h)) \in Free(h)
  BY <1>2, FirstIs
<1> QED
  BY <1>3 DEF Free

LEMMA AllFree ==
  ASSUME NEW h \in Host, \A i \in Slot[h] : conns[h][i] = Zero
  PROVE  Free(h) # {}
<1>1. PICK i \in Slot[h] : TRUE
  BY SlotsAre
<1>2. ~conns[h][i].in_use
  BY ZeroIs
<1> QED
  BY <1>2 DEF Free

LEMMA ConnectDoes ==
  ASSUME TypeInv, NEW h \in Host, net_tcp_connect(h)
  PROVE  /\ h = Client /\ \A i \in Slot[h] : conns[h][i] = Zero
         /\ \E i \in Slot[h] : \E d, new :
              /\ Moves(h, i, d, new) /\ d.lport = Ephemeral
              /\ held' = [held EXCEPT ![h] = @ \cup {i}]
              /\ \/ /\ ready[h] /\ Opening(h, d) /\ Advance(h) /\ pending' = pending
                    /\ \A s \in new : Opened(h, s) /\ s.sport = Ephemeral
                 \/ /\ ~ready[h] /\ NoData(d) /\ d.state = "CLOSED" /\ new = {}
                    /\ pending' = [pending EXCEPT ![h] = i] /\ isn' = isn
<1>1. h = Client /\ held[h] = {} /\ \A i \in Slot[h] : conns[h][i] = Zero
  BY DEF net_tcp_connect
<1>2. PICK i \in Slot[h] : i = First(Free(h))
  BY <1>1, AllFree, FreeIs
<1>3. PICK c : /\ c = [Zero EXCEPT !.in_use = TRUE, !.lport = Ephemeral] /\ Sized(h, c)
               /\ c.state = "CLOSED" /\ c.in_use = TRUE /\ c.lport = Ephemeral /\ c.seq = 0
               /\ NoData(c)
  <2>1. Ephemeral \in Ports
    BY DEF Ports
  <2> QED
    BY <2>1, ZeroTaken
<1>4. held' = [held EXCEPT ![h] = @ \cup {i}]
  BY <1>2 DEF net_tcp_connect
<1>5. \/ /\ ready[h] /\ StartConn(h, i, c, Segment(h, Started(h, c), {"SYN"}, <<>>))
         /\ UNCHANGED pending
      \/ /\ ~ready[h] /\ Set(h, i, c) /\ pending' = [pending EXCEPT ![h] = i]
         /\ UNCHANGED <<net, isn>>
  BY <1>2, <1>3 DEF net_tcp_connect
<1>6. CASE /\ ready[h] /\ StartConn(h, i, c, Segment(h, Started(h, c), {"SYN"}, <<>>))
           /\ UNCHANGED pending
  <2>1. PICK e : /\ e = Started(h, c) /\ Sized(h, e) /\ e.state = "SYN_SENT" /\ e.seq = isn[h]
                 /\ e.ack = 0 /\ e.rx = <<>> /\ e.tx = <<>> /\ ~e.eof /\ e.rport = PORT
                 /\ e.lport = c.lport
    <3>1. isn[h] \in Seq32
      BY DEF TypeInv, NetOK
    <3>2. Sized(h, c)
      BY <1>3
    <3> QED
      BY <3>1, <3>2, StartedIs
  <2>2. PICK d : /\ d = [e EXCEPT !.seq = Plus(@, 1)] /\ Sized(h, d) /\ Bumped(d, e)
                 /\ d.state = e.state
    BY <2>1, BumpedIs
  <2>3. PICK new : new = Segment(h, e, {"SYN"}, <<>>)
    OBVIOUS
  <2>4. Set(h, i, d) /\ net' = net \cup new /\ Advance(h)
    BY <1>6, <2>1, <2>2, <2>3 DEF StartConn
  <2>5. /\ new \subseteq Segments
        /\ \A s \in new : Opened(h, s) /\ s.sport = Ephemeral
    <3>1. e \in Conns /\ {"SYN"} \in SUBSET Flags /\ <<>> \in Seq(Nat)
      BY <2>1 DEF Sized, Flags
    <3>2. Sends(new, h, e, {"SYN"}, <<>>)
      BY <2>3, <3>1, SegmentIs
    <3> QED
      BY <1>3, <2>1, <3>2 DEF Opened, Sends
  <2>6. Moves(h, i, d, new)
    BY <2>2, <2>4, <2>5 DEF Moves
  <2>7. Opening(h, d) /\ d.lport = Ephemeral
    BY <1>3, <2>1, <2>2 DEF Opening, Bumped
  <2> QED
    BY <1>1, <1>4, <1>6, <2>4, <2>5, <2>6, <2>7
<1>7. CASE /\ ~ready[h] /\ Set(h, i, c) /\ pending' = [pending EXCEPT ![h] = i]
           /\ UNCHANGED <<net, isn>>
  <2>1. Moves(h, i, c, {})
    BY <1>3, <1>7 DEF Moves
  <2> QED
    BY <1>1, <1>3, <1>4, <1>7, <2>1
<1> QED
  BY <1>5, <1>6, <1>7

LEMMA ListenDoes ==
  ASSUME TypeInv, NEW h \in Host, net_tcp_listen(h)
  PROVE  /\ h = Server /\ \A i \in Slot[h] : conns[h][i] = Zero
         /\ \E i \in Slot[h] : \E d :
              /\ Moves(h, i, d, {}) /\ d.state = "LISTEN" /\ d.lport = PORT /\ NoData(d)
              /\ d.in_use
              /\ held' = [held EXCEPT ![h] = @ \cup {i}]
<1>1. h = Server /\ held[h] = {} /\ \A i \in Slot[h] : conns[h][i] = Zero
  BY DEF net_tcp_listen
<1>2. PICK i \in Slot[h] : i = First(Free(h))
  BY <1>1, AllFree, FreeIs
<1>3. PICK q \in Seq32 : q = isn[h]
  BY DEF TypeInv, NetOK
<1>4. PICK d : d = [Zero EXCEPT !.in_use = TRUE, !.state = "LISTEN", !.lport = PORT, !.seq = q]
  OBVIOUS
<1>5. d \in Conns
  BY <1>4, ZeroIs DEF Conns, States, Ports
<1>6. /\ d.state = "LISTEN" /\ d.in_use = TRUE /\ d.lport = PORT /\ d.rx = <<>>
      /\ d.tx = <<>> /\ d.parent = None /\ d.eof = FALSE
  BY <1>4 DEF Zero
<1>7. Sized(h, d)
  BY <1>5, <1>6, TcpAssumption DEF Sized
<1>8. Set(h, i, d) /\ held' = [held EXCEPT ![h] = @ \cup {i}] /\ net' = net
  BY <1>2, <1>3, <1>4 DEF net_tcp_listen
<1>9. Moves(h, i, d, {})
  BY <1>7, <1>8 DEF Moves
<1> QED
  BY <1>1, <1>6, <1>8, <1>9 DEF NoData

LEMMA AcceptDoes ==
  ASSUME TypeInv, NEW h \in Host, NEW l, net_tcp_accept(h, l)
  PROVE  \E i \in Slot[h] : \E d :
           /\ Moves(h, i, d, {}) /\ held' = [held EXCEPT ![h] = @ \cup {i}]
           /\ KeptFields(d, conns[h][i]) /\ d.state = conns[h][i].state /\ d.ack = conns[h][i].ack
           /\ d.eof = conns[h][i].eof /\ d.in_use = conns[h][i].in_use
           /\ d.state = "ESTABLISHED"
<1> DEFINE done == {i \in Slot[h] : /\ conns[h][i].in_use /\ ~conns[h][i].accepted
                                    /\ conns[h][i].parent = l
                                    /\ conns[h][i].state = "ESTABLISHED"}
<1>1. /\ done # {} /\ Set(h, First(done), [conns[h][First(done)] EXCEPT !.accepted = TRUE])
      /\ held' = [held EXCEPT ![h] = @ \cup {First(done)}] /\ net' = net
  BY DEF net_tcp_accept
<1>2. First(done) \in done
  <2>1. done \in SUBSET Nat
    BY SlotsAre
  <2> HIDE DEF done
  <2> QED
    BY <1>1, <2>1, FirstIs
<1>3. PICK i \in Slot[h] : i = First(done)
  BY <1>2
<1>4. PICK c : c = conns[h][i] /\ Sized(h, c) /\ c.state = "ESTABLISHED"
  BY <1>2, <1>3 DEF TypeInv, TablesOK
<1> HIDE DEF done
<1>5. PICK d : d = [c EXCEPT !.accepted = TRUE]
  OBVIOUS
<1>6. c \in Conns
  BY <1>4 DEF Sized
<1>7. d \in Conns
  BY <1>5, <1>6 DEF Conns
<1>8. /\ d.seq = c.seq /\ d.ack = c.ack /\ d.rx = c.rx /\ d.tx = c.tx /\ d.state = c.state
      /\ d.unacked_seq = c.unacked_seq /\ d.lport = c.lport /\ d.rport = c.rport
      /\ d.parent = c.parent
  BY <1>5, <1>6 DEF Conns
<1>9. d.eof = c.eof /\ d.in_use = c.in_use
  BY <1>5, <1>6, Zenon DEF Conns
<1>10. Sized(h, d)
  BY <1>4, <1>7, <1>8 DEF Sized
<1>11. Moves(h, i, d, {})
  BY <1>1, <1>3, <1>4, <1>5, <1>10 DEF Moves
<1> QED
  BY <1>1, <1>3, <1>4, <1>8, <1>9, <1>11 DEF KeptFields

\* The next n bytes of h
Numbered(h, n) == [k \in 1 .. n |-> sent[h] + k]

LEMMA SendDoes ==
  ASSUME TypeInv, NEW h \in Host, NEW i \in held[h], NEW n \in 1 .. MaxLen, net_tcp_send(h, i, n)
  PROVE  /\ i \in Slot[h] /\ conns[h][i].state = "ESTABLISHED" /\ conns[h][i].tx = <<>>
         /\ sent[h] + n <= Writes[h] /\ sent' = [sent EXCEPT ![h] = @ + n]
         /\ Numbered(h, n) \in Seq(Nat) /\ Len(Numbered(h, n)) = n
         /\ \E d, new :
              /\ Moves(h, i, d, new)
              /\ d.seq = Plus(conns[h][i].seq, n) /\ d.unacked_seq = conns[h][i].seq
              /\ d.tx = Numbered(h, n) /\ d.rx = conns[h][i].rx /\ d.ack = conns[h][i].ack
              /\ d.lport = conns[h][i].lport /\ d.rport = conns[h][i].rport
              /\ d.state = "ESTABLISHED"
              /\ d.eof = conns[h][i].eof /\ d.in_use = conns[h][i].in_use
              /\ Sends(new, h, conns[h][i], {"ACK"}, Numbered(h, n))
<1>1. i \in Slot[h] /\ n \in Nat /\ n <= MaxLen /\ sent[h] \in Nat
  BY TcpAssumption DEF TypeInv, IdsOK, HistOK
<1>2. PICK c : c = conns[h][i] /\ Sized(h, c)
  BY <1>1 DEF TypeInv, TablesOK
<1>3. /\ c.state = "ESTABLISHED" /\ c.tx = <<>> /\ sent[h] + n <= Writes[h]
      /\ sent' = [sent EXCEPT ![h] = @ + n]
  BY <1>2 DEF net_tcp_send
<1>4. Numbered(h, n) \in Seq(Nat) /\ Len(Numbered(h, n)) = n
  BY <1>1 DEF Numbered
<1>5. PICK q : q = Numbered(h, n)
  OBVIOUS
<1>6. /\ Set(h, i, [c EXCEPT !.unacked_seq = c.seq, !.tx = q, !.retrans = 0, !.seq = Plus(@, n)])
      /\ net' = net \cup Segment(h, c, {"ACK"}, q)
  BY <1>2, <1>5 DEF net_tcp_send, Numbered
<1>7. c \in Conns /\ c.seq \in Seq32 /\ c.seq \in Nat
  BY <1>2, Fields DEF Sized
<1>8. PICK a \in Seq32 : a = Plus(c.seq, n)
  BY <1>1, <1>7, PlusIn
<1>9. PICK d : d = [c EXCEPT !.unacked_seq = c.seq, !.tx = q, !.retrans = 0, !.seq = Plus(@, n)]
  OBVIOUS
<1>10. d = [c EXCEPT !.unacked_seq = c.seq, !.tx = q, !.retrans = 0, !.seq = a]
  BY <1>7, <1>8, <1>9 DEF Conns
<1>11. d \in Conns
  <2>1. 0 \in 0 .. RETRANS_MAX /\ q \in Seq(Nat)
    BY <1>4, <1>5, TcpAssumption
  <2> QED
    BY <1>7, <1>10, <2>1 DEF Conns
<1>12. /\ d.seq = a /\ d.ack = c.ack /\ d.rx = c.rx /\ d.tx = q /\ d.state = c.state
       /\ d.unacked_seq = c.seq /\ d.lport = c.lport /\ d.rport = c.rport /\ d.parent = c.parent
  BY <1>7, <1>10 DEF Conns
<1>13. d.eof = c.eof /\ d.in_use = c.in_use
  BY <1>7, <1>10, Zenon DEF Conns
<1>14. Sized(h, d)
  BY <1>1, <1>2, <1>4, <1>5, <1>11, <1>12 DEF Sized
<1>15. PICK new : new = Segment(h, c, {"ACK"}, q)
  OBVIOUS
<1>16. Sends(new, h, c, {"ACK"}, q)
  <2>1. {"ACK"} \in SUBSET Flags /\ q \in Seq(Nat)
    BY <1>4, <1>5 DEF Flags
  <2> QED
    BY <1>7, <1>15, <2>1, SegmentIs
<1>17. Moves(h, i, d, new)
  BY <1>6, <1>9, <1>14, <1>15, <1>16 DEF Moves, Sends
<1>18. /\ Moves(h, i, d, new)
       /\ d.seq = Plus(c.seq, n) /\ d.unacked_seq = c.seq
       /\ d.tx = q /\ d.rx = c.rx /\ d.ack = c.ack
       /\ d.lport = c.lport /\ d.rport = c.rport
       /\ d.state = "ESTABLISHED"
       /\ d.eof = c.eof /\ d.in_use = c.in_use
       /\ Sends(new, h, c, {"ACK"}, q)
  BY <1>3, <1>8, <1>12, <1>13, <1>16, <1>17
<1> QED
  BY <1>1, <1>2, <1>3, <1>4, <1>5, <1>18

LEMMA RecvDoes ==
  ASSUME TypeInv, NEW h \in Host, NEW i \in held[h], NEW n \in 1 .. Len(conns[h][i].rx),
         net_tcp_recv(h, i, n)
  PROVE  /\ i \in Slot[h] /\ conns[h][i].state # "CLOSED" /\ n <= Len(conns[h][i].rx)
         /\ got' = [got EXCEPT ![Peer(h)] = @ \o SubSeq(conns[h][i].rx, 1, n)]
         /\ \E d, new :
              /\ Moves(h, i, d, new)
              /\ d.rx = SubSeq(conns[h][i].rx, n + 1, Len(conns[h][i].rx))
              /\ d.seq = conns[h][i].seq /\ d.ack = conns[h][i].ack /\ d.tx = conns[h][i].tx
              /\ d.unacked_seq = conns[h][i].unacked_seq
              /\ d.lport = conns[h][i].lport /\ d.rport = conns[h][i].rport
              /\ d.state = conns[h][i].state
              /\ d.eof = conns[h][i].eof /\ d.in_use = conns[h][i].in_use
              /\ new # {} => d.state \in {"ESTABLISHED", "CLOSE_WAIT"}
              /\ Sends(new, h, d, {"ACK"}, <<>>)
<1>1. i \in Slot[h]
  BY DEF TypeInv, IdsOK
<1>2. PICK c : c = conns[h][i] /\ Sized(h, c)
  BY <1>1 DEF TypeInv, TablesOK
<1>3. c \in Conns /\ c.rx \in Seq(Nat) /\ Len(c.rx) \in Nat /\ n \in Nat /\ n <= Len(c.rx)
  <2>1. c \in Conns
    BY <1>2 DEF Sized
  <2>2. c.rx \in Seq(Nat) /\ Len(c.rx) \in Nat
    BY <2>1, Fields
  <2>3. n \in 1 .. Len(c.rx)
    BY <1>2
  <2> QED
    BY <2>1, <2>2, <2>3
<1>4. PICK q : q = SubSeq(c.rx, n + 1, Len(c.rx))
  OBVIOUS
<1>5. q \in Seq(Nat) /\ Len(q) = Len(c.rx) - n
  BY <1>3, <1>4, RestSeq
<1>6. PICK d : d = [c EXCEPT !.rx = SubSeq(@, n + 1, Len(@))]
  OBVIOUS
<1>7. d = [c EXCEPT !.rx = q]
  BY <1>3, <1>4, <1>6 DEF Conns
<1>8. d \in Conns
  BY <1>3, <1>5, <1>7 DEF Conns
<1>9. /\ d.seq = c.seq /\ d.ack = c.ack /\ d.rx = q /\ d.tx = c.tx /\ d.state = c.state
      /\ d.unacked_seq = c.unacked_seq /\ d.lport = c.lport /\ d.rport = c.rport
      /\ d.parent = c.parent
  BY <1>3, <1>7 DEF Conns
<1>10. d.eof = c.eof /\ d.in_use = c.in_use
  BY <1>3, <1>7, Zenon DEF Conns
<1>11. Sized(h, d)
  <2>1. Len(c.rx) <= BUF /\ BUF \in Nat
    BY <1>2, TcpAssumption DEF Sized
  <2>2. Len(q) <= BUF
    BY <1>3, <1>5, <2>1
  <2> QED
    BY <1>2, <1>8, <1>9, <2>2 DEF Sized
<1>12. /\ Set(h, i, d)
       /\ net' = net \cup
            IF /\ BUF - Len(c.rx) < MSS /\ BUF - Len(d.rx) >= MSS
               /\ c.state \in {"ESTABLISHED", "CLOSE_WAIT"}
            THEN Segment(h, d, {"ACK"}, <<>>) ELSE {}
       /\ got' = [got EXCEPT ![Peer(h)] = @ \o SubSeq(c.rx, 1, n)]
       /\ c.state # "CLOSED"
  BY <1>2, <1>6 DEF net_tcp_recv
<1>13. PICK new : /\ net' = net \cup new
                  /\ new # {} => c.state \in {"ESTABLISHED", "CLOSE_WAIT"}
                  /\ new \in {Segment(h, d, {"ACK"}, <<>>), {}}
  BY <1>12
<1>14. Sends(new, h, d, {"ACK"}, <<>>)
  <2>1. {"ACK"} \in SUBSET Flags /\ <<>> \in Seq(Nat)
    BY DEF Flags
  <2>2. Sends(Segment(h, d, {"ACK"}, <<>>), h, d, {"ACK"}, <<>>)
    BY <1>8, <2>1, SegmentIs
  <2> QED
    BY <1>13, <2>2 DEF Sends
<1>15. Moves(h, i, d, new)
  BY <1>11, <1>12, <1>13, <1>14 DEF Moves, Sends
<1>16. /\ Moves(h, i, d, new)
       /\ d.rx = SubSeq(c.rx, n + 1, Len(c.rx))
       /\ d.seq = c.seq /\ d.ack = c.ack /\ d.tx = c.tx /\ d.unacked_seq = c.unacked_seq
       /\ d.lport = c.lport /\ d.rport = c.rport /\ d.state = c.state
       /\ d.eof = c.eof /\ d.in_use = c.in_use
       /\ new # {} => d.state \in {"ESTABLISHED", "CLOSE_WAIT"}
       /\ Sends(new, h, d, {"ACK"}, <<>>)
  BY <1>4, <1>9, <1>10, <1>13, <1>14, <1>15
<1> QED
  BY <1>1, <1>2, <1>3, <1>12, <1>16

LEMMA CloseDoes ==
  ASSUME TypeInv, NEW h \in Host, NEW i \in held[h], net_tcp_close(h, i)
  PROVE  /\ i \in Slot[h] /\ held' = [held EXCEPT ![h] = @ \ {i}]
         /\ cut' = IF conns[h][i].tx # <<>> THEN cut \cup {h} ELSE cut
         /\ \/ /\ ~conns[h][i].in_use /\ conns' = conns /\ net' = net
            \/ \E d, new :
                 /\ conns[h][i].in_use /\ Moves(h, i, d, new)
                 /\ d.rx = conns[h][i].rx /\ d.tx = conns[h][i].tx
                 /\ d.ack = conns[h][i].ack /\ d.eof = conns[h][i].eof
                 /\ d.unacked_seq = conns[h][i].unacked_seq
                 /\ d.lport = conns[h][i].lport /\ d.rport = conns[h][i].rport
                 /\ \/ /\ conns[h][i].state \in {"ESTABLISHED", "CLOSE_WAIT"}
                       /\ d.state = IF conns[h][i].state = "ESTABLISHED" THEN "FIN_WAIT_1"
                                                                         ELSE "LAST_ACK"
                       /\ d.seq = Plus(conns[h][i].seq, 1) /\ d.in_use
                       /\ Sends(new, h, conns[h][i], {"ACK", "FIN"}, <<>>)
                    \/ /\ conns[h][i].state \notin {"ESTABLISHED", "CLOSE_WAIT"}
                       /\ d.state = "CLOSED" /\ ~d.in_use /\ d.seq = conns[h][i].seq
                       /\ new = {}
<1>1. i \in Slot[h]
  BY DEF TypeInv, IdsOK
<1>2. PICK c : c = conns[h][i] /\ Sized(h, c)
  BY <1>1 DEF TypeInv, TablesOK
<1>3. c \in Conns
  BY <1>2 DEF Sized
<1>4. PICK fin : /\ fin = [c EXCEPT !.seq = Plus(@, 1)] /\ Sized(h, fin) /\ Bumped(fin, c)
                 /\ fin.state = c.state
  BY <1>2, BumpedIs
<1>5. held' = [held EXCEPT ![h] = @ \ {i}] /\ cut' = IF c.tx # <<>> THEN cut \cup {h} ELSE cut
  BY <1>2 DEF net_tcp_close
<1>6. \/ ~c.in_use /\ UNCHANGED <<conns, net>>
      \/ /\ c.in_use /\ c.state = "ESTABLISHED"
         /\ Set(h, i, [fin EXCEPT !.state = "FIN_WAIT_1"])
         /\ net' = net \cup Segment(h, c, {"ACK", "FIN"}, <<>>)
      \/ /\ c.in_use /\ c.state = "CLOSE_WAIT"
         /\ Set(h, i, [fin EXCEPT !.state = "LAST_ACK"])
         /\ net' = net \cup Segment(h, c, {"ACK", "FIN"}, <<>>)
      \/ /\ c.in_use /\ c.state \notin {"ESTABLISHED", "CLOSE_WAIT"}
         /\ Set(h, i, Closed(c)) /\ UNCHANGED net
  BY <1>2, <1>4 DEF net_tcp_close
<1>7. ASSUME NEW st \in {"FIN_WAIT_1", "LAST_ACK"}, c.in_use,
             c.state = IF st = "FIN_WAIT_1" THEN "ESTABLISHED" ELSE "CLOSE_WAIT",
             Set(h, i, [fin EXCEPT !.state = st]),
             net' = net \cup Segment(h, c, {"ACK", "FIN"}, <<>>)
      PROVE  \E d, new :
                 /\ c.in_use /\ Moves(h, i, d, new)
                 /\ d.rx = c.rx /\ d.tx = c.tx /\ d.ack = c.ack /\ d.eof = c.eof
                 /\ d.unacked_seq = c.unacked_seq /\ d.lport = c.lport /\ d.rport = c.rport
                 /\ c.state \in {"ESTABLISHED", "CLOSE_WAIT"}
                 /\ d.state = IF c.state = "ESTABLISHED" THEN "FIN_WAIT_1" ELSE "LAST_ACK"
                 /\ d.seq = Plus(c.seq, 1) /\ d.in_use
                 /\ Sends(new, h, c, {"ACK", "FIN"}, <<>>)
  <2>1. PICK d : d = [fin EXCEPT !.state = st]
    OBVIOUS
  <2>2. fin \in Conns
    BY <1>4 DEF Sized
  <2>3. d \in Conns
    BY <2>1, <2>2 DEF Conns, States
  <2>4. /\ d.seq = fin.seq /\ d.ack = fin.ack /\ d.rx = fin.rx /\ d.tx = fin.tx /\ d.state = st
        /\ d.unacked_seq = fin.unacked_seq /\ d.lport = fin.lport /\ d.rport = fin.rport
        /\ d.parent = fin.parent
    BY <2>1, <2>2 DEF Conns
  <2>5. d.eof = fin.eof /\ d.in_use = fin.in_use
    BY <2>1, <2>2, Zenon DEF Conns
  <2>6. Sized(h, d)
    BY <1>4, <2>3, <2>4 DEF Sized
  <2>7. PICK new : new = Segment(h, c, {"ACK", "FIN"}, <<>>)
    OBVIOUS
  <2>8. Sends(new, h, c, {"ACK", "FIN"}, <<>>)
    <3>1. {"ACK", "FIN"} \in SUBSET Flags /\ <<>> \in Seq(Nat)
      BY DEF Flags
    <3> QED
      BY <1>3, <2>7, <3>1, SegmentIs
  <2>9. Moves(h, i, d, new)
    BY <1>7, <2>1, <2>6, <2>7, <2>8 DEF Moves, Sends
  <2> QED
    BY <1>4, <1>7, <2>4, <2>5, <2>8, <2>9 DEF Bumped
<1>8. CASE /\ c.in_use /\ c.state \in {"ESTABLISHED", "CLOSE_WAIT"}
           /\ Set(h, i, [fin EXCEPT !.state = IF c.state = "ESTABLISHED" THEN "FIN_WAIT_1"
                                                                        ELSE "LAST_ACK"])
           /\ net' = net \cup Segment(h, c, {"ACK", "FIN"}, <<>>)
  <2>1. PICK st : st = IF c.state = "ESTABLISHED" THEN "FIN_WAIT_1" ELSE "LAST_ACK"
    OBVIOUS
  <2>2. /\ st \in {"FIN_WAIT_1", "LAST_ACK"}
        /\ c.state = IF st = "FIN_WAIT_1" THEN "ESTABLISHED" ELSE "CLOSE_WAIT"
    BY <1>8, <2>1
  <2>3. Set(h, i, [fin EXCEPT !.state = st])
    BY <1>8, <2>1
  <2>4. \E d, new :
          /\ c.in_use /\ Moves(h, i, d, new)
          /\ d.rx = c.rx /\ d.tx = c.tx /\ d.ack = c.ack /\ d.eof = c.eof
          /\ d.unacked_seq = c.unacked_seq /\ d.lport = c.lport /\ d.rport = c.rport
          /\ c.state \in {"ESTABLISHED", "CLOSE_WAIT"}
          /\ d.state = IF c.state = "ESTABLISHED" THEN "FIN_WAIT_1" ELSE "LAST_ACK"
          /\ d.seq = Plus(c.seq, 1) /\ d.in_use
          /\ Sends(new, h, c, {"ACK", "FIN"}, <<>>)
    BY <1>7, <1>8, <2>2, <2>3
  <2> QED
    BY <1>1, <1>2, <1>5, <2>4
<1>9. CASE /\ c.in_use /\ c.state \notin {"ESTABLISHED", "CLOSE_WAIT"}
           /\ Set(h, i, Closed(c)) /\ UNCHANGED net
  <2>1. PICK d : /\ d = Closed(c) /\ Sized(h, d) /\ d.state = "CLOSED" /\ ~d.in_use
                 /\ d.seq = c.seq /\ d.ack = c.ack /\ d.rx = c.rx /\ d.tx = c.tx
                 /\ d.unacked_seq = c.unacked_seq /\ d.eof = c.eof
                 /\ d.lport = c.lport /\ d.rport = c.rport
    BY <1>2, ClosedIs
  <2>2. Moves(h, i, d, {})
    BY <1>9, <2>1 DEF Moves
  <2>3. \E e, new :
                 /\ c.in_use /\ Moves(h, i, e, new)
                 /\ e.rx = c.rx /\ e.tx = c.tx /\ e.ack = c.ack /\ e.eof = c.eof
                 /\ e.unacked_seq = c.unacked_seq /\ e.lport = c.lport /\ e.rport = c.rport
                 /\ c.state \notin {"ESTABLISHED", "CLOSE_WAIT"}
                 /\ e.state = "CLOSED" /\ ~e.in_use /\ e.seq = c.seq /\ new = {}
    BY <1>9, <2>1, <2>2
  <2> QED
    BY <1>1, <1>2, <1>5, <2>3
<1>10. CASE ~c.in_use /\ UNCHANGED <<conns, net>>
  BY <1>1, <1>2, <1>5, <1>10
<1> QED
  BY <1>6, <1>8, <1>9, <1>10

LEMMA TimeoutDoes ==
  ASSUME TypeInv, NEW h \in Host, NEW i \in Slot[h], ConnectTimeout(h, i)
  PROVE  /\ conns[h][i].state = "SYN_SENT"
         /\ \E d : /\ Moves(h, i, d, {}) /\ d.state = "CLOSED" /\ ~d.in_use /\ d.seq = conns[h][i].seq
                   /\ d.ack = conns[h][i].ack /\ d.rx = conns[h][i].rx /\ d.tx = conns[h][i].tx
                   /\ d.unacked_seq = conns[h][i].unacked_seq /\ d.eof = conns[h][i].eof
                   /\ d.lport = conns[h][i].lport /\ d.rport = conns[h][i].rport
<1>1. PICK c : c = conns[h][i] /\ Sized(h, c)
  BY DEF TypeInv, TablesOK
<1>2. c.state = "SYN_SENT" /\ Set(h, i, Closed(c)) /\ net' = net
  BY <1>1 DEF ConnectTimeout
<1>3. PICK d : /\ d = Closed(c) /\ Sized(h, d) /\ d.state = "CLOSED" /\ ~d.in_use
               /\ d.seq = c.seq /\ d.ack = c.ack /\ d.rx = c.rx /\ d.tx = c.tx
               /\ d.unacked_seq = c.unacked_seq /\ d.eof = c.eof
               /\ d.lport = c.lport /\ d.rport = c.rport
  BY <1>1, ClosedIs
<1>4. Moves(h, i, d, {})
  BY <1>2, <1>3 DEF Moves
<1> QED
  BY <1>1, <1>2, <1>3, <1>4

LEMMA RetransmitDoes ==
  ASSUME TypeInv, NEW h \in Host, NEW i \in Slot[h], Retransmit(h, i)
  PROVE  /\ conns[h][i].in_use /\ conns[h][i].state # "SYN_SENT" /\ conns[h][i].tx # <<>>
         /\ \E d, new :
              /\ Moves(h, i, d, new) /\ KeptFields(d, conns[h][i]) /\ d.state = conns[h][i].state
              /\ d.ack = conns[h][i].ack /\ d.eof = conns[h][i].eof
              /\ d.in_use = conns[h][i].in_use
              /\ new \subseteq Segments
              /\ \A s \in new : /\ s.src = h /\ s.flags = {"ACK"} /\ s.data = conns[h][i].tx
                                /\ s.seq = conns[h][i].unacked_seq /\ s.ack = conns[h][i].ack
<1>1. PICK c : c = conns[h][i] /\ Sized(h, c)
  BY DEF TypeInv, TablesOK
<1>2. /\ c.in_use /\ c.state # "SYN_SENT" /\ c.tx # <<>> /\ c.retrans < RETRANS_MAX
      /\ Set(h, i, [c EXCEPT !.retrans = @ + 1])
      /\ net' = net \cup Segment(h, [c EXCEPT !.seq = c.unacked_seq], {"ACK"}, c.tx)
  BY <1>1 DEF Retransmit
<1>3. /\ c \in Conns /\ c.retrans \in 0 .. RETRANS_MAX /\ c.tx \in Seq(Nat)
      /\ c.unacked_seq \in Seq32
  BY <1>1, Fields DEF Sized
<1>4. PICK r \in 0 .. RETRANS_MAX : r = c.retrans + 1
  <2>1. RETRANS_MAX \in Nat /\ c.retrans \in 0 .. RETRANS_MAX /\ c.retrans < RETRANS_MAX
    BY <1>2, <1>3, TcpAssumption
  <2>2. c.retrans + 1 \in 0 .. RETRANS_MAX
    BY <2>1
  <2> QED
    BY <2>2
<1>5. PICK d : d = [c EXCEPT !.retrans = @ + 1]
  OBVIOUS
<1>6. d = [c EXCEPT !.retrans = r]
  BY <1>3, <1>4, <1>5 DEF Conns
<1>7. d \in Conns
  BY <1>3, <1>6 DEF Conns
<1>8. KeptFields(d, c) /\ d.state = c.state /\ d.ack = c.ack /\ d.parent = c.parent
  BY <1>3, <1>6 DEF Conns, KeptFields
<1>9. d.eof = c.eof /\ d.in_use = c.in_use
  BY <1>3, <1>6, Zenon DEF Conns
<1>10. Sized(h, d)
  BY <1>1, <1>7, <1>8 DEF Sized, KeptFields
<1>11. PICK e : e = [c EXCEPT !.seq = c.unacked_seq]
  OBVIOUS
<1>12. e \in Conns /\ e.seq = c.unacked_seq /\ e.ack = c.ack
  BY <1>3, <1>11 DEF Conns
<1>13. PICK new : new = Segment(h, e, {"ACK"}, c.tx)
  OBVIOUS
<1>14. Sends(new, h, e, {"ACK"}, c.tx)
  <2>1. {"ACK"} \in SUBSET Flags
    BY DEF Flags
  <2> QED
    BY <1>3, <1>12, <1>13, <2>1, SegmentIs
<1>15. Moves(h, i, d, new)
  BY <1>2, <1>5, <1>10, <1>11, <1>13, <1>14 DEF Moves, Sends
<1>16. /\ new \subseteq Segments
       /\ \A s \in new : /\ s.src = h /\ s.flags = {"ACK"} /\ s.data = c.tx
                         /\ s.seq = c.unacked_seq /\ s.ack = c.ack
  BY <1>12, <1>14 DEF Sends
<1> QED
  BY <1>1, <1>2, <1>8, <1>9, <1>15, <1>16

LEMMA ArpDoes ==
  ASSUME TypeInv, NEW h \in Host, ArpReply(h)
  PROVE  /\ ~ready[h] /\ ready' = [ready EXCEPT ![h] = TRUE]
         /\ pending' = [pending EXCEPT ![h] = None]
         /\ \/ /\ pending[h] # None /\ pending[h] \in Slot[h] /\ Advance(h)
               /\ \E d, new : /\ Moves(h, pending[h], d, new) /\ Opening(h, d)
                              /\ d.lport = conns[h][pending[h]].lport
                              /\ \A s \in new : /\ Opened(h, s)
                                                /\ s.sport = conns[h][pending[h]].lport
            \/ pending[h] = None /\ conns' = conns /\ net' = net /\ isn' = isn
<1>1. /\ ~ready[h] /\ ready' = [ready EXCEPT ![h] = TRUE]
      /\ pending' = [pending EXCEPT ![h] = None]
  BY DEF ArpReply
<1>2. CASE pending[h] # None
  <2>1. PICK i \in Slot[h] : i = pending[h]
    BY <1>2 DEF TypeInv, IdsOK
  <2>2. PICK c : c = conns[h][i] /\ Sized(h, c)
    BY DEF TypeInv, TablesOK
  <2>3. PICK e : /\ e = Started(h, c) /\ Sized(h, e) /\ e.state = "SYN_SENT" /\ e.seq = isn[h]
                 /\ e.ack = 0 /\ e.rx = <<>> /\ e.tx = <<>> /\ ~e.eof /\ e.rport = PORT
                 /\ e.lport = c.lport
    <3>1. isn[h] \in Seq32
      BY DEF TypeInv, NetOK
    <3>2. Sized(h, c)
      BY <2>2
    <3> QED
      BY <3>1, <3>2, StartedIs
  <2>13. PICK f : /\ f = Started(h, e) /\ Sized(h, f) /\ f.state = "SYN_SENT" /\ f.seq = isn[h]
                  /\ f.ack = 0 /\ f.rx = <<>> /\ f.tx = <<>> /\ ~f.eof /\ f.rport = PORT
                  /\ f.lport = e.lport
    <3>1. isn[h] \in Seq32
      BY DEF TypeInv, NetOK
    <3>2. Sized(h, e)
      BY <2>3
    <3> QED
      BY <3>1, <3>2, StartedIs
  <2>4. PICK d : /\ d = [f EXCEPT !.seq = Plus(@, 1)] /\ Sized(h, d) /\ Bumped(d, f)
                 /\ d.state = f.state
    BY <2>13, BumpedIs
  <2>5. PICK s : s = [src |-> h, sport |-> e.lport, dport |-> e.rport, flags |-> {"SYN"},
                      seq |-> e.seq, ack |-> 0, data |-> <<>>]
    OBVIOUS
  <2>6. StartConn(h, i, e, {s})
    BY <1>2, <2>1, <2>2, <2>3, <2>5 DEF ArpReply
  <2>7. Set(h, i, d) /\ net' = net \cup {s} /\ Advance(h)
    BY <2>4, <2>6, <2>13 DEF StartConn
  <2>8. s \in Segments /\ Opened(h, s) /\ s.sport = c.lport
    <3>1. e \in Conns /\ e.lport \in Ports /\ e.rport \in Ports /\ e.seq \in Seq32
      BY <2>3, Fields DEF Sized
    <3>2. {"SYN"} \in SUBSET Flags /\ <<>> \in Seq(Nat) /\ 0 \in Seq32
      BY Seq32In DEF Flags
    <3>3. s \in Segments
      BY <2>5, <3>1, <3>2 DEF Segments
    <3>4. /\ s.src = h /\ s.flags = {"SYN"} /\ s.seq = e.seq /\ s.ack = 0 /\ s.data = <<>>
          /\ s.dport = e.rport /\ s.sport = e.lport
      BY <2>5
    <3> QED
      BY <2>3, <3>3, <3>4 DEF Opened
  <2>9. Moves(h, i, d, {s})
    BY <2>4, <2>7, <2>8 DEF Moves
  <2>10. Opening(h, d) /\ d.lport = c.lport
    BY <2>3, <2>4, <2>13 DEF Opening, Bumped
  <2>11. \A x \in {s} : Opened(h, x) /\ x.sport = c.lport
    BY <2>8
  <2>12. \E b, new : /\ Moves(h, i, b, new) /\ Opening(h, b) /\ b.lport = c.lport
                     /\ \A x \in new : Opened(h, x) /\ x.sport = c.lport
    BY <2>9, <2>10, <2>11
  <2> QED
    BY <1>1, <1>2, <2>1, <2>2, <2>7, <2>12
<1>3. CASE pending[h] = None
  <2>1. conns' = conns /\ net' = net /\ isn' = isn
    BY <1>3 DEF ArpReply
  <2> QED
    BY <1>1, <1>3, <2>1
<1> QED
  BY <1>2, <1>3

LEMMA ForgeDoes ==
  ASSUME TypeInv, NEW h \in Host, NEW i \in Slot[h], Forge(h, i)
  PROVE  /\ conns' = conns /\ cut' = Host
         /\ \E s \in Segments : /\ net' = net \cup {s} /\ s.flags = {"RST"} /\ s.data = <<>>
                                /\ s.src = Peer(h)
<1>1. PICK c : c = conns[h][i] /\ c \in Conns
  BY DEF TypeInv, TablesOK, Sized
<1>2. PICK s : s = [src |-> Peer(h), sport |-> c.rport, dport |-> c.lport,
                    flags |-> {"RST"}, seq |-> 0, ack |-> 0, data |-> <<>>]
  OBVIOUS
<1>3. conns' = conns /\ cut' = Host /\ net' = net \cup {s}
  BY <1>1, <1>2 DEF Forge
<1>4. s \in Segments
  <2>1. /\ c.lport \in Ports /\ c.rport \in Ports /\ Peer(h) \in Host /\ 0 \in Seq32
        /\ {"RST"} \in SUBSET Flags /\ <<>> \in Seq(Nat)
    BY <1>1, Fields, Hosts, Seq32In DEF Flags
  <2> QED
    BY <1>2, <2>1 DEF Segments
<1>5. s.flags = {"RST"} /\ s.data = <<>> /\ s.src = Peer(h)
  BY <1>2
<1> QED
  BY <1>3, <1>4, <1>5

-----------------------------------------------------------------------------
(* What net_handle_tcp does                                                *)

\* Slot i of h becomes d; air and the segments in new are in flight.
Takes(h, i, d, air, new) == /\ Set(h, i, d) /\ Sized(h, d)
                            /\ net' = air \cup new /\ new \subseteq Segments

LEMMA MatchIs ==
  ASSUME NEW h \in Host, NEW s, Matching(h, s) # {}
  PROVE  /\ First(Matching(h, s)) \in Slot[h]
         /\ conns[h][First(Matching(h, s))].in_use
         /\ conns[h][First(Matching(h, s))].lport = s.dport
         /\ conns[h][First(Matching(h, s))].rport = s.sport
<1>1. Matching(h, s) \subseteq Slot[h]
  BY DEF Matching
<1>2. Matching(h, s) \in SUBSET Nat
  BY <1>1, SlotsAre
<1>3. First(Matching(h, s)) \in Matching(h, s)
  BY <1>2, FirstIs
<1> QED
  BY <1>3 DEF Matching

LEMMA ListenerIs ==
  ASSUME NEW h \in Host, NEW s, Listening(h, s) # {}
  PROVE  /\ First(Listening(h, s)) \in Slot[h]
         /\ conns[h][First(Listening(h, s))].in_use
         /\ conns[h][First(Listening(h, s))].state = "LISTEN"
         /\ conns[h][First(Listening(h, s))].lport = s.dport
<1>1. Listening(h, s) \subseteq Slot[h]
  BY DEF Listening
<1>2. Listening(h, s) \in SUBSET Nat
  BY <1>1, SlotsAre
<1>3. First(Listening(h, s)) \in Listening(h, s)
  BY <1>2, FirstIs
<1> QED
  BY <1>3 DEF Listening

LEMMA ResetDoes ==
  ASSUME TypeInv, NEW h \in Host, NEW i \in Slot[h], NEW s, NEW air, Reset(h, i, s, air)
  PROVE  /\ "RST" \in s.flags /\ isn' = isn /\ stored' = stored
         /\ \E d : /\ Takes(h, i, d, air, {}) /\ d.state = "CLOSED" /\ ~d.in_use
                   /\ KeptFields(d, conns[h][i]) /\ d.ack = conns[h][i].ack /\ d.eof = conns[h][i].eof
<1>1. PICK c : c = conns[h][i] /\ Sized(h, c)
  BY DEF TypeInv, TablesOK
<1>2. /\ Set(h, i, Closed(c)) /\ net' = air /\ "RST" \in s.flags /\ isn' = isn
      /\ stored' = stored
  BY <1>1 DEF Reset
<1>3. PICK d : /\ d = Closed(c) /\ Sized(h, d) /\ d.state = "CLOSED" /\ ~d.in_use
               /\ d.seq = c.seq /\ d.ack = c.ack /\ d.rx = c.rx /\ d.tx = c.tx
               /\ d.unacked_seq = c.unacked_seq /\ d.eof = c.eof
               /\ d.lport = c.lport /\ d.rport = c.rport
  BY <1>1, ClosedIs
<1>4. Takes(h, i, d, air, {}) /\ KeptFields(d, c)
  BY <1>2, <1>3 DEF Takes, KeptFields
<1> QED
  BY <1>1, <1>2, <1>3, <1>4

\* d is c, connected to the sender of s.
Connected(d, c, s) == /\ d.state = "ESTABLISHED" /\ d.ack = Plus(s.seq, 1) /\ d.seq = s.ack
                      /\ d.rx = c.rx /\ d.tx = c.tx /\ d.eof = c.eof /\ d.lport = c.lport
                      /\ d.rport = c.rport /\ d.in_use = c.in_use

LEMMA SynSentDoes ==
  ASSUME TypeInv, NEW h \in Host, NEW i \in Slot[h], NEW s \in Segments, NEW air,
         SynSent(h, i, s, air)
  PROVE  /\ conns[h][i].state = "SYN_SENT" /\ isn' = isn /\ stored' = stored
         /\ \/ conns' = conns /\ net' = air
            \/ /\ {"SYN", "ACK"} \subseteq s.flags
               /\ s.ack \in {conns[h][i].seq, Plus(conns[h][i].seq, 1)}
               /\ \E d, new : /\ Takes(h, i, d, air, new) /\ Connected(d, conns[h][i], s)
                              /\ Sends(new, h, d, {"ACK"}, <<>>)
<1>1. PICK c : c = conns[h][i] /\ Sized(h, c)
  BY DEF TypeInv, TablesOK
<1>2. c \in Conns
  BY <1>1 DEF Sized
<1>3. PICK a \in Seq32 : a = Plus(s.seq, 1)
  <2>1. s.seq \in Nat
    BY SegmentFields
  <2> QED
    BY <2>1, PlusIn
<1>4. PICK d : d = [c EXCEPT !.ack = Plus(s.seq, 1), !.seq = s.ack, !.state = "ESTABLISHED",
                             !.retrans = 0]
  OBVIOUS
<1>5. d = [c EXCEPT !.ack = a, !.seq = s.ack, !.state = "ESTABLISHED", !.retrans = 0]
  BY <1>3, <1>4
<1>6. d \in Conns
  <2>1. s.ack \in Seq32 /\ 0 \in 0 .. RETRANS_MAX
    BY SegmentFields, TcpAssumption
  <2> QED
    BY <1>2, <1>5, <2>1 DEF Conns, States
<1>7. /\ d.seq = s.ack /\ d.ack = a /\ d.rx = c.rx /\ d.tx = c.tx /\ d.lport = c.lport
      /\ d.rport = c.rport /\ d.state = "ESTABLISHED" /\ d.parent = c.parent
  BY <1>2, <1>5 DEF Conns
<1>8. d.eof = c.eof /\ d.in_use = c.in_use
  BY <1>2, <1>5, Zenon DEF Conns
<1>9. Sized(h, d)
  BY <1>1, <1>6, <1>7 DEF Sized
<1>10. PICK new : new = Segment(h, d, {"ACK"}, <<>>)
  OBVIOUS
<1>11. Sends(new, h, d, {"ACK"}, <<>>)
  <2>1. {"ACK"} \in SUBSET Flags /\ <<>> \in Seq(Nat)
    BY DEF Flags
  <2> QED
    BY <1>6, <1>10, <2>1, SegmentIs
<1>12. c.state = "SYN_SENT" /\ isn' = isn /\ stored' = stored
  BY <1>1 DEF SynSent
<1>13. CASE {"SYN", "ACK"} \subseteq s.flags /\ s.ack \in {c.seq, Plus(c.seq, 1)}
  <2>1. Set(h, i, d) /\ net' = air \cup new
    BY <1>1, <1>4, <1>10, <1>13 DEF SynSent
  <2>2. Takes(h, i, d, air, new)
    BY <1>9, <1>11, <2>1 DEF Takes, Sends
  <2>3. Connected(d, c, s)
    BY <1>3, <1>7, <1>8 DEF Connected
  <2> QED
    BY <1>1, <1>11, <1>12, <1>13, <2>2, <2>3
<1>14. CASE ~({"SYN", "ACK"} \subseteq s.flags /\ s.ack \in {c.seq, Plus(c.seq, 1)})
  <2>1. conns' = conns /\ net' = air
    BY <1>1, <1>14 DEF SynSent
  <2> QED
    BY <1>1, <1>12, <2>1
<1> QED
  BY <1>13, <1>14

LEMMA SynRcvdDoes ==
  ASSUME TypeInv, NEW h \in Host, NEW i \in Slot[h], NEW s \in Segments, NEW air,
         SynRcvd(h, i, s, air)
  PROVE  /\ conns[h][i].state = "SYN_RCVD" /\ isn' = isn /\ stored' = stored
         /\ \/ conns' = conns /\ net' = air
            \/ /\ "ACK" \in s.flags /\ "SYN" \notin s.flags /\ s.ack = conns[h][i].seq
               /\ \E d : /\ Takes(h, i, d, air, {}) /\ KeptFields(d, conns[h][i])
                         /\ d.state = "ESTABLISHED" /\ d.ack = conns[h][i].ack
                         /\ d.eof = conns[h][i].eof /\ d.in_use = conns[h][i].in_use
            \/ /\ "SYN" \in s.flags
               /\ \E d, new : /\ Takes(h, i, d, air, new) /\ d.state = "SYN_RCVD"
                              /\ d.seq = Plus(s.seq, 1) /\ d.ack = conns[h][i].ack
                              /\ d.rx = conns[h][i].rx /\ d.tx = conns[h][i].tx
                              /\ d.lport = conns[h][i].lport /\ d.rport = conns[h][i].rport
                              /\ d.eof = conns[h][i].eof /\ d.in_use = conns[h][i].in_use
                              /\ Sends(new, h, conns[h][i], {"SYN", "ACK"}, <<>>)
<1>1. PICK c : c = conns[h][i] /\ Sized(h, c)
  BY DEF TypeInv, TablesOK
<1>2. c \in Conns
  BY <1>1 DEF Sized
<1>3. c.state = "SYN_RCVD" /\ isn' = isn /\ stored' = stored
  BY <1>1 DEF SynRcvd
<1>4. \/ /\ "ACK" \in s.flags /\ "SYN" \notin s.flags /\ s.ack = c.seq
         /\ Set(h, i, [c EXCEPT !.state = "ESTABLISHED", !.retrans = 0]) /\ net' = air
      \/ /\ "SYN" \in s.flags /\ Set(h, i, [c EXCEPT !.seq = Plus(s.seq, 1)])
         /\ net' = air \cup Segment(h, c, {"SYN", "ACK"}, <<>>)
      \/ conns' = conns /\ net' = air
  BY <1>1 DEF SynRcvd
<1>5. CASE /\ "ACK" \in s.flags /\ "SYN" \notin s.flags /\ s.ack = c.seq
           /\ Set(h, i, [c EXCEPT !.state = "ESTABLISHED", !.retrans = 0]) /\ net' = air
  <2>1. PICK d : d = [c EXCEPT !.state = "ESTABLISHED", !.retrans = 0]
    OBVIOUS
  <2>2. d \in Conns
    <3>1. 0 \in 0 .. RETRANS_MAX
      BY TcpAssumption
    <3> QED
      BY <1>2, <2>1, <3>1 DEF Conns, States
  <2>3. KeptFields(d, c) /\ d.state = "ESTABLISHED" /\ d.ack = c.ack /\ d.parent = c.parent
    BY <1>2, <2>1 DEF Conns, KeptFields
  <2>4. d.eof = c.eof /\ d.in_use = c.in_use
    BY <1>2, <2>1, Zenon DEF Conns
  <2>5. Takes(h, i, d, air, {})
    BY <1>1, <1>5, <2>1, <2>2, <2>3 DEF Takes, Sized, KeptFields
  <2>6. \E e : /\ Takes(h, i, e, air, {}) /\ KeptFields(e, c) /\ e.state = "ESTABLISHED"
               /\ e.ack = c.ack /\ e.eof = c.eof /\ e.in_use = c.in_use
    BY <2>3, <2>4, <2>5
  <2> QED
    BY <1>1, <1>3, <1>5, <2>6
<1>6. CASE /\ "SYN" \in s.flags /\ Set(h, i, [c EXCEPT !.seq = Plus(s.seq, 1)])
           /\ net' = air \cup Segment(h, c, {"SYN", "ACK"}, <<>>)
  <2>1. PICK a \in Seq32 : a = Plus(s.seq, 1)
    <3>1. s.seq \in Nat
      BY SegmentFields
    <3> QED
      BY <3>1, PlusIn
  <2>2. PICK d : d = [c EXCEPT !.seq = Plus(s.seq, 1)]
    OBVIOUS
  <2>3. d = [c EXCEPT !.seq = a]
    BY <2>1, <2>2
  <2>4. d \in Conns
    BY <1>2, <2>3 DEF Conns
  <2>5. /\ d.seq = a /\ d.ack = c.ack /\ d.rx = c.rx /\ d.tx = c.tx /\ d.lport = c.lport
        /\ d.rport = c.rport /\ d.state = c.state /\ d.parent = c.parent
    BY <1>2, <2>3 DEF Conns
  <2>6. d.eof = c.eof /\ d.in_use = c.in_use
    BY <1>2, <2>3, Zenon DEF Conns
  <2>7. PICK new : new = Segment(h, c, {"SYN", "ACK"}, <<>>)
    OBVIOUS
  <2>8. Sends(new, h, c, {"SYN", "ACK"}, <<>>)
    <3>1. {"SYN", "ACK"} \in SUBSET Flags /\ <<>> \in Seq(Nat)
      BY DEF Flags
    <3> QED
      BY <1>2, <2>7, <3>1, SegmentIs
  <2>9. Sized(h, d)
    BY <1>1, <2>4, <2>5 DEF Sized
  <2>10. Takes(h, i, d, air, new)
    BY <1>6, <2>2, <2>7, <2>8, <2>9 DEF Takes, Sends
  <2>11. \E e, out : /\ Takes(h, i, e, air, out) /\ e.state = "SYN_RCVD"
                     /\ e.seq = Plus(s.seq, 1) /\ e.ack = c.ack /\ e.rx = c.rx /\ e.tx = c.tx
                     /\ e.lport = c.lport /\ e.rport = c.rport
                     /\ e.eof = c.eof /\ e.in_use = c.in_use
                     /\ Sends(out, h, c, {"SYN", "ACK"}, <<>>)
    BY <1>3, <2>1, <2>5, <2>6, <2>8, <2>10
  <2> QED
    BY <1>1, <1>3, <1>6, <2>11
<1>7. CASE conns' = conns /\ net' = air
  BY <1>1, <1>3, <1>7
<1> QED
  BY <1>4, <1>5, <1>6, <1>7

LEMMA SpawnDoes ==
  ASSUME TypeInv, NEW h \in Host, NEW s \in Segments, NEW air, Spawn(h, s, air)
  PROVE  /\ "SYN" \in s.flags /\ Advance(h) /\ stored' = stored
         /\ \E l \in Slot[h] : conns[h][l].state = "LISTEN"
         /\ \E i \in Slot[h] : \E d, new :
              /\ ~conns[h][i].in_use /\ Takes(h, i, d, air, new)
              /\ d.state = "SYN_RCVD" /\ d.in_use /\ NoData(d)
              /\ d.lport = s.dport /\ d.rport = s.sport
              /\ d.seq = Plus(isn[h], 1) /\ d.ack = Plus(s.seq, 1)
              /\ new \subseteq Segments
              /\ \A x \in new : /\ x.src = h /\ x.flags = {"SYN", "ACK"} /\ x.data = <<>>
                                /\ x.seq = isn[h] /\ x.ack = Plus(s.seq, 1)
<1>1. "SYN" \in s.flags /\ Listening(h, s) # {} /\ Free(h) # {} /\ Advance(h) /\ stored' = stored
  BY DEF Spawn
<1>2. PICK l \in Slot[h] : /\ l = First(Listening(h, s)) /\ conns[h][l].state = "LISTEN"
                           /\ conns[h][l].lport = s.dport
  BY <1>1, ListenerIs
<1>3. PICK i \in Slot[h] : i = First(Free(h)) /\ ~conns[h][i].in_use
  BY <1>1, FreeIs
<1>4. PICK q \in Seq32 : q = isn[h]
  BY DEF TypeInv, NetOK
<1>5. PICK a \in Seq32 : a = Plus(s.seq, 1)
  <2>1. s.seq \in Nat
    BY SegmentFields
  <2> QED
    BY <2>1, PlusIn
<1>6. PICK lp \in Ports : lp = s.dport
  BY SegmentFields
<1>7. PICK rp \in Ports : rp = s.sport
  BY SegmentFields
<1>8. PICK c : c = [Zero EXCEPT !.in_use = TRUE, !.state = "SYN_RCVD", !.lport = lp, !.rport = rp,
                                !.seq = q, !.ack = a, !.parent = l]
  OBVIOUS
<1>9. c \in Conns
  <2>1. l \in Nat
    BY SlotsAre
  <2> QED
    BY <1>8, <2>1, ZeroIs DEF Conns, States
<1>10. /\ c.state = "SYN_RCVD" /\ c.in_use = TRUE /\ c.lport = lp /\ c.rport = rp /\ c.seq = q
       /\ c.ack = a /\ c.parent = l /\ c.rx = <<>> /\ c.tx = <<>> /\ c.eof = FALSE
  BY <1>8 DEF Zero
<1>11. Sized(h, c)
  BY <1>9, <1>10, TcpAssumption DEF Sized
<1>12. PICK d : d = [c EXCEPT !.seq = Plus(@, 1)] /\ Sized(h, d) /\ Bumped(d, c) /\ d.state = c.state
  BY <1>11, BumpedIs
<1>13. PICK new : new = Segment(h, c, {"SYN", "ACK"}, <<>>)
  OBVIOUS
<1>14. Set(h, i, d) /\ net' = air \cup new
  BY <1>2, <1>3, <1>4, <1>5, <1>6, <1>7, <1>8, <1>12, <1>13 DEF Spawn
<1>15. Sends(new, h, c, {"SYN", "ACK"}, <<>>)
  <2>1. {"SYN", "ACK"} \in SUBSET Flags /\ <<>> \in Seq(Nat)
    BY DEF Flags
  <2> QED
    BY <1>9, <1>13, <2>1, SegmentIs
<1>16. Takes(h, i, d, air, new)
  BY <1>12, <1>14, <1>15 DEF Takes, Sends
<1>17. /\ d.state = "SYN_RCVD" /\ d.in_use /\ NoData(d) /\ d.lport = s.dport /\ d.rport = s.sport
       /\ d.seq = Plus(isn[h], 1) /\ d.ack = Plus(s.seq, 1)
  BY <1>4, <1>5, <1>6, <1>7, <1>10, <1>12 DEF Bumped, NoData
<1>18. /\ new \subseteq Segments
       /\ \A x \in new : /\ x.src = h /\ x.flags = {"SYN", "ACK"} /\ x.data = <<>>
                         /\ x.seq = isn[h] /\ x.ack = Plus(s.seq, 1)
  BY <1>4, <1>5, <1>10, <1>15 DEF Sends
<1> QED
  BY <1>1, <1>2, <1>3, <1>16, <1>17, <1>18

\* The stages of net_handle_tcp on slot i of h, for s
Stages(h, c0, c1, c2, c3, c4, s) ==
  /\ Sized(h, c1) /\ Sized(h, c2) /\ Sized(h, c3) /\ Sized(h, c4)
  /\ Cleared(c1, c0, s)
  /\ (~Fits(c1, s) /\ c2 = c1) \/ (Fits(c1, s) /\ TookData(c2, c1, s))
  /\ c3 = c2 \/ Finished(c3, c2, s)
  /\ (~TakesFin(c3, s) /\ c4 = c3) \/ Ended(c4, c3, s)

\* Slot i of h passes through them; n1 and n2 acknowledge data and a FIN.
Syncs(h, i, s, air, c1, c2, c3, c4, n1, n2) ==
  /\ Stages(h, conns[h][i], c1, c2, c3, c4, s)
  /\ Set(h, i, c4)
  /\ stored' = [stored EXCEPT ![Peer(h)] = @ + (Len(c2.rx) - Len(c1.rx))]
  /\ net' = (air \cup n1) \cup n2
  /\ Sends(n1, h, c2, {"ACK"}, <<>>) /\ (n1 # {} => Carries(c1, s))
  /\ Sends(n2, h, c4, {"ACK"}, <<>>) /\ (n2 # {} => TakesFin(c3, s))
  /\ isn' = isn

LEMMA SynchronizedDoes ==
  ASSUME TypeInv, NEW h \in Host, NEW i \in Slot[h], NEW s \in Segments, NEW air,
         Synchronized(h, i, s, air)
  PROVE  /\ conns[h][i].state \in {"ESTABLISHED", "FIN_WAIT_1", "FIN_WAIT_2", "CLOSE_WAIT",
                                   "LAST_ACK"}
         /\ \E c1, c2, c3, c4, n1, n2 : Syncs(h, i, s, air, c1, c2, c3, c4, n1, n2)
<1>1. PICK c0 : c0 = conns[h][i] /\ Sized(h, c0)
  BY DEF TypeInv, TablesOK
<1>2. PICK c1 : c1 = AckClears(c0, s) /\ Sized(h, c1) /\ Cleared(c1, c0, s)
  BY <1>1, AckClearsIs
<1>3. PICK c2 : /\ c2 = Store(c1, s) /\ Sized(h, c2)
                /\ (~Fits(c1, s) /\ c2 = c1) \/ (Fits(c1, s) /\ TookData(c2, c1, s))
  BY <1>2, StoreIs
<1>4. PICK c3 : c3 = FinAcked(c2, s) /\ Sized(h, c3) /\ (c3 = c2 \/ Finished(c3, c2, s))
  BY <1>3, FinAckedIs
<1>5. PICK c4 : /\ c4 = PeerFin(c3, s) /\ Sized(h, c4)
                /\ (~TakesFin(c3, s) /\ c4 = c3) \/ Ended(c4, c3, s)
  BY <1>4, PeerFinIs
<1>6. /\ c0.state \in {"ESTABLISHED", "FIN_WAIT_1", "FIN_WAIT_2", "CLOSE_WAIT", "LAST_ACK"}
      /\ Set(h, i, c4) /\ isn' = isn
      /\ stored' = [stored EXCEPT ![Peer(h)] = @ + (Len(c2.rx) - Len(c1.rx))]
      /\ net' = (air \cup IF Carries(c1, s) THEN Segment(h, c2, {"ACK"}, <<>>) ELSE {})
                     \cup IF TakesFin(c3, s) THEN Segment(h, c4, {"ACK"}, <<>>) ELSE {}
  BY <1>1, <1>2, <1>3, <1>4, <1>5 DEF Synchronized
<1>7. PICK n1 : n1 = IF Carries(c1, s) THEN Segment(h, c2, {"ACK"}, <<>>) ELSE {}
  OBVIOUS
<1>8. PICK n2 : n2 = IF TakesFin(c3, s) THEN Segment(h, c4, {"ACK"}, <<>>) ELSE {}
  OBVIOUS
<1>9. {"ACK"} \in SUBSET Flags /\ <<>> \in Seq(Nat) /\ c2 \in Conns /\ c4 \in Conns
  BY <1>3, <1>5 DEF Flags, Sized
<1>10. Sends(n1, h, c2, {"ACK"}, <<>>) /\ (n1 # {} => Carries(c1, s))
  <2>1. Sends(Segment(h, c2, {"ACK"}, <<>>), h, c2, {"ACK"}, <<>>)
    BY <1>9, SegmentIs
  <2> QED
    BY <1>7, <2>1 DEF Sends
<1>11. Sends(n2, h, c4, {"ACK"}, <<>>) /\ (n2 # {} => TakesFin(c3, s))
  <2>1. Sends(Segment(h, c4, {"ACK"}, <<>>), h, c4, {"ACK"}, <<>>)
    BY <1>9, SegmentIs
  <2> QED
    BY <1>8, <2>1 DEF Sends
<1>12. Stages(h, c0, c1, c2, c3, c4, s)
  BY <1>2, <1>3, <1>4, <1>5 DEF Stages
<1>13. net' = (air \cup n1) \cup n2
  BY <1>6, <1>7, <1>8
<1>14. Syncs(h, i, s, air, c1, c2, c3, c4, n1, n2)
  BY <1>1, <1>6, <1>10, <1>11, <1>12, <1>13 DEF Syncs
<1> QED
  BY <1>1, <1>6, <1>14

-----------------------------------------------------------------------------
(* Type correctness                                                        *)

LEMMA TakesTypes ==
  ASSUME TablesOK, NEW h \in Host, NEW i \in Slot[h], NEW d, NEW air, NEW new,
         air \subseteq Segments, Takes(h, i, d, air, new)
  PROVE  TablesOK' /\ net' \subseteq Segments
<1>1. Set(h, i, d) /\ Sized(h, d) /\ net' = air \cup new /\ new \subseteq Segments
  BY DEF Takes
<1>2. TablesOK'
  BY <1>1, SetTables
<1> QED
  BY <1>1, <1>2

LEMMA MovesTypes ==
  ASSUME TypeInv, NEW h \in Host, NEW i \in Slot[h], NEW d, NEW new, Moves(h, i, d, new)
  PROVE  TablesOK' /\ net' \subseteq Segments
<1>1. Set(h, i, d) /\ Sized(h, d) /\ net' = net \cup new /\ new \subseteq Segments
  BY DEF Moves
<1>2. TablesOK'
  BY <1>1, SetTables DEF TypeInv
<1> QED
  BY <1>1, <1>2 DEF TypeInv, NetOK

LEMMA AdvanceTypes ==
  ASSUME TypeInv, NEW h \in Host, Advance(h)
  PROVE  isn' \in [Host -> Seq32]
<1>1. isn \in [Host -> Seq32] /\ isn' = [isn EXCEPT ![h] = Plus(isn[h], STEP)]
  BY DEF TypeInv, NetOK, Advance
<1>2. Plus(isn[h], STEP) \in Seq32
  <2>1. isn[h] \in Nat /\ STEP \in Nat
    BY <1>1, Seq32In, TcpAssumption
  <2> QED
    BY <2>1, PlusIn
<1> QED
  BY <1>1, <1>2

LEMMA HandlerTypes ==
  ASSUME TypeInv, NEW s \in net, NEW air, air \subseteq net, net_handle_tcp(s, air)
  PROVE  /\ TablesOK' /\ net' \subseteq Segments /\ isn' \in [Host -> Seq32]
         /\ stored' \in [Host -> Nat]
<1>1. PICK h : h = Peer(s.src) /\ h \in Host /\ s \in Segments
  BY Hosts, SegmentFields DEF TypeInv, NetOK
<1>2. TablesOK /\ air \subseteq Segments /\ isn \in [Host -> Seq32] /\ stored \in [Host -> Nat]
  BY DEF TypeInv, NetOK, HistOK
<1>3. CASE Matching(h, s) # {}
  <2>1. PICK i \in Slot[h] : i = First(Matching(h, s))
    BY <1>1, <1>3, MatchIs
  <2>2. Reset(h, i, s, air) \/ Synchronized(h, i, s, air) \/ SynSent(h, i, s, air)
        \/ SynRcvd(h, i, s, air)
    BY <1>1, <1>3, <2>1 DEF net_handle_tcp
  <2>3. CASE Reset(h, i, s, air)
    <3>1. PICK d : Takes(h, i, d, air, {}) /\ isn' = isn /\ stored' = stored
      BY <1>1, <2>3, ResetDoes
    <3> QED
      BY <1>1, <1>2, <3>1, TakesTypes
  <2>4. CASE Synchronized(h, i, s, air)
    <3>7. PICK c1, c2, c3, c4, n1, n2 : Syncs(h, i, s, air, c1, c2, c3, c4, n1, n2)
      BY <1>1, <2>4, SynchronizedDoes
    <3>1. /\ Stages(h, conns[h][i], c1, c2, c3, c4, s) /\ Set(h, i, c4) /\ isn' = isn
          /\ stored' = [stored EXCEPT ![Peer(h)] = @ + (Len(c2.rx) - Len(c1.rx))]
          /\ net' = (air \cup n1) \cup n2
          /\ Sends(n1, h, c2, {"ACK"}, <<>>) /\ Sends(n2, h, c4, {"ACK"}, <<>>)
      BY <3>7 DEF Syncs
    <3>2. Sized(h, c1) /\ Sized(h, c2) /\ Sized(h, c4)
      BY <3>1 DEF Stages
    <3>3. TablesOK'
      BY <1>1, <1>2, <3>1, <3>2, SetTables
    <3>4. net' \subseteq Segments
      BY <1>2, <3>1 DEF Sends
    <3>5. Len(c2.rx) - Len(c1.rx) \in Nat
      <4>1. c1.rx \in Seq(Nat) /\ Len(c1.rx) \in Nat /\ s.data \in Seq(Nat) /\ Len(s.data) \in Nat
        BY <1>1, <3>2, Fields, SegmentFields DEF Sized
      <4>2. c2 = c1 \/ c2.rx = c1.rx \o s.data
        BY <3>1 DEF Stages, TookData
      <4>3. Len(c1.rx \o s.data) = Len(c1.rx) + Len(s.data)
        BY <4>1, Joined
      <4>4. PICK a, b \in Nat : a = Len(c1.rx) /\ b = Len(s.data)
        BY <4>1
      <4>5. Len(c2.rx) = a \/ Len(c2.rx) = a + b
        BY <4>2, <4>3, <4>4
      <4>6. a - a \in Nat /\ (a + b) - a \in Nat
        BY <4>4
      <4>7. Len(c1.rx) = a
        BY <4>4
      <4> QED
        BY <4>5, <4>6, <4>7, Zenon
    <3>6. stored' \in [Host -> Nat]
      <4>1. PICK k \in Nat : k = Len(c2.rx) - Len(c1.rx)
        BY <3>5
      <4>2. stored' = [stored EXCEPT ![Peer(h)] = @ + k]
        BY <3>1, <4>1
      <4>3. stored' = [stored EXCEPT ![Peer(h)] = stored[Peer(h)] + k]
        BY <1>2, <4>2
      <4>4. PICK g \in Host : g = Peer(h)
        BY <1>1, Hosts
      <4>5. stored[g] + k \in Nat
        <5>1. stored[g] \in Nat
          BY <1>2, <4>4
        <5> QED
          BY <5>1
      <4>6. stored' = [stored EXCEPT ![g] = stored[g] + k]
        BY <4>3, <4>4, Zenon
      <4> QED
        BY <1>2, <4>4, <4>5, <4>6
    <3> QED
      BY <1>2, <3>1, <3>3, <3>4, <3>6
  <2>5. CASE SynSent(h, i, s, air)
    <3>1. /\ isn' = isn /\ stored' = stored
          /\ (conns' = conns /\ net' = air) \/ \E d, new : Takes(h, i, d, air, new)
      BY <1>1, <2>5, SynSentDoes
    <3>2. CASE conns' = conns /\ net' = air
      BY <1>2, <3>1, <3>2 DEF TablesOK
    <3>3. CASE \E d, new : Takes(h, i, d, air, new)
      BY <1>1, <1>2, <3>1, <3>3, TakesTypes
    <3> QED
      BY <3>1, <3>2, <3>3
  <2>6. CASE SynRcvd(h, i, s, air)
    <3>1. /\ isn' = isn /\ stored' = stored
          /\ (conns' = conns /\ net' = air) \/ \E d, new : Takes(h, i, d, air, new)
      BY <1>1, <2>6, SynRcvdDoes
    <3>2. CASE conns' = conns /\ net' = air
      BY <1>2, <3>1, <3>2 DEF TablesOK
    <3>3. CASE \E d, new : Takes(h, i, d, air, new)
      BY <1>1, <1>2, <3>1, <3>3, TakesTypes
    <3> QED
      BY <3>1, <3>2, <3>3
  <2> QED
    BY <2>2, <2>3, <2>4, <2>5, <2>6
<1>4. CASE Matching(h, s) = {}
  <2>1. Spawn(h, s, air) \/ Dropped(h, s, air)
    BY <1>1, <1>4 DEF net_handle_tcp
  <2>2. CASE Spawn(h, s, air)
    <3>1. /\ Advance(h) /\ stored' = stored
          /\ \E i \in Slot[h] : \E d, new : Takes(h, i, d, air, new)
      BY <1>1, <2>2, SpawnDoes
    <3>2. TablesOK' /\ net' \subseteq Segments
      BY <1>1, <1>2, <3>1, TakesTypes
    <3> QED
      BY <1>1, <1>2, <3>1, <3>2, AdvanceTypes
  <2>3. CASE Dropped(h, s, air)
    <3>1. net' = air /\ conns' = conns /\ isn' = isn /\ stored' = stored
      BY <2>3 DEF Dropped
    <3> QED
      BY <1>2, <3>1 DEF TablesOK
  <2> QED
    BY <2>1, <2>2, <2>3
<1> QED
  BY <1>3, <1>4

LEMMA TypesInit == TcpInit => TypeInv
<1> SUFFICES ASSUME TcpInit PROVE TypeInv
  OBVIOUS
<1>1. TablesOK
  <2>1. conns = [h \in Host |-> [i \in Slot[h] |-> Zero]]
    BY DEF TcpInit
  <2>2. DOMAIN conns = Host /\ \A h \in Host : DOMAIN conns[h] = Slot[h]
    BY <2>1
  <2>3. \A h \in Host : \A i \in Slot[h] : conns[h][i] = Zero
    BY <2>1
  <2>4. \A h \in Host : Sized(h, Zero)
    BY ZeroIs
  <2> QED
    BY <2>2, <2>3, <2>4 DEF TablesOK
<1>2. IdsOK
  <2>1. /\ held = [h \in Host |-> {}] /\ pending = [h \in Host |-> None]
        /\ ready \in [Host -> BOOLEAN]
    BY DEF TcpInit
  <2> QED
    BY <2>1 DEF IdsOK
<1>3. NetOK
  <2>1. Isn \in [Host -> Seq32]
    BY TcpAssumption DEF Seq32
  <2>2. net = {} /\ faults = MaxFaults /\ isn = Isn /\ MaxFaults \in Nat
    BY TcpAssumption DEF TcpInit
  <2>3. faults \in 0 .. MaxFaults
    BY <2>2
  <2> QED
    BY <2>1, <2>2, <2>3 DEF NetOK
<1>4. HistOK
  BY DEF TcpInit, HistOK
<1> QED
  BY <1>1, <1>2, <1>3, <1>4 DEF TypeInv

\* The slots and the network are as TypeInv says, and so is the rest.
LEMMA TypesFrom ==
  ASSUME TablesOK', net' \subseteq Segments, IdsOK', faults' \in 0 .. MaxFaults,
         isn' \in [Host -> Seq32], HistOK'
  PROVE  TypeInv'
BY DEF TypeInv, NetOK

LEMMA ProgramTypes ==
  ASSUME TypeInv, NEW h \in Host, Program(h)
  PROVE  TypeInv'
<1>1. /\ TablesOK /\ IdsOK /\ net \subseteq Segments /\ faults \in 0 .. MaxFaults
      /\ isn \in [Host -> Seq32] /\ HistOK
  BY DEF TypeInv, NetOK
<1>2. CASE net_tcp_connect(h)
  <2>1. PICK i \in Slot[h] : \E d, new :
           /\ Moves(h, i, d, new) /\ held' = [held EXCEPT ![h] = @ \cup {i}]
           /\ \/ Advance(h) /\ pending' = pending
              \/ pending' = [pending EXCEPT ![h] = i] /\ isn' = isn
    BY <1>2, ConnectDoes
  <2>2. UNCHANGED <<ready, faults, hist>>
    BY <1>2 DEF net_tcp_connect
  <2>3. TablesOK' /\ net' \subseteq Segments
    BY <2>1, MovesTypes
  <2>4. isn' \in [Host -> Seq32]
    BY <1>1, <2>1, AdvanceTypes
  <2>5. IdsOK'
    BY <1>1, <2>1, <2>2 DEF IdsOK
  <2>6. HistOK' /\ faults' \in 0 .. MaxFaults
    BY <1>1, <2>2 DEF HistOK, hist
  <2> QED
    BY <2>3, <2>4, <2>5, <2>6, TypesFrom
<1>3. CASE net_tcp_listen(h)
  <2>1. PICK i \in Slot[h] : \E d : Moves(h, i, d, {}) /\ held' = [held EXCEPT ![h] = @ \cup {i}]
    BY <1>3, ListenDoes
  <2>2. UNCHANGED <<ready, pending, faults, isn, hist>>
    BY <1>3 DEF net_tcp_listen
  <2>3. TablesOK' /\ net' \subseteq Segments
    BY <2>1, MovesTypes
  <2>4. IdsOK'
    BY <1>1, <2>1, <2>2 DEF IdsOK
  <2>5. HistOK' /\ faults' \in 0 .. MaxFaults /\ isn' \in [Host -> Seq32]
    BY <1>1, <2>2 DEF HistOK, hist
  <2> QED
    BY <2>3, <2>4, <2>5, TypesFrom
<1>4. ASSUME NEW l \in held[h], net_tcp_accept(h, l) PROVE TypeInv'
  <2>1. PICK i \in Slot[h] : \E d : Moves(h, i, d, {}) /\ held' = [held EXCEPT ![h] = @ \cup {i}]
    BY <1>4, AcceptDoes
  <2>2. UNCHANGED <<ready, pending, faults, isn, hist>>
    BY <1>4 DEF net_tcp_accept
  <2>3. TablesOK' /\ net' \subseteq Segments
    BY <2>1, MovesTypes
  <2>4. IdsOK'
    BY <1>1, <2>1, <2>2 DEF IdsOK
  <2>5. HistOK' /\ faults' \in 0 .. MaxFaults /\ isn' \in [Host -> Seq32]
    BY <1>1, <2>2 DEF HistOK, hist
  <2> QED
    BY <2>3, <2>4, <2>5, TypesFrom
<1>5. ASSUME NEW i \in held[h], net_tcp_close(h, i) PROVE TypeInv'
  <2>1. /\ i \in Slot[h] /\ held' = [held EXCEPT ![h] = @ \ {i}]
        /\ cut' = IF conns[h][i].tx # <<>> THEN cut \cup {h} ELSE cut
        /\ (conns' = conns /\ net' = net) \/ \E d, new : Moves(h, i, d, new)
    BY <1>5, CloseDoes
  <2>2. UNCHANGED <<ready, pending, faults, isn, sent, stored, got>>
    BY <1>5 DEF net_tcp_close
  <2>3. TablesOK' /\ net' \subseteq Segments
    <3>1. CASE conns' = conns /\ net' = net
      BY <1>1, <3>1 DEF TablesOK
    <3>2. CASE \E d, new : Moves(h, i, d, new)
      BY <2>1, <3>2, MovesTypes
    <3> QED
      BY <2>1, <3>1, <3>2
  <2>4. IdsOK'
    <3>1. DOMAIN held' = Host /\ \A g \in Host : held'[g] \subseteq held[g]
      BY <1>1, <2>1 DEF IdsOK
    <3> QED
      BY <1>1, <2>2, <3>1 DEF IdsOK
  <2>5. HistOK' /\ faults' \in 0 .. MaxFaults /\ isn' \in [Host -> Seq32]
    <3>1. cut' \subseteq Host
      BY <1>1, <2>1 DEF HistOK
    <3> QED
      BY <1>1, <2>2, <3>1 DEF HistOK
  <2> QED
    BY <2>3, <2>4, <2>5, TypesFrom
<1>6. ASSUME NEW i \in held[h], NEW n \in 1 .. MaxLen, net_tcp_send(h, i, n) PROVE TypeInv'
  <2>1. /\ i \in Slot[h] /\ sent' = [sent EXCEPT ![h] = @ + n]
        /\ \E d, new : Moves(h, i, d, new)
    BY <1>6, SendDoes
  <2>2. UNCHANGED <<ready, pending, held, faults, isn, stored, got, cut>>
    BY <1>6 DEF net_tcp_send
  <2>3. TablesOK' /\ net' \subseteq Segments
    BY <2>1, MovesTypes
  <2>4. IdsOK'
    BY <1>1, <2>2 DEF IdsOK
  <2>5. HistOK'
    <3>1. sent \in [Host -> Nat] /\ n \in Nat
      BY <1>1, TcpAssumption DEF HistOK
    <3>2. sent' \in [Host -> Nat]
      BY <2>1, <3>1
    <3> QED
      BY <1>1, <2>2, <3>2 DEF HistOK
  <2>6. faults' \in 0 .. MaxFaults /\ isn' \in [Host -> Seq32]
    BY <1>1, <2>2
  <2> QED
    BY <2>3, <2>4, <2>5, <2>6, TypesFrom
<1>7. ASSUME NEW i \in held[h], NEW n \in 1 .. Len(conns[h][i].rx), net_tcp_recv(h, i, n)
      PROVE TypeInv'
  <2>1. /\ i \in Slot[h] /\ n <= Len(conns[h][i].rx)
        /\ got' = [got EXCEPT ![Peer(h)] = @ \o SubSeq(conns[h][i].rx, 1, n)]
        /\ \E d, new : Moves(h, i, d, new)
    BY <1>7, RecvDoes
  <2>2. UNCHANGED <<ready, pending, held, faults, isn, sent, stored, cut>>
    BY <1>7 DEF net_tcp_recv
  <2>3. TablesOK' /\ net' \subseteq Segments
    BY <2>1, MovesTypes
  <2>4. IdsOK'
    BY <1>1, <2>2 DEF IdsOK
  <2>5. HistOK'
    <3>1. PICK q : q = conns[h][i].rx /\ q \in Seq(Nat) /\ n \in Nat /\ n <= Len(q)
      <4>1. conns[h][i].rx \in Seq(Nat)
        BY <1>1, <2>1, Fields DEF TablesOK, Sized
      <4>2. n \in Nat
        BY <4>1
      <4> QED
        BY <2>1, <4>1, <4>2
    <3>2. PICK r : r = SubSeq(q, 1, n) /\ r \in Seq(Nat)
      BY <3>1, FrontSeq
    <3>3. PICK g \in Host : g = Peer(h)
      BY Hosts
    <3>4. got' = [got EXCEPT ![g] = got[g] \o r]
      BY <2>1, <3>1, <3>2, <3>3 DEF HistOK
    <3>5. got \in [Host -> Seq(Nat)]
      BY <1>1 DEF HistOK
    <3>6. got[g] \o r \in Seq(Nat)
      BY <3>2, <3>5
    <3>7. got' \in [Host -> Seq(Nat)]
      BY <3>4, <3>5, <3>6
    <3> QED
      BY <1>1, <2>2, <3>7 DEF HistOK
  <2>6. faults' \in 0 .. MaxFaults /\ isn' \in [Host -> Seq32]
    BY <1>1, <2>2
  <2> QED
    BY <2>3, <2>4, <2>5, <2>6, TypesFrom
<1> QED
  BY <1>2, <1>3, <1>4, <1>5, <1>6, <1>7 DEF Program

LEMMA TimerTypes ==
  ASSUME TypeInv, NEW h \in Host,
         ArpReply(h) \/ \E i \in Slot[h] : ConnectTimeout(h, i) \/ Retransmit(h, i) \/ Forge(h, i)
  PROVE  TypeInv'
<1>1. /\ TablesOK /\ IdsOK /\ net \subseteq Segments /\ faults \in 0 .. MaxFaults
      /\ isn \in [Host -> Seq32] /\ HistOK
  BY DEF TypeInv, NetOK
<1>2. CASE ArpReply(h)
  <2>1. /\ ready' = [ready EXCEPT ![h] = TRUE] /\ pending' = [pending EXCEPT ![h] = None]
        /\ \/ /\ pending[h] \in Slot[h] /\ Advance(h)
              /\ \E d, new : Moves(h, pending[h], d, new)
           \/ conns' = conns /\ net' = net /\ isn' = isn
    BY <1>2, ArpDoes
  <2>2. UNCHANGED <<held, faults, hist>>
    BY <1>2 DEF ArpReply
  <2>3. TablesOK' /\ net' \subseteq Segments /\ isn' \in [Host -> Seq32]
    <3>1. CASE conns' = conns /\ net' = net /\ isn' = isn
      BY <1>1, <3>1 DEF TablesOK
    <3>2. CASE pending[h] \in Slot[h] /\ Advance(h) /\ \E d, new : Moves(h, pending[h], d, new)
      <4>1. PICK i \in Slot[h] : i = pending[h]
        BY <3>2
      <4>2. \E d, new : Moves(h, i, d, new)
        BY <3>2, <4>1
      <4> QED
        BY <3>2, <4>2, MovesTypes, AdvanceTypes
    <3> QED
      BY <2>1, <3>1, <3>2
  <2>4. IdsOK'
    BY <1>1, <2>1, <2>2 DEF IdsOK
  <2>5. HistOK' /\ faults' \in 0 .. MaxFaults
    BY <1>1, <2>2 DEF HistOK, hist
  <2> QED
    BY <2>3, <2>4, <2>5, TypesFrom
<1>3. ASSUME NEW i \in Slot[h], ConnectTimeout(h, i) PROVE TypeInv'
  <2>1. \E d : Moves(h, i, d, {})
    BY <1>3, TimeoutDoes
  <2>2. UNCHANGED <<ready, pending, held, faults, isn, hist>>
    BY <1>3 DEF ConnectTimeout
  <2>3. TablesOK' /\ net' \subseteq Segments
    BY <2>1, MovesTypes
  <2>4. IdsOK' /\ HistOK' /\ faults' \in 0 .. MaxFaults /\ isn' \in [Host -> Seq32]
    BY <1>1, <2>2 DEF IdsOK, HistOK, hist
  <2> QED
    BY <2>3, <2>4, TypesFrom
<1>4. ASSUME NEW i \in Slot[h], Retransmit(h, i) PROVE TypeInv'
  <2>1. \E d, new : Moves(h, i, d, new)
    BY <1>4, RetransmitDoes
  <2>2. UNCHANGED <<ready, pending, held, isn, hist>>
        /\ (faults' = faults \/ (faults > 0 /\ faults' = faults - 1))
    BY <1>4 DEF Retransmit, Fault
  <2>3. TablesOK' /\ net' \subseteq Segments
    BY <2>1, MovesTypes
  <2>4. IdsOK' /\ HistOK' /\ isn' \in [Host -> Seq32]
    BY <1>1, <2>2 DEF IdsOK, HistOK, hist
  <2>5. faults' \in 0 .. MaxFaults
    BY <1>1, <2>2, TcpAssumption
  <2> QED
    BY <2>3, <2>4, <2>5, TypesFrom
<1>5. ASSUME NEW i \in Slot[h], Forge(h, i) PROVE TypeInv'
  <2>1. conns' = conns /\ cut' = Host /\ \E s \in Segments : net' = net \cup {s}
    BY <1>5, ForgeDoes
  <2>2. UNCHANGED <<ready, pending, held, isn, sent, stored, got>>
        /\ faults > 0 /\ faults' = faults - 1
    BY <1>5 DEF Forge, Fault
  <2>3. TablesOK' /\ net' \subseteq Segments
    BY <1>1, <2>1 DEF TablesOK
  <2>4. IdsOK' /\ HistOK' /\ isn' \in [Host -> Seq32]
    BY <1>1, <2>1, <2>2 DEF IdsOK, HistOK
  <2>5. faults' \in 0 .. MaxFaults
    BY <1>1, <2>2, TcpAssumption
  <2> QED
    BY <2>3, <2>4, <2>5, TypesFrom
<1> QED
  BY <1>2, <1>3, <1>4, <1>5

LEMMA NetworkTypes ==
  ASSUME TypeInv, NEW s \in net, Receive(s) \/ Duplicate(s) \/ Lose(s)
  PROVE  TypeInv'
<1>1. /\ TablesOK /\ IdsOK /\ net \subseteq Segments /\ faults \in 0 .. MaxFaults
      /\ isn \in [Host -> Seq32] /\ HistOK
  BY DEF TypeInv, NetOK
<1>2. ASSUME NEW air, air \subseteq net, net_handle_tcp(s, air), faults' \in 0 .. MaxFaults,
             UNCHANGED <<ready, pending, held, sent, got, cut>>
      PROVE  TypeInv'
  <2>1. /\ TablesOK' /\ net' \subseteq Segments /\ isn' \in [Host -> Seq32]
        /\ stored' \in [Host -> Nat]
    BY <1>2, HandlerTypes
  <2>2. IdsOK' /\ HistOK'
    BY <1>1, <1>2, <2>1 DEF IdsOK, HistOK
  <2> QED
    BY <1>2, <2>1, <2>2, TypesFrom
<1>3. CASE Receive(s)
  <2>1. PICK air : air = net \ {s}
    OBVIOUS
  <2>2. net_handle_tcp(s, air) /\ UNCHANGED <<ready, pending, held, faults, sent, got, cut>>
    BY <1>3, <2>1 DEF Receive
  <2> QED
    BY <1>1, <1>2, <2>1, <2>2
<1>4. CASE Duplicate(s)
  <2>1. PICK air : air = net
    OBVIOUS
  <2>2. /\ net_handle_tcp(s, air) /\ UNCHANGED <<ready, pending, held, sent, got, cut>>
        /\ faults > 0 /\ faults' = faults - 1
    BY <1>4, <2>1 DEF Duplicate, Fault
  <2>3. faults' \in 0 .. MaxFaults
    BY <1>1, <2>2, TcpAssumption
  <2> QED
    BY <1>2, <2>1, <2>2, <2>3
<1>5. CASE Lose(s)
  <2>1. /\ net' = net \ {s} /\ UNCHANGED <<conns, ready, pending, held, isn, hist>>
        /\ faults > 0 /\ faults' = faults - 1
    BY <1>5 DEF Lose, Fault
  <2>2. TablesOK' /\ net' \subseteq Segments /\ IdsOK' /\ HistOK' /\ isn' \in [Host -> Seq32]
    BY <1>1, <2>1 DEF TablesOK, IdsOK, HistOK, hist
  <2>3. faults' \in 0 .. MaxFaults
    BY <1>1, <2>1, TcpAssumption
  <2> QED
    BY <2>2, <2>3, TypesFrom
<1> QED
  BY <1>3, <1>4, <1>5

LEMMA TypesNext == TypeInv /\ [TcpNext]_tcpVars => TypeInv'
<1> SUFFICES ASSUME TypeInv, [TcpNext]_tcpVars PROVE TypeInv'
  OBVIOUS
<1>1. CASE \E h \in Host : Program(h)
  BY <1>1, ProgramTypes
<1>2. CASE \E h \in Host : ArpReply(h)
                           \/ \E i \in Slot[h] : ConnectTimeout(h, i) \/ Retransmit(h, i) \/ Forge(h, i)
  BY <1>2, TimerTypes
<1>3. CASE \E s \in net : Receive(s) \/ Duplicate(s) \/ Lose(s)
  BY <1>3, NetworkTypes
<1>4. CASE UNCHANGED tcpVars
  BY <1>4 DEF tcpVars, hist, TypeInv, TablesOK, IdsOK, NetOK, HistOK
<1> QED
  BY <1>1, <1>2, <1>3, <1>4 DEF TcpNext

LEMMA TypesOK == TypeInv => TcpTypeOK
<1> SUFFICES ASSUME TypeInv PROVE TcpTypeOK
  OBVIOUS
<1>1. ASSUME NEW h \in Host, NEW i \in Slot[h]
      PROVE  LET c == conns[h][i]
             IN  /\ c.state \in States /\ {c.in_use, c.eof, c.accepted} \subseteq BOOLEAN
                 /\ {c.seq, c.ack, c.unacked_seq} \subseteq Seq32 /\ c.retrans \in 0 .. RETRANS_MAX
                 /\ Len(c.rx) <= BUF /\ Len(c.tx) <= MaxLen
                 /\ c.parent \in Slot[h] \cup {None}
  <2>1. PICK c : c = conns[h][i] /\ Sized(h, c)
    BY DEF TypeInv, TablesOK
  <2>2. c \in Conns
    BY <2>1 DEF Sized
  <2>3. {c.in_use, c.eof, c.accepted} \subseteq BOOLEAN
    BY <2>2, Zenon DEF Conns
  <2>4. /\ c.state \in States /\ {c.seq, c.ack, c.unacked_seq} \subseteq Seq32
        /\ c.retrans \in 0 .. RETRANS_MAX
    BY <2>2, Fields
  <2> QED
    BY <2>1, <2>3, <2>4 DEF Sized
<1>2. \A h \in Host : held[h] \subseteq Slot[h] /\ pending[h] \in Slot[h] \cup {None}
  BY DEF TypeInv, IdsOK
<1>3. \A s \in net : s.src \in Host /\ s.flags \subseteq {"SYN", "ACK", "FIN", "RST"}
  BY SegmentFields DEF TypeInv, NetOK, Flags
<1> QED
  BY <1>1, <1>2, <1>3 DEF TcpTypeOK

(* Whatever arrives, and whatever wraps: net_handle_tcp never stores past      *)
(* TCP_CONN_BUF, sequence numbers stay within 32 bits, retransmissions within  *)
(* their limit, and ids name slots of the table of their host.                 *)
THEOREM TcpTypes == TcpSpec => []TcpTypeOK
<1>1. TcpInit => TypeInv
  BY TypesInit
<1>2. TypeInv /\ [TcpNext]_tcpVars => TypeInv'
  BY TypesNext
<1>3. TypeInv => TcpTypeOK
  BY TypesOK
<1> QED
  BY <1>1, <1>2, <1>3, PTL DEF TcpSpec

-----------------------------------------------------------------------------
(* One direction of the connection                                         *)
(*                                                                         *)
(* Everything that carries the bytes of h to its peer is here: the slots S *)
(* of h, the slots R of its peer, the segments out of h and the segments    *)
(* back of its peer.  b is the sequence number of byte 1, m bytes have been *)
(* sent and n stored, and the program of the peer has read g.              *)

Up(c)    == c.state \in {"ESTABLISHED", "FIN_WAIT_1", "FIN_WAIT_2", "CLOSE_WAIT", "LAST_ACK"}
Talks(c) == c.state \in {"ESTABLISHED", "CLOSE_WAIT"}
Heard(c) == c.state \in {"CLOSE_WAIT", "LAST_ACK"}

\* q is the bytes after the first k.
From(q, k) == \A j \in 1 .. Len(q) : q[j] = k + j

\* c sends: its sequence number is that of the next byte, behind a FIN the next but one, and
\* what it keeps for retransmission is the end of what was sent.
Snd(c, b, m, h, gone) ==
  /\ Up(c) => c.seq = b + m + IF Talks(c) THEN 0 ELSE 1
  /\ c.tx # <<>> => /\ b <= c.unacked_seq /\ c.unacked_seq + Len(c.tx) = b + m
                    /\ From(c.tx, c.unacked_seq - b)
                    /\ h \in gone \/ Talks(c)

\* c receives: it expects the byte after those stored, behind a FIN what follows it, and
\* its buffer is what is stored and not read.
Rcv(c, b, m, n, l) ==
  /\ Up(c) => /\ c.ack = b + IF Heard(c) THEN m + 1 ELSE n
              /\ c.eof <=> Heard(c)
  /\ Up(c) \/ c.rx # <<>> => l + Len(c.rx) = n
  /\ From(c.rx, l)

\* A segment of h
Outgoing(s, b, m) ==
  /\ s.data # <<>> => b <= s.seq /\ s.seq + Len(s.data) <= b + m /\ From(s.data, s.seq - b)
  /\ "FIN" \in s.flags => s.data = <<>> /\ s.seq = b + m

\* A segment of the peer
Comes(s, b, m) == "ACK" \in s.flags => b <= s.ack /\ s.ack <= b + m + 1

\* h sends no more, and all it sent is stored, unless the connection was cut.
Over(S, m, n, h, gone) == (\A i \in DOMAIN S : ~Talks(S[i])) /\ (h \in gone \/ n = m)

\* Somebody has seen the end of the stream.
Closing(R, out, back, b, n) ==
  \/ \E i \in DOMAIN R : R[i].eof
  \/ \E s \in out : "FIN" \in s.flags
  \/ \E s \in back : "ACK" \in s.flags /\ s.ack > b + n

Way(b, S, R, out, back, m, n, g, h, gone) ==
  /\ n <= m /\ Len(g) <= n /\ From(g, 0)
  /\ \A i \in DOMAIN S : Snd(S[i], b, m, h, gone)
  /\ \A i \in DOMAIN R : Rcv(R[i], b, m, n, Len(g))
  /\ \A s \in out : Outgoing(s, b, m)
  /\ \A s \in back : Comes(s, b, m)
  /\ Closing(R, out, back, b, n) => Over(S, m, n, h, gone)
  /\ h \in gone \/ n = m \/ \E i \in DOMAIN S : S[i].tx # <<>>

WayTypes(b, S, R, out, back, m, n, g) ==
  /\ b \in Nat /\ m \in Nat /\ n \in Nat /\ g \in Seq(Nat)
  /\ \A i \in DOMAIN S : S[i] \in Conns
  /\ \A i \in DOMAIN R : R[i] \in Conns
  /\ out \subseteq Segments /\ back \subseteq Segments

\* T is S with c in slot i.
Put(T, S, i, c) == /\ DOMAIN T = DOMAIN S /\ i \in DOMAIN S /\ T[i] = c
                   /\ \A j \in DOMAIN S : j = i \/ T[j] = S[j]

\* c may stand for d in the slots of the sender.
SndFits(c, d, b, m, n, h, gone) ==
  /\ c.tx # <<>> => /\ c.tx = d.tx /\ c.unacked_seq = d.unacked_seq
                    /\ h \in gone \/ Talks(c)
  /\ d.tx # <<>> /\ c.tx = <<>> => h \in gone \/ n = m
  /\ Talks(c) => Talks(d)
  /\ Up(c) => c.seq = b + m + IF Talks(c) THEN 0 ELSE 1

LEMMA SndSlot ==
  ASSUME NEW b, NEW S, NEW R, NEW out, NEW back, NEW m, NEW n, NEW g, NEW h, NEW gone,
         Way(b, S, R, out, back, m, n, g, h, gone),
         NEW T, NEW i, NEW c, Put(T, S, i, c), SndFits(c, S[i], b, m, n, h, gone)
  PROVE  Way(b, T, R, out, back, m, n, g, h, gone)
<1>1. Snd(c, b, m, h, gone)
  <2>1. Snd(S[i], b, m, h, gone)
    BY DEF Way, Put
  <2> QED
    BY <2>1 DEF Snd, SndFits
<1>2. \A j \in DOMAIN T : Snd(T[j], b, m, h, gone)
  BY <1>1 DEF Way, Put
<1>3. Over(S, m, n, h, gone) => Over(T, m, n, h, gone)
  BY DEF Over, Put, SndFits
<1>4. h \in gone \/ n = m \/ \E j \in DOMAIN T : T[j].tx # <<>>
  <2>1. h \in gone \/ n = m \/ \E j \in DOMAIN S : S[j].tx # <<>>
    BY DEF Way
  <2>2. ASSUME NEW j \in DOMAIN S, S[j].tx # <<>>, ~(h \in gone \/ n = m)
        PROVE  T[j].tx # <<>>
    <3>1. CASE j = i
      BY <2>2, <3>1 DEF SndFits, Put
    <3>2. CASE j # i
      BY <2>2, <3>2 DEF Put
    <3> QED
      BY <3>1, <3>2
  <2>3. DOMAIN T = DOMAIN S
    BY DEF Put
  <2> QED
    BY <2>1, <2>2, <2>3
<1> QED
  BY <1>2, <1>3, <1>4 DEF Way

\* c may stand for d in the slots of the receiver.
RcvFits(c, d) ==
  /\ Up(c) => /\ Up(d) /\ c.ack = d.ack /\ c.rx = d.rx /\ c.eof = d.eof
              /\ Heard(c) <=> Heard(d)
  /\ c.rx # <<>> => c.rx = d.rx
  /\ c.eof => d.eof

LEMMA RcvSlot ==
  ASSUME NEW b, NEW S, NEW R, NEW out, NEW back, NEW m, NEW n, NEW g, NEW h, NEW gone,
         Way(b, S, R, out, back, m, n, g, h, gone),
         NEW T, NEW i, NEW c, Put(T, R, i, c), RcvFits(c, R[i])
  PROVE  Way(b, S, T, out, back, m, n, g, h, gone)
<1>1. Rcv(c, b, m, n, Len(g))
  <2>1. Rcv(R[i], b, m, n, Len(g))
    BY DEF Way, Put
  <2>2. From(<<>>, Len(g))
    BY DEF From
  <2>3. Up(c) => /\ c.ack = b + IF Heard(c) THEN m + 1 ELSE n
                 /\ c.eof <=> Heard(c)
    BY <2>1 DEF Rcv, RcvFits
  <2>4. Up(c) \/ c.rx # <<>> => Len(g) + Len(c.rx) = n
    BY <2>1 DEF Rcv, RcvFits
  <2>5. From(c.rx, Len(g))
    BY <2>1, <2>2 DEF Rcv, RcvFits
  <2> QED
    BY <2>3, <2>4, <2>5 DEF Rcv
<1>2. \A j \in DOMAIN T : Rcv(T[j], b, m, n, Len(g))
  BY <1>1 DEF Way, Put
<1>3. Closing(T, out, back, b, n) => Closing(R, out, back, b, n)
  BY DEF Closing, Put, RcvFits
<1> QED
  BY <1>2, <1>3 DEF Way

LEMMA WayOut ==
  ASSUME NEW b, NEW S, NEW R, NEW out, NEW back, NEW m, NEW n, NEW g, NEW h, NEW gone,
         Way(b, S, R, out, back, m, n, g, h, gone),
         NEW new, \A s \in new : Outgoing(s, b, m) /\ ("FIN" \in s.flags => Over(S, m, n, h, gone))
  PROVE  Way(b, S, R, out \cup new, back, m, n, g, h, gone)
<1>1. \A s \in out \cup new : Outgoing(s, b, m)
  BY DEF Way
<1>2. Closing(R, out \cup new, back, b, n) => Over(S, m, n, h, gone)
  BY DEF Way, Closing
<1> QED
  BY <1>1, <1>2 DEF Way

LEMMA WayBack ==
  ASSUME NEW b, NEW S, NEW R, NEW out, NEW back, NEW m, NEW n, NEW g, NEW h, NEW gone,
         Way(b, S, R, out, back, m, n, g, h, gone),
         NEW new, \A s \in new : /\ Comes(s, b, m)
                                 /\ "ACK" \in s.flags /\ s.ack > b + n => Over(S, m, n, h, gone)
  PROVE  Way(b, S, R, out, back \cup new, m, n, g, h, gone)
<1>1. \A s \in back \cup new : Comes(s, b, m)
  BY DEF Way
<1>2. Closing(R, out, back \cup new, b, n) => Over(S, m, n, h, gone)
  BY DEF Way, Closing
<1> QED
  BY <1>1, <1>2 DEF Way

LEMMA WayLess ==
  ASSUME NEW b, NEW S, NEW R, NEW out, NEW back, NEW m, NEW n, NEW g, NEW h, NEW gone,
         Way(b, S, R, out, back, m, n, g, h, gone),
         NEW out1 \in SUBSET out, NEW back1 \in SUBSET back
  PROVE  Way(b, S, R, out1, back1, m, n, g, h, gone)
<1>1. Closing(R, out1, back1, b, n) => Closing(R, out, back, b, n)
  BY DEF Closing
<1> QED
  BY <1>1 DEF Way

LEMMA WayCut ==
  ASSUME NEW b, NEW S, NEW R, NEW out, NEW back, NEW m, NEW n, NEW g, NEW h, NEW gone,
         Way(b, S, R, out, back, m, n, g, h, gone), NEW gone1, gone \subseteq gone1
  PROVE  Way(b, S, R, out, back, m, n, g, h, gone1)
<1>1. \A i \in DOMAIN S : Snd(S[i], b, m, h, gone1)
  BY DEF Way, Snd
<1>2. Over(S, m, n, h, gone) => Over(S, m, n, h, gone1)
  BY DEF Over
<1> QED
  BY <1>1, <1>2 DEF Way

\* A slot that has something of a connection; one slot of a host does.
Active(c) == Up(c) \/ c.rx # <<>> \/ c.tx # <<>>
One(S)  == \A i, j \in DOMAIN S : Active(S[i]) /\ Active(S[j]) => i = j

LEMMA NotLive ==
  ASSUME NEW S, One(S), NEW i \in DOMAIN S, Active(S[i]), NEW j \in DOMAIN S, j # i
  PROVE  ~Up(S[j]) /\ S[j].rx = <<>> /\ S[j].tx = <<>>
BY DEF One, Active

LEMMA NoBytes == \A k : From(<<>>, k)
BY DEF From

\* net_tcp_send: k bytes, kept in c until they are acknowledged
LEMMA WaySend ==
  ASSUME NEW b, NEW S, NEW R, NEW out, NEW back, NEW m, NEW n, NEW g, NEW h, NEW gone,
         WayTypes(b, S, R, out, back, m, n, g), Way(b, S, R, out, back, m, n, g, h, gone),
         One(S), NEW T, NEW i, NEW c \in Conns, Put(T, S, i, c),
         S[i].state = "ESTABLISHED", c.state = "ESTABLISHED", NEW k \in Nat, k > 0,
         c.seq = S[i].seq + k, c.unacked_seq = S[i].seq, Len(c.tx) = k, From(c.tx, m)
  PROVE  Way(b, T, R, out, back, m + k, n, g, h, gone)
<1>1. /\ b \in Nat /\ m \in Nat /\ n \in Nat /\ n <= m /\ Len(g) <= n /\ From(g, 0)
      /\ i \in DOMAIN S /\ Len(g) \in Nat
  BY DEF WayTypes, Way, Put
<1>2. Up(S[i]) /\ Talks(S[i]) /\ Up(c) /\ Talks(c) /\ Active(S[i])
  BY DEF Up, Talks, Active
<1>3. S[i].seq = b + m
  <2>1. Snd(S[i], b, m, h, gone)
    BY <1>1 DEF Way
  <2> QED
    BY <1>1, <1>2, <2>1 DEF Snd
<1>4. ~Over(S, m, n, h, gone)
  BY <1>1, <1>2 DEF Over
<1>5. ~Closing(R, out, back, b, n)
  BY <1>4 DEF Way
<1>6. Snd(c, b, m + k, h, gone)
  <2>1. c.seq = b + (m + k) /\ c.unacked_seq = b + m /\ c.unacked_seq - b = m
    BY <1>1, <1>3
  <2>2. b <= c.unacked_seq /\ c.unacked_seq + Len(c.tx) = b + (m + k)
    BY <1>1, <2>1
  <2>3. From(c.tx, c.unacked_seq - b)
    BY <2>1
  <2>4. c.seq = b + (m + k) + 0
    BY <1>1, <2>1
  <2> QED
    BY <1>2, <2>2, <2>3, <2>4 DEF Snd
<1>7. \A j \in DOMAIN T : Snd(T[j], b, m + k, h, gone)
  <2>1. ASSUME NEW j \in DOMAIN S, j # i PROVE Snd(S[j], b, m + k, h, gone)
    <3>1. ~Up(S[j]) /\ S[j].tx = <<>>
      BY <1>1, <1>2, <2>1, NotLive
    <3> QED
      BY <3>1 DEF Snd
  <2> QED
    BY <1>6, <2>1 DEF Put
<1>8. \A j \in DOMAIN R : Rcv(R[j], b, m + k, n, Len(g))
  <2>1. ASSUME NEW j \in DOMAIN R PROVE Rcv(R[j], b, m + k, n, Len(g))
    <3>1. Rcv(R[j], b, m, n, Len(g)) /\ ~R[j].eof
      BY <1>5 DEF Way, Closing
    <3>2. Up(R[j]) => ~Heard(R[j])
      BY <3>1 DEF Rcv
    <3> QED
      BY <3>1, <3>2 DEF Rcv
  <2> QED
    BY <2>1
<1>9. ASSUME NEW s \in out PROVE Outgoing(s, b, m + k)
  <2>1. /\ Outgoing(s, b, m) /\ "FIN" \notin s.flags /\ s.seq \in Nat /\ Len(s.data) \in Nat
    BY <1>5, SegmentFields DEF Way, Closing, WayTypes
  <2>2. s.seq + Len(s.data) <= b + m => s.seq + Len(s.data) <= b + (m + k)
    BY <1>1, <2>1
  <2> QED
    BY <2>1, <2>2 DEF Outgoing
<1>10. ASSUME NEW s \in back PROVE Comes(s, b, m + k)
  <2>1. Comes(s, b, m) /\ s.ack \in Nat
    BY SegmentFields DEF Way, WayTypes
  <2>2. s.ack <= b + m + 1 => s.ack <= b + (m + k) + 1
    BY <1>1, <2>1
  <2> QED
    BY <2>1, <2>2 DEF Comes
<1>11. c.tx # <<>>
  <2>1. Len(<<>>) = 0
    OBVIOUS
  <2> QED
    BY <2>1
<1>12. \E j \in DOMAIN T : T[j].tx # <<>>
  BY <1>1, <1>11 DEF Put
<1>13. n <= m + k
  BY <1>1
<1> QED
  BY <1>1, <1>5, <1>7, <1>8, <1>9, <1>10, <1>12, <1>13 DEF Way

\* net_tcp_recv: the program takes the first k bytes of the buffer.
LEMMA WayRecv ==
  ASSUME NEW b, NEW S, NEW R, NEW out, NEW back, NEW m, NEW n, NEW g, NEW h, NEW gone,
         WayTypes(b, S, R, out, back, m, n, g), Way(b, S, R, out, back, m, n, g, h, gone),
         One(R), NEW T, NEW i, NEW c \in Conns, Put(T, R, i, c),
         NEW k \in Nat, k > 0, k <= Len(R[i].rx), NEW q, q = SubSeq(R[i].rx, 1, k),
         c.rx = SubSeq(R[i].rx, k + 1, Len(R[i].rx)), c.state = R[i].state,
         c.ack = R[i].ack, c.eof = R[i].eof
  PROVE  Way(b, S, T, out, back, m, n, g \o q, h, gone)
<1>1. /\ b \in Nat /\ m \in Nat /\ n \in Nat /\ n <= m /\ Len(g) <= n /\ From(g, 0)
      /\ i \in DOMAIN R /\ g \in Seq(Nat)
  BY DEF WayTypes, Way, Put
<1>2. PICK r : r = R[i].rx
  OBVIOUS
<1>3. r \in Seq(Nat) /\ Len(r) \in Nat /\ R[i] \in Conns /\ Len(g) \in Nat
  <2>1. R[i] \in Conns
    BY <1>1 DEF WayTypes
  <2> QED
    BY <1>1, <1>2, <2>1, Fields
<1>4. r # <<>>
  BY <1>2
<1>5. Rcv(R[i], b, m, n, Len(g))
  BY <1>1 DEF Way
<1>6. Len(g) + Len(r) = n /\ From(r, Len(g))
  BY <1>2, <1>4, <1>5 DEF Rcv
<1>7. /\ q \in Seq(Nat) /\ Len(q) = k /\ \A j \in 1 .. k : q[j] = r[j]
  <2>1. k \in Nat /\ k <= Len(r) /\ q = SubSeq(r, 1, k)
    BY <1>2
  <2>2. /\ SubSeq(r, 1, k) \in Seq(Nat) /\ Len(SubSeq(r, 1, k)) = k
        /\ \A j \in 1 .. k : SubSeq(r, 1, k)[j] = r[j]
    BY <1>3, <2>1, FrontSeq
  <2> QED
    BY <2>1, <2>2
<1>8. /\ c.rx \in Seq(Nat) /\ Len(c.rx) = Len(r) - k
      /\ \A j \in 1 .. Len(r) - k : c.rx[j] = r[k + j]
  <2>1. r \in Seq(Nat) /\ k <= Len(r) /\ c.rx = SubSeq(r, k + 1, Len(r))
    BY <1>2, <1>3
  <2>2. /\ SubSeq(r, k + 1, Len(r)) \in Seq(Nat)
        /\ Len(SubSeq(r, k + 1, Len(r))) = Len(r) - k
        /\ \A j \in 1 .. Len(r) - k : SubSeq(r, k + 1, Len(r))[j] = r[k + j]
    BY <2>1, RestSeq
  <2> QED
    BY <2>1, <2>2
<1>9. g \o q \in Seq(Nat) /\ Len(g \o q) = Len(g) + k
  BY <1>1, <1>7, Joined
<1>10. From(g \o q, 0)
  <2>1. ASSUME NEW j \in 1 .. Len(g) + k PROVE (g \o q)[j] = 0 + j
    <3>1. (g \o q)[j] = IF j <= Len(g) THEN g[j] ELSE q[j - Len(g)]
      BY <1>1, <1>7, Joined
    <3>2. CASE j <= Len(g)
      <4>1. j \in 1 .. Len(g)
        BY <1>3, <3>2
      <4> QED
        BY <1>1, <3>1, <3>2, <4>1 DEF From
    <3>3. CASE ~(j <= Len(g))
      <4>0. PICK l \in Nat : l = Len(g)
        BY <1>3
      <4>5. \A y \in 1 .. l + k : ~(y <= l) => y - l \in 1 .. k
        BY <4>0
      <4>6. j \in 1 .. l + k /\ ~(j <= l)
        BY <4>0, <3>3
      <4>1. PICK x \in 1 .. k : x = j - Len(g)
        BY <4>0, <4>5, <4>6
      <4>7. k <= Len(r)
        BY <1>2
      <4>8. x \in 1 .. Len(r)
        BY <1>3, <4>7
      <4>2. q[x] = r[x] /\ x \in 1 .. Len(r)
        BY <1>7, <4>8
      <4>3. r[x] = Len(g) + x
        BY <1>6, <4>2 DEF From
      <4>4. Len(g) + x = 0 + j
        BY <1>3, <4>1
      <4> QED
        BY <3>1, <3>3, <4>1, <4>2, <4>3, <4>4
    <3> QED
      BY <3>2, <3>3
  <2> QED
    BY <1>9, <2>1 DEF From
<1>11. From(c.rx, Len(g) + k)
  <2>1. ASSUME NEW j \in 1 .. Len(r) - k PROVE c.rx[j] = Len(g) + k + j
    <3>1. PICK x \in 1 .. Len(r) : x = k + j
      BY <1>3
    <3>2. r[x] = Len(g) + x
      BY <1>6 DEF From
    <3>3. Len(g) + x = Len(g) + k + j
      BY <1>3, <3>1
    <3> QED
      BY <1>8, <3>1, <3>2, <3>3
  <2> QED
    BY <1>8, <2>1 DEF From
<1>12. Len(g) + k + Len(c.rx) = n /\ Len(g) + k <= n
  <2>1. PICK l \in Nat, x \in Nat : l = Len(g) /\ x = Len(r)
    BY <1>3
  <2>2. k <= x /\ l + x = n /\ Len(c.rx) = x - k
    BY <2>1, <1>2, <1>6, <1>8
  <2>3. l + k + (x - k) = n /\ l + k <= n
    BY <2>2, <1>1
  <2> QED
    BY <2>1, <2>2, <2>3
<1>13. Rcv(c, b, m, n, Len(g) + k)
  <2>1. (Up(c) <=> Up(R[i])) /\ (Heard(c) <=> Heard(R[i]))
    BY DEF Up, Heard
  <2> QED
    BY <1>5, <1>11, <1>12, <2>1 DEF Rcv
<1>14. \A j \in DOMAIN T : Rcv(T[j], b, m, n, Len(g) + k)
  <2>1. ASSUME NEW j \in DOMAIN R, j # i PROVE Rcv(R[j], b, m, n, Len(g) + k)
    <3>1. Active(R[i])
      BY <1>2, <1>4 DEF Active
    <3>2. ~Up(R[j]) /\ R[j].rx = <<>>
      BY <1>1, <2>1, <3>1, NotLive
    <3> QED
      BY <3>2, NoBytes DEF Rcv
  <2> QED
    BY <1>13, <2>1 DEF Put
<1>15. Closing(T, out, back, b, n) => Closing(R, out, back, b, n)
  BY DEF Closing, Put
<1> QED
  BY <1>1, <1>9, <1>10, <1>12, <1>14, <1>15 DEF Way

\* An acknowledgement of a connection that is up
LEMMA WayAck ==
  ASSUME NEW b, NEW S, NEW R, NEW out, NEW back, NEW m, NEW n, NEW g, NEW h, NEW gone,
         WayTypes(b, S, R, out, back, m, n, g), Way(b, S, R, out, back, m, n, g, h, gone),
         NEW i \in DOMAIN R, Up(R[i]), NEW x, x = R[i].ack
  PROVE  /\ b <= x /\ x <= b + m + 1
         /\ x > b + n => Over(S, m, n, h, gone)
<1>1. b \in Nat /\ m \in Nat /\ n \in Nat /\ n <= m
  BY DEF WayTypes, Way
<1>2. /\ x = b + IF Heard(R[i]) THEN m + 1 ELSE n
      /\ R[i].eof <=> Heard(R[i])
  BY DEF Way, Rcv
<1>3. CASE Heard(R[i])
  <2>1. Over(S, m, n, h, gone)
    BY <1>2, <1>3 DEF Way, Closing
  <2> QED
    BY <1>1, <1>2, <1>3, <2>1
<1>4. CASE ~Heard(R[i])
  BY <1>1, <1>2, <1>4
<1> QED
  BY <1>3, <1>4

\* Data in order is stored.
LEMMA WayStore ==
  ASSUME NEW b, NEW S, NEW R, NEW out, NEW back, NEW m, NEW n, NEW g, NEW h, NEW gone,
         WayTypes(b, S, R, out, back, m, n, g), Way(b, S, R, out, back, m, n, g, h, gone),
         One(R), b + m + 1 < MOD, NEW T, NEW i, NEW c \in Conns, Put(T, R, i, c),
         NEW s \in out, Fits(R[i], s), c.rx = R[i].rx \o s.data,
         c.ack = Plus(s.seq, Len(s.data)), c.state = R[i].state, c.eof = R[i].eof
  PROVE  Way(b, S, T, out, back, m, n + Len(s.data), g, h, gone)
<1>1. /\ b \in Nat /\ m \in Nat /\ n \in Nat /\ n <= m /\ Len(g) <= n /\ From(g, 0)
      /\ i \in DOMAIN R /\ g \in Seq(Nat) /\ Len(g) \in Nat /\ s \in Segments
      /\ MOD \in Nat /\ R[i] \in Conns
  BY Seq32In DEF WayTypes, Way, Put
<1>2. PICK r : r = R[i].rx
  OBVIOUS
<1>3. PICK t : t = s.data
  OBVIOUS
<1>4. r \in Seq(Nat) /\ Len(r) \in Nat /\ t \in Seq(Nat) /\ Len(t) \in Nat /\ s.seq \in Nat
  BY <1>1, <1>2, <1>3, Fields, SegmentFields
<1>5. PICK l \in Nat, y \in Nat, z \in Nat : l = Len(g) /\ y = Len(r) /\ z = Len(t)
  BY <1>1, <1>4
<1>6. t # <<>> /\ Talks(R[i]) /\ s.seq = R[i].ack /\ Up(R[i]) /\ Active(R[i])
  BY <1>3 DEF Fits, Carries, Talks, Up, Active
<1>7. z > 0
  BY <1>4, <1>5, <1>6
<1>8. b <= s.seq /\ s.seq + z <= b + m /\ From(t, s.seq - b) /\ "FIN" \notin s.flags
  BY <1>3, <1>5, <1>6 DEF Way, Outgoing
<1>9. Rcv(R[i], b, m, n, l)
  BY <1>1, <1>5 DEF Way
<1>10. ~Heard(R[i])
  <2>1. Heard(R[i]) => s.seq = b + (m + 1)
    BY <1>6, <1>9 DEF Rcv
  <2>2. s.seq # b + (m + 1)
    BY <1>1, <1>4, <1>7, <1>8
  <2> QED
    BY <2>1, <2>2
<1>11. s.seq = b + n /\ ~R[i].eof /\ l + y = n /\ From(r, l)
  BY <1>2, <1>5, <1>6, <1>9, <1>10 DEF Rcv
<1>12. n + z <= m /\ s.seq - b = n /\ n + z \in Nat /\ n # m /\ l <= n + z
  <2>1. PICK q \in Nat : q = s.seq
    BY <1>4
  <2>2. q = b + n /\ q + z <= b + m /\ l <= n
    BY <1>1, <1>5, <1>8, <1>11, <2>1
  <2>3. b \in Nat /\ m \in Nat /\ n \in Nat /\ l \in Nat /\ z \in Nat /\ z > 0
    BY <1>1, <1>5, <1>7
  <2>4. n + z <= m /\ q - b = n /\ n + z \in Nat /\ n # m /\ l <= n + z
    BY <2>2, <2>3
  <2> QED
    BY <2>1, <2>4
<1>13. From(t, n)
  BY <1>8, <1>12
<1>14. c.ack = b + (n + z)
  <2>1. c.ack = Plus(s.seq, z)
    BY <1>3, <1>5
  <2>2. s.seq + z = b + (n + z) /\ s.seq + z < MOD
    BY <1>1, <1>11, <1>12
  <2> QED
    BY <1>4, <2>1, <2>2, PlusIs
<1>15. c.rx \in Seq(Nat) /\ Len(c.rx) = y + z /\ l + Len(c.rx) = n + z
  <2>1. c.rx = r \o t
    BY <1>2, <1>3
  <2>2. c.rx \in Seq(Nat) /\ Len(c.rx) = y + z
    BY <1>4, <1>5, <2>1, Joined
  <2>3. l + (y + z) = n + z
    <3>1. l + y = n
      BY <1>11
    <3> QED
      BY <3>1
  <2> QED
    BY <2>2, <2>3
<1>16. From(c.rx, l)
  <2>1. ASSUME NEW j \in 1 .. y + z PROVE c.rx[j] = l + j
    <3>1. c.rx[j] = IF j <= y THEN r[j] ELSE t[j - y]
      BY <1>2, <1>3, <1>4, <1>5, Joined
    <3>2. CASE j <= y
      <4>1. j \in 1 .. Len(r)
        BY <1>5, <3>2
      <4> QED
        BY <1>11, <3>1, <3>2, <4>1 DEF From
    <3>3. CASE ~(j <= y)
      <4>0. j \in 1 .. y + z /\ ~(j <= y) /\ y \in Nat /\ z \in Nat /\ l \in Nat
        BY <3>3
      <4>1. PICK x \in 1 .. z : x = j - y
        BY <4>0
      <4>2. t[x] = n + x
        BY <1>5, <1>13 DEF From
      <4>4. n = l + y
        BY <1>11
      <4>3. n + x = l + j
        BY <4>0, <4>1, <4>4
      <4> QED
        BY <3>1, <3>3, <4>1, <4>2, <4>3
    <3> QED
      BY <3>2, <3>3
  <2> QED
    BY <1>15, <2>1 DEF From
<1>17. Rcv(c, b, m, n + z, l)
  <2>1. ~Heard(c) /\ ~c.eof
    BY <1>10, <1>11 DEF Heard
  <2> QED
    BY <1>14, <1>15, <1>16, <2>1 DEF Rcv
<1>18. \A j \in DOMAIN T : Rcv(T[j], b, m, n + z, l)
  <2>1. ASSUME NEW j \in DOMAIN R, j # i PROVE Rcv(R[j], b, m, n + z, l)
    <3>1. ~Up(R[j]) /\ R[j].rx = <<>>
      BY <1>1, <1>6, <2>1, NotLive
    <3> QED
      BY <3>1, NoBytes DEF Rcv
  <2> QED
    BY <1>17, <2>1 DEF Put
<1>19. Closing(T, out, back, b, n + z) => Over(S, m, n + z, h, gone)
  <2>1. \A x \in back : x.ack \in Nat
    BY SegmentFields DEF WayTypes
  <2>2. \A x \in Nat : x > b + (n + z) => x > b + n
    BY <1>1, <1>5
  <2>3. ~c.eof
    BY <1>11
  <2>4. Closing(T, out, back, b, n + z) => Closing(R, out, back, b, n)
    BY <2>1, <2>2, <2>3 DEF Closing, Put
  <2>5. Over(S, m, n, h, gone) => Over(S, m, n + z, h, gone)
    BY <1>12 DEF Over
  <2> QED
    BY <2>4, <2>5 DEF Way
<1>20. h \in gone \/ \E j \in DOMAIN S : S[j].tx # <<>>
  BY <1>12 DEF Way
<1>21. Way(b, S, T, out, back, m, n + z, g, h, gone)
  BY <1>1, <1>5, <1>12, <1>18, <1>19, <1>20 DEF Way
<1> QED
  BY <1>3, <1>5, <1>21

\* The FIN of the sender has come.
LEMMA WayFin ==
  ASSUME NEW b, NEW S, NEW R, NEW out, NEW back, NEW m, NEW n, NEW g, NEW h, NEW gone,
         WayTypes(b, S, R, out, back, m, n, g), Way(b, S, R, out, back, m, n, g, h, gone),
         NEW T, NEW i, NEW c, Put(T, R, i, c), Talks(R[i]),
         c.state = "CLOSE_WAIT", c.eof = TRUE, c.rx = R[i].rx, c.ack = b + m + 1
  PROVE  /\ Over(S, m, n, h, gone) => Way(b, S, T, out, back, m, n, g, h, gone)
<1>1. i \in DOMAIN R /\ b \in Nat /\ m \in Nat /\ n \in Nat
  BY DEF Put, WayTypes
<1>2. Rcv(R[i], b, m, n, Len(g)) /\ Up(R[i])
  BY <1>1 DEF Way, Up, Talks
<1>3. Up(c) /\ Heard(c) /\ c.ack = b + (m + 1)
  BY <1>1 DEF Up, Heard
<1>4. Rcv(c, b, m, n, Len(g))
  BY <1>2, <1>3 DEF Rcv
<1>5. \A j \in DOMAIN T : Rcv(T[j], b, m, n, Len(g))
  BY <1>4 DEF Way, Put
<1> QED
  BY <1>5 DEF Way

\* A FIN is at the end of the stream.
LEMMA WayEnd ==
  ASSUME NEW b, NEW S, NEW R, NEW out, NEW back, NEW m, NEW n, NEW g, NEW h, NEW gone,
         WayTypes(b, S, R, out, back, m, n, g), Way(b, S, R, out, back, m, n, g, h, gone),
         b + m + 1 < MOD, NEW s \in out, "FIN" \in s.flags
  PROVE  /\ s.data = <<>> /\ Over(S, m, n, h, gone)
         /\ Plus(s.seq, Len(s.data) + 1) = b + m + 1
<1>1. b \in Nat /\ m \in Nat /\ s \in Segments /\ MOD \in Nat
  BY Seq32In DEF WayTypes
<1>2. s.data = <<>> /\ s.seq = b + m
  BY DEF Way, Outgoing
<1>3. Len(s.data) + 1 = 1
  BY <1>2
<1>4. Plus(b + m, 1) = b + m + 1
  BY <1>1, PlusIs
<1> QED
  BY <1>2, <1>3, <1>4 DEF Way, Closing

\* A direction that has carried nothing
LEMMA WayNew ==
  ASSUME NEW b \in Nat, NEW S, NEW R, NEW out, NEW back, NEW h, NEW gone,
         \A i \in DOMAIN S : S[i].tx = <<>> /\ (Up(S[i]) => Talks(S[i]) /\ S[i].seq = b),
         \A i \in DOMAIN R : /\ R[i].rx = <<>> /\ ~R[i].eof
                             /\ Up(R[i]) => ~Heard(R[i]) /\ R[i].ack = b,
         \A s \in out : s.data = <<>> /\ "FIN" \notin s.flags,
         \A s \in back : "ACK" \in s.flags => s.ack = b
  PROVE  Way(b, S, R, out, back, 0, 0, <<>>, h, gone)
<1>1. Len(<<>>) = 0 /\ b + 0 = b /\ b <= b + 0 + 1 /\ ~(b > b + 0) /\ 0 + 0 = 0
  OBVIOUS
<1>2. \A i \in DOMAIN S : Snd(S[i], b, 0, h, gone)
  BY <1>1 DEF Snd
<1>3. \A i \in DOMAIN R : Rcv(R[i], b, 0, 0, Len(<<>>))
  BY <1>1, NoBytes DEF Rcv
<1>4. \A s \in out : Outgoing(s, b, 0)
  BY DEF Outgoing
<1>5. \A s \in back : Comes(s, b, 0)
  BY <1>1 DEF Comes
<1>6. ~Closing(R, out, back, b, 0)
  BY <1>1 DEF Closing
<1> QED
  BY <1>1, <1>2, <1>3, <1>4, <1>5, <1>6, NoBytes DEF Way

\* The receiver comes up before anything is stored.
LEMMA WayUp ==
  ASSUME NEW b \in Nat, NEW S, NEW R, NEW out, NEW back, NEW m, NEW g, NEW h, NEW gone,
         Way(b, S, R, out, back, m, 0, g, h, gone), g = <<>>,
         NEW T, NEW i, NEW c, Put(T, R, i, c),
         c.state = "ESTABLISHED", c.ack = b, c.rx = <<>>, c.eof = FALSE
  PROVE  Way(b, S, T, out, back, m, 0, g, h, gone)
<1>1. Len(<<>>) = 0 /\ b + 0 = b /\ 0 + 0 = 0
  OBVIOUS
<1>2. Rcv(c, b, m, 0, Len(g))
  BY <1>1, NoBytes DEF Rcv, Heard
<1>3. \A j \in DOMAIN T : Rcv(T[j], b, m, 0, Len(g))
  BY <1>2 DEF Way, Put
<1>4. Closing(T, out, back, b, 0) => Closing(R, out, back, b, 0)
  BY DEF Closing, Put
<1> QED
  BY <1>3, <1>4 DEF Way


\* The sequence number of the first byte of the client
B == Isn[Client] + 1

-----------------------------------------------------------------------------
(* What a step keeps, whatever has been sent                               *)

IsChild(c) == c.state \notin {"CLOSED", "LISTEN"}
Mine(c)  == c.lport = Ephemeral /\ c.rport = PORT
Silent(S) == \A i \in DOMAIN S : ~Active(S[i]) /\ ~S[i].eof
Untouched(c) == c = Zero

\* Before the SYN: slot k is free, or its connect is queued.
Before(k) ==
  /\ \/ pending[Client] = None /\ Untouched(conns[Client][k])
     \/ pending[Client] = k /\ ~ready[Client]
        /\ conns[Client][k].lport = Ephemeral /\ conns[Client][k].state = "CLOSED"
  /\ isn = Isn
  /\ Silent(conns[Client]) /\ Silent(conns[Server])
  /\ \A i \in Slot[Server] : ~IsChild(conns[Server][i])
  /\ \A s \in net : s.flags = {"RST"}

\* The client has sent its SYN, and the server takes a number for each copy of it.
Begun(k) ==
  /\ pending[Client] = None /\ Mine(conns[Client][k])
  /\ conns[Client][k].state \notin {"LISTEN", "SYN_RCVD"}
  /\ conns[Client][k].state = "SYN_SENT" => conns[Client][k].seq = B
  /\ isn[Server] <= Far(MaxFaults - faults + IF Hello \in net THEN 0 ELSE 1)

ClientOK ==
  \E k \in Slot[Client] :
    /\ \A j \in Slot[Client] : j = k \/ Untouched(conns[Client][j])
    /\ Before(k) \/ Begun(k)

\* One past an initial sequence number of the server, or what a second SYN has made of it
Counted(x) == x = B \/ (Isn[Server] + 1 <= x /\ x + STEP <= isn[Server] + 1)

ServerSlot(c) ==
  /\ c.state # "SYN_SENT"
  /\ c.in_use <=> c.state # "CLOSED"
  /\ IsChild(c) => c.lport = PORT /\ c.rport = Ephemeral
  /\ c.state = "SYN_RCVD" => c.ack = B /\ Counted(c.seq)

ServerOK ==
  /\ pending[Server] = None
  /\ \A i \in Slot[Server] : ServerSlot(conns[Server][i])
  /\ \A i, j \in Slot[Server] : IsChild(conns[Server][i]) /\ IsChild(conns[Server][j]) => i = j

\* Only a connection that is up has data to retransmit.
Keeps(c) == c.in_use /\ c.tx # <<>> => Up(c)
KeepsOK == \A h \in Host : \A i \in Slot[h] : Keeps(conns[h][i])

SegOK(s) ==
  /\ s.src = Client /\ "SYN" \in s.flags => s = Hello
  /\ s.src = Server /\ "SYN" \in s.flags =>
       /\ s.flags = {"SYN", "ACK"} /\ s.data = <<>> /\ s.ack = B
       /\ s.seq = B \/ (Isn[Server] <= s.seq /\ s.seq + STEP <= isn[Server] + 1)
  /\ "RST" \in s.flags => s.flags = {"RST"} /\ cut = Host

SegsOK == \A s \in net : SegOK(s)

Shape == ClientOK /\ ServerOK /\ KeepsOK /\ SegsOK /\ Isn[Server] <= isn[Server]

-----------------------------------------------------------------------------
(* What has been sent, and where it is                                     *)

By(h) == {s \in net : s.src = h}
WayOf(h, b) == Way(b, conns[h], conns[Peer(h)], By(h), By(Peer(h)), sent[h], stored[h],
                   got[h], h, cut)

Mute(out) == \A s \in out : "FIN" \notin s.flags /\ s.data = <<>>

\* No connection is up.
Quiet ==
  /\ Silent(conns[Client]) /\ Silent(conns[Server]) /\ Mute(net)
  /\ \A s \in By(Client) : "ACK" \notin s.flags
  /\ \A s \in By(Server) : "ACK" \in s.flags => s.ack = B
  /\ \A h \in Host : sent[h] = 0 /\ stored[h] = 0 /\ got[h] = <<>>

\* The connection of the client is up, that of the server is not yet.
Fresh(b) ==
  /\ Silent(conns[Server]) /\ Mute(By(Server))
  /\ \A i \in Slot[Client] : ~conns[Client][i].eof
  /\ \A s \in By(Client) : "ACK" \in s.flags => s.ack = b
  /\ sent[Server] = 0 /\ stored[Client] = 0

\* Both were: no child that is still in its handshake is taken for the one with base b.
Met(b) ==
  /\ b + Writes[Server] < isn[Server]
  /\ B \notin b .. b + Writes[Server] + 1
  /\ \A i \in Slot[Server] : conns[Server][i].state = "SYN_RCVD" =>
        conns[Server][i].seq \notin b .. b + Writes[Server] + 1

Linked(b) ==
  /\ b # B /\ pending[Client] = None
  /\ \E k \in Slot[Client] : Mine(conns[Client][k])
  /\ \A i \in Slot[Client] : conns[Client][i].state # "SYN_SENT"
  /\ Fresh(b) \/ Met(b)

\* The sequence number of the first byte of h
Base(h, b) == IF h = Client THEN B ELSE b

Link(b) ==
  /\ \A h \in Host : /\ WayOf(h, Base(h, b)) /\ One(conns[h])
                     /\ sent[h] <= Writes[h] /\ Base(h, b) + Writes[h] + 1 < MOD
  /\ Quiet \/ Linked(b)

LinkInv == \E b \in Seq32 : Link(b)

-----------------------------------------------------------------------------
(* The shape of the two hosts is kept                                      *)

LEMMA SlotSet ==
  ASSUME NEW h \in Host, NEW i \in Slot[h], NEW c, TypeInv, Set(h, i, c)
  PROVE  /\ conns'[h][i] = c
         /\ \A g \in Host : \A j \in Slot[g] : (g = h /\ j = i) \/ conns'[g][j] = conns[g][j]
         /\ \A g \in Host : g # h => conns'[g] = conns[g]
         /\ \A g \in Host : DOMAIN conns'[g] = Slot[g]
<1>1. TablesOK
  BY DEF TypeInv
<1>2. conns'[h][i] = c
  BY <1>1 DEF Set, TablesOK
<1>3. ASSUME NEW g \in Host, NEW j \in Slot[g] PROVE (g = h /\ j = i) \/ conns'[g][j] = conns[g][j]
  BY <1>1 DEF Set, TablesOK
<1>4. \A g \in Host : g # h => conns'[g] = conns[g]
  BY <1>1, SetIs
<1>5. \A g \in Host : DOMAIN conns'[g] = Slot[g]
  BY <1>1, SetIs
<1> QED
  BY <1>2, <1>3, <1>4, <1>5

LEMMA FarUp ==
  ASSUME NEW n \in Nat, NEW k \in Nat
  PROVE  Far(n) \in Nat /\ Far(n + 1) = Far(n) + STEP /\ Far(n) <= Far(n + k)
<1>1. STEP \in Nat /\ Isn[Server] \in Nat
  <2>1. Isn[Server] \in 0 .. MOD - 1 /\ MOD \in Nat
    BY TcpAssumption, Hosts
  <2> QED
    BY <2>1, TcpAssumption
<1>2. /\ n * STEP \in Nat /\ k * STEP \in Nat /\ (n + 1) * STEP = n * STEP + STEP
      /\ (n + k) * STEP = n * STEP + k * STEP
  BY <1>1
<1> QED
  BY <1>1, <1>2 DEF Far

LEMMA IsnTypes ==
  ASSUME TypeInv
  PROVE  /\ isn[Server] \in Nat /\ isn[Client] \in Nat /\ Isn[Server] \in Nat /\ Isn[Client] \in Nat
         /\ STEP \in Nat /\ MOD \in Nat /\ faults \in Nat /\ MaxFaults \in Nat /\ faults <= MaxFaults
         /\ Writes[Server] \in Nat /\ Writes[Client] \in Nat /\ B \in Nat /\ B > 0
<1>1. isn[Server] \in Seq32 /\ isn[Client] \in Seq32 /\ faults \in 0 .. MaxFaults
  BY Hosts DEF TypeInv, NetOK
<1>2. Isn[Server] \in 0 .. MOD - 1 /\ Isn[Client] \in 0 .. MOD - 1 /\ MOD \in Nat
  BY Hosts, TcpAssumption
<1>3. Writes[Server] \in Nat /\ Writes[Client] \in Nat
  BY Hosts, TcpAssumption
<1>4. isn[Server] \in Nat /\ isn[Client] \in Nat
  BY <1>1, Seq32In
<1>5. faults \in Nat /\ faults <= MaxFaults /\ MaxFaults \in Nat
  BY <1>1, TcpAssumption
<1>6. Isn[Server] \in Nat /\ Isn[Client] \in Nat /\ Isn[Client] + 1 \in Nat /\ Isn[Client] + 1 > 0
  BY <1>2
<1> QED
  BY <1>2, <1>3, <1>4, <1>5, <1>6, TcpAssumption DEF B

\* The numbers the server has used are far from wrapping.
LEMMA IsnFar ==
  ASSUME TypeInv, NumbersFit, Shape
  PROVE  isn[Server] <= Far(MaxFaults + 1) /\ isn[Server] + 1 < MOD
<1>1. MaxFaults \in Nat /\ faults \in Nat /\ faults <= MaxFaults
  BY IsnTypes
<1>2. isn[Server] <= Far(MaxFaults + 1)
  <2>1. PICK k \in Slot[Client] : Before(k) \/ Begun(k)
    BY DEF Shape, ClientOK
  <2>2. CASE Before(k)
    <3>1. isn[Server] = Far(0)
      BY <2>2, IsnTypes DEF Before, Far
    <3>2. Far(0) <= Far(0 + (MaxFaults + 1))
      BY <1>1, FarUp
    <3> QED
      BY <1>1, <3>1, <3>2
  <2>3. CASE Begun(k)
    <3>1. PICK n \in Nat : /\ n = MaxFaults - faults + IF Hello \in net THEN 0 ELSE 1
                           /\ n <= MaxFaults + 1
      BY <1>1
    <3>7. \A x, y \in Nat : x <= y => y - x \in Nat /\ x + (y - x) = y
      OBVIOUS
    <3>8. MaxFaults + 1 \in Nat
      BY <1>1
    <3>2. PICK e \in Nat : n + e = MaxFaults + 1
      BY <3>1, <3>7, <3>8
    <3>9. n + e \in Nat
      OBVIOUS
    <3>3. Far(n) <= Far(n + e) /\ Far(n) \in Nat /\ Far(n + e) \in Nat
      <4>1. Far(n) <= Far(n + e) /\ Far(n) \in Nat
        BY FarUp
      <4>2. 0 \in Nat
        OBVIOUS
      <4>3. Far(n + e) \in Nat
        BY <3>9, <4>2, FarUp
      <4> QED
        BY <4>1, <4>3
    <3>4. isn[Server] <= Far(n)
      BY <2>3, <3>1 DEF Begun
    <3>5. isn[Server] \in Nat
      BY IsnTypes
    <3>6. isn[Server] <= Far(n + e)
      BY <3>3, <3>4, <3>5
    <3> QED
      BY <3>2, <3>6
  <2> QED
    BY <2>1, <2>2, <2>3
<1>3. Far(MaxFaults + 1) \in Nat /\ Far(MaxFaults + 1) + 1 < MOD
  BY <1>1, FarUp DEF NumbersFit
<1> QED
  BY <1>2, <1>3, IsnTypes

LEMMA CountedUp ==
  ASSUME NEW x \in Nat, Counted(x), isn[Server] \in Nat, isn'[Server] \in Nat,
         isn[Server] <= isn'[Server], STEP \in Nat
  PROVE  Counted(x)'
BY DEF Counted, B

LEMMA ServerSlotUp ==
  ASSUME NEW c \in Conns, ServerSlot(c), isn[Server] \in Nat, isn'[Server] \in Nat,
         isn[Server] <= isn'[Server]
  PROVE  ServerSlot(c)'
<1>1. c.seq \in Nat /\ STEP \in Nat
  BY Fields, TcpAssumption
<1>2. c.state = "SYN_RCVD" => Counted(c.seq)'
  BY <1>1, CountedUp DEF ServerSlot
<1> QED
  BY <1>2 DEF ServerSlot, IsChild, B

LEMMA SegUp ==
  ASSUME NEW s \in Segments, SegOK(s), isn[Server] \in Nat, isn'[Server] \in Nat,
         isn[Server] <= isn'[Server], cut \subseteq cut', cut' \subseteq Host
  PROVE  SegOK(s)'
<1>1. s.seq \in Nat /\ STEP \in Nat
  BY SegmentFields, TcpAssumption
<1>2. s.seq + STEP <= isn[Server] + 1 => s.seq + STEP <= isn'[Server] + 1
  BY <1>1
<1>3. cut = Host => cut' = Host
  OBVIOUS
<1> QED
  BY <1>2, <1>3 DEF SegOK, B, Hello

LEMMA SegsUp ==
  ASSUME TypeInv, SegsOK, isn'[Server] \in Nat,
         isn[Server] <= isn'[Server], cut \subseteq cut', cut' \subseteq Host,
         NEW new, net' \subseteq net \cup new, \A s \in new : SegOK(s)'
  PROVE  SegsOK'
<1>1. isn[Server] \in Nat
  BY IsnTypes
<1>2. ASSUME NEW s \in net PROVE SegOK(s)'
  <2>1. s \in Segments /\ SegOK(s)
    BY DEF TypeInv, NetOK, SegsOK
  <2> QED
    BY <1>1, <2>1, SegUp
<1>3. \A s \in net' : SegOK(s)'
  BY <1>2
<1> QED
  BY <1>3 DEF SegsOK

\* The server puts d into slot i.
LEMMA ServerSet ==
  ASSUME TypeInv, ServerOK, NEW i \in Slot[Server], NEW d, Set(Server, i, d),
         pending' = pending, isn'[Server] \in Nat, isn[Server] <= isn'[Server],
         ServerSlot(d)',
         IsChild(d) => IsChild(conns[Server][i])
                       \/ \A j \in Slot[Server] : ~IsChild(conns[Server][j])
  PROVE  ServerOK'
<1>0. Server \in Host
  BY Hosts
<1>1. /\ conns'[Server][i] = d
      /\ \A j \in Slot[Server] : j = i \/ conns'[Server][j] = conns[Server][j]
  BY <1>0, SlotSet
<1>2. isn[Server] \in Nat
  BY IsnTypes
<1>3. ASSUME NEW j \in Slot[Server] PROVE ServerSlot(conns[Server][j])'
  <2>1. CASE j = i
    BY <1>1, <2>1
  <2>2. CASE j # i
    <3>1. PICK c : c = conns[Server][j]
      OBVIOUS
    <3>2. c \in Conns /\ ServerSlot(c)
      BY <3>1, Hosts DEF TypeInv, TablesOK, Sized, ServerOK
    <3>3. ServerSlot(c)'
      BY <1>2, <3>2, ServerSlotUp
    <3>4. conns'[Server][j] = c
      BY <1>1, <2>2, <3>1
    <3> QED
      BY <3>3, <3>4
  <2> QED
    BY <2>1, <2>2
<1>4. ASSUME NEW j \in Slot[Server], NEW k \in Slot[Server], IsChild(conns'[Server][j]),
             IsChild(conns'[Server][k])
      PROVE  j = k
  <2>1. /\ j # i => IsChild(conns[Server][j])
        /\ k # i => IsChild(conns[Server][k])
        /\ j = i \/ k = i => IsChild(d)
    BY <1>1, <1>4
  <2> QED
    BY <2>1 DEF ServerOK
<1> QED
  BY <1>3, <1>4 DEF ServerOK

\* The server keeps its slots.
LEMMA ServerKept ==
  ASSUME TypeInv, ServerOK, conns'[Server] = conns[Server], pending'[Server] = None,
         isn'[Server] \in Nat, isn[Server] <= isn'[Server]
  PROVE  ServerOK'
<1>1. isn[Server] \in Nat
  BY IsnTypes
<1>2. ASSUME NEW j \in Slot[Server] PROVE ServerSlot(conns[Server][j])'
  <2>1. PICK c : c = conns[Server][j]
    OBVIOUS
  <2>2. c \in Conns /\ ServerSlot(c)
    BY <2>1, Hosts DEF TypeInv, TablesOK, Sized, ServerOK
  <2>3. ServerSlot(c)'
    BY <1>1, <2>2, ServerSlotUp
  <2>4. conns'[Server][j] = c
    BY <2>1
  <2> QED
    BY <2>3, <2>4
<1> QED
  BY <1>2 DEF ServerOK

LEMMA KeepsSet ==
  ASSUME TypeInv, KeepsOK, NEW h \in Host, NEW i \in Slot[h], NEW d, Set(h, i, d), Keeps(d)
  PROVE  KeepsOK'
<1>1. /\ conns'[h][i] = d
      /\ \A g \in Host : \A j \in Slot[g] : (g = h /\ j = i) \/ conns'[g][j] = conns[g][j]
  BY SlotSet
<1> QED
  BY <1>1 DEF KeepsOK

LEMMA HelloIs ==
  ASSUME NEW s \in Segments, s.src = Client, s.flags = {"SYN"}, s.seq = Isn[Client], s.ack = 0,
         s.data = <<>>, s.dport = PORT, s.sport = Ephemeral
  PROVE  s = Hello
BY DEF Segments, Hello

LEMMA HelloHas == "SYN" \in Hello.flags /\ Hello.src = Client /\ Hello.seq = Isn[Client]
                  /\ Hello.sport = Ephemeral /\ Hello.dport = PORT /\ Hello.data = <<>>
                  /\ Hello.flags = {"SYN"}
BY DEF Hello

\* The fault taken, if any, pays for the copy of the SYN that is gone.
LEMMA CountsUp ==
  ASSUME TypeInv, isn'[Server] = isn[Server], faults' \in Nat, faults' \in {faults, faults - 1},
         isn[Server] <= Far(MaxFaults - faults + IF Hello \in net THEN 0 ELSE 1),
         Hello \in net' => Hello \in net
  PROVE  isn'[Server] <= Far(MaxFaults - faults' + IF Hello \in net' THEN 0 ELSE 1)
<1>1. MaxFaults \in Nat /\ faults \in Nat /\ faults <= MaxFaults /\ isn[Server] \in Nat
  BY IsnTypes
<1>2. PICK n \in Nat : n = MaxFaults - faults + IF Hello \in net THEN 0 ELSE 1
  BY <1>1
<1>3. PICK e \in Nat : n + e = MaxFaults - faults' + IF Hello \in net' THEN 0 ELSE 1
  <2>1. CASE faults' = faults
    <3>1. CASE (Hello \in net') <=> (Hello \in net)
      <4>1. n + 0 = MaxFaults - faults' + IF Hello \in net' THEN 0 ELSE 1
        BY <1>2, <2>1, <3>1
      <4> QED
        BY <4>1
    <3>2. CASE Hello \in net /\ Hello \notin net'
      <4>1. n + 1 = MaxFaults - faults' + IF Hello \in net' THEN 0 ELSE 1
        BY <1>1, <1>2, <2>1, <3>2
      <4> QED
        BY <4>1
    <3> QED
      BY <3>1, <3>2
  <2>2. CASE faults' = faults - 1
    <3>1. CASE (Hello \in net') <=> (Hello \in net)
      <4>1. n + 1 = MaxFaults - faults' + IF Hello \in net' THEN 0 ELSE 1
        BY <1>1, <1>2, <2>2, <3>1
      <4> QED
        BY <4>1
    <3>2. CASE Hello \in net /\ Hello \notin net'
      <4>1. n + 2 = MaxFaults - faults' + IF Hello \in net' THEN 0 ELSE 1
        BY <1>1, <1>2, <2>2, <3>2
      <4> QED
        BY <4>1
    <3> QED
      BY <3>1, <3>2
  <2> QED
    BY <2>1, <2>2
<1>4. Far(n) \in Nat /\ Far(n) <= Far(n + e)
  BY FarUp
<1>5. Far(n + e) \in Nat
  <2>1. n + e \in Nat /\ 0 \in Nat
    OBVIOUS
  <2> QED
    BY <2>1, FarUp
<1>6. isn[Server] <= Far(n)
  BY <1>2
<1>7. isn'[Server] <= Far(n + e)
  BY <1>1, <1>4, <1>5, <1>6
<1> QED
  BY <1>3, <1>7

\* A connection, or what is left of one
Busy(c) == Active(c) \/ IsChild(c)

\* d takes the place of c, and no connection begins.
Plain(c, d) ==
  /\ c.in_use \/ c.state # "CLOSED"
  /\ d.lport = c.lport /\ d.rport = c.rport
  /\ Active(d) \/ d.eof => c.eof \/ Busy(c)
  /\ Keeps(d)
  /\ \/ /\ d.state = c.state /\ d.in_use = c.in_use
        /\ d.state \in {"SYN_SENT", "SYN_RCVD"} => d.seq = c.seq /\ d.ack = c.ack
     \/ IsChild(c) /\ Up(d) /\ d.in_use = c.in_use
     \/ d.state = "CLOSED" /\ d.in_use = FALSE

Calm(new) == /\ net' \subseteq net \cup new
             /\ \A s \in new : "SYN" \notin s.flags /\ "RST" \notin s.flags

Steady == /\ isn' = isn /\ pending' = pending /\ ready' = ready
          /\ faults' \in Nat /\ faults' \in {faults, faults - 1}
          /\ cut \subseteq cut' /\ cut' \subseteq Host

LEMMA PlainBegun ==
  ASSUME TypeInv, NEW h \in Host, NEW i \in Slot[h], NEW d, Set(h, i, d),
         Plain(conns[h][i], d), NEW new, Calm(new), Steady,
         NEW k \in Slot[Client], Begun(k),
         \A j \in Slot[Client] : j = k \/ Untouched(conns[Client][j])
  PROVE  Begun(k)' /\ \A j \in Slot[Client] : j = k \/ Untouched(conns'[Client][j])
<1>1. /\ conns'[h][i] = d
      /\ \A g \in Host : \A j \in Slot[g] : (g = h /\ j = i) \/ conns'[g][j] = conns[g][j]
  BY SlotSet
<1>2. ~(Untouched(conns[h][i]))
  BY ZeroIs DEF Plain, Untouched
<1>3. Hello \in net' => Hello \in net
  BY HelloHas DEF Calm
<1>4. isn'[Server] <= Far(MaxFaults - faults' + IF Hello \in net' THEN 0 ELSE 1)
  BY <1>3, CountsUp DEF Begun, Steady
<1>5. \A j \in Slot[Client] : j = k \/ Untouched(conns'[Client][j])
  BY <1>1, <1>2, Hosts
<1>6. /\ Mine(conns'[Client][k]) /\ conns'[Client][k].state \notin {"LISTEN", "SYN_RCVD"}
      /\ conns'[Client][k].state = "SYN_SENT" => conns'[Client][k].seq = B
  <2>1. CASE h = Client /\ i = k
    BY <1>1, <2>1 DEF Begun, Plain, Mine, Up, IsChild
  <2>2. CASE ~(h = Client /\ i = k)
    <3>1. conns'[Client][k] = conns[Client][k]
      BY <1>1, <2>2, Hosts
    <3> QED
      BY <3>1 DEF Begun
  <2> QED
    BY <2>1, <2>2
<1>7. pending'[Client] = None
  BY DEF Begun, Steady
<1> QED
  BY <1>4, <1>5, <1>6, <1>7 DEF Begun, Mine, B, Hello, Far

LEMMA BlankSet ==
  ASSUME TypeInv, NEW h \in Host, NEW i \in Slot[h], NEW d, Set(h, i, d),
         NEW g \in Host, Silent(conns[g]), h = g => ~Active(d) /\ ~d.eof
  PROVE  Silent(conns'[g])
<1>1. /\ conns'[h][i] = d
      /\ \A x \in Host : \A j \in Slot[x] : (x = h /\ j = i) \/ conns'[x][j] = conns[x][j]
      /\ DOMAIN conns'[g] = Slot[g]
  BY SlotSet
<1>2. DOMAIN conns[g] = Slot[g]
  BY DEF TypeInv, TablesOK
<1> QED
  BY <1>1, <1>2 DEF Silent

LEMMA NotBlank ==
  ASSUME TypeInv, NEW h \in Host, NEW i \in Slot[h], Silent(conns[h])
  PROVE  ~Active(conns[h][i]) /\ ~Up(conns[h][i]) /\ ~conns[h][i].eof
         /\ conns[h][i].rx = <<>> /\ conns[h][i].tx = <<>>
<1>1. i \in DOMAIN conns[h]
  BY DEF TypeInv, TablesOK
<1> QED
  BY <1>1 DEF Silent, Active

LEMMA NotBusy ==
  ASSUME TypeInv, NEW k \in Slot[Client], Before(k),
         \A j \in Slot[Client] : j = k \/ Untouched(conns[Client][j]),
         NEW h \in Host, NEW i \in Slot[h]
  PROVE  ~Busy(conns[h][i]) /\ ~IsChild(conns[h][i]) /\ ~conns[h][i].eof
<1>1. Silent(conns[h]) /\ h \in {Client, Server}
  BY DEF Before, Host
<1>2. ~Active(conns[h][i]) /\ ~conns[h][i].eof
  BY <1>1, NotBlank
<1>3. CASE h = Server
  BY <1>2, <1>3 DEF Before, Busy
<1>4. CASE h = Client
  <2>1. conns[h][i].state = "CLOSED"
    BY <1>4, ZeroIs DEF Before, Untouched
  <2> QED
    BY <1>2, <2>1 DEF Busy, IsChild
<1> QED
  BY <1>1, <1>3, <1>4

LEMMA PlainBefore ==
  ASSUME TypeInv, NEW h \in Host, NEW i \in Slot[h], NEW d, Set(h, i, d),
         Plain(conns[h][i], d), NEW new, Calm(new), new # {} => Busy(conns[h][i]), Steady,
         NEW k \in Slot[Client], Before(k),
         \A j \in Slot[Client] : j = k \/ Untouched(conns[Client][j])
  PROVE  Before(k)' /\ \A j \in Slot[Client] : j = k \/ Untouched(conns'[Client][j])
<1>1. /\ conns'[h][i] = d
      /\ \A g \in Host : \A j \in Slot[g] : (g = h /\ j = i) \/ conns'[g][j] = conns[g][j]
  BY SlotSet
<1>2. ~(Untouched(conns[h][i]))
  BY ZeroIs DEF Plain, Untouched
<1>4. ~Busy(conns[h][i]) /\ ~IsChild(conns[h][i]) /\ ~conns[h][i].eof
  BY NotBusy
<1>5. ~Active(d) /\ ~d.eof
  BY <1>4 DEF Plain
<1>6. Silent(conns'[Client]) /\ Silent(conns'[Server])
  BY <1>5, BlankSet, Hosts DEF Before
<1>7. \A j \in Slot[Client] : j = k \/ Untouched(conns'[Client][j])
  BY <1>1, <1>2, Hosts
<1>8. \A s \in net' : s.flags = {"RST"}
  BY <1>4 DEF Calm, Before
<1>9. \A j \in Slot[Server] : ~IsChild(conns'[Server][j])
  <2>1. h = Server => ~IsChild(d)
    BY <1>4 DEF Before, Plain, IsChild
  <2> QED
    BY <1>1, <2>1, Hosts DEF Before
<1>10. \/ pending'[Client] = None /\ Untouched(conns'[Client][k])
       \/ pending'[Client] = k /\ ~ready'[Client]
          /\ conns'[Client][k].lport = Ephemeral /\ conns'[Client][k].state = "CLOSED"
  <2>1. CASE h = Client /\ i = k
    <3>1. /\ pending[Client] = k /\ ~ready[Client]
          /\ conns[Client][k].lport = Ephemeral /\ conns[Client][k].state = "CLOSED"
      BY <1>2, <2>1 DEF Before
    <3>2. conns'[Client][k] = d /\ d.lport = Ephemeral /\ d.state = "CLOSED"
      BY <1>1, <1>4, <2>1, <3>1 DEF Plain
    <3> QED
      BY <3>1, <3>2 DEF Steady
  <2>2. CASE ~(h = Client /\ i = k)
    <3>1. conns'[Client][k] = conns[Client][k]
      BY <1>1, <2>2, Hosts
    <3> QED
      BY <3>1 DEF Before, Steady
  <2> QED
    BY <2>1, <2>2
<1>11. isn' = Isn
  BY DEF Before, Steady
<1> QED
  BY <1>6, <1>7, <1>8, <1>9, <1>10, <1>11 DEF Before

\* An ordinary step of a connection
LEMMA PlainShape ==
  ASSUME TypeInv, Shape, NEW h \in Host, NEW i \in Slot[h], NEW d, Set(h, i, d),
         Plain(conns[h][i], d), NEW new, Calm(new), new # {} => Busy(conns[h][i]), Steady
  PROVE  Shape'
<1>0. ClientOK /\ ServerOK /\ KeepsOK /\ SegsOK /\ Isn[Server] <= isn[Server]
  BY DEF Shape
<1>1. isn[Server] \in Nat /\ isn'[Server] \in Nat /\ isn[Server] <= isn'[Server] /\ isn' = isn
  BY IsnTypes DEF Steady
<1>2. ClientOK'
  <2>1. PICK k \in Slot[Client] : /\ \A j \in Slot[Client] : j = k \/ Untouched(conns[Client][j])
                                  /\ Before(k) \/ Begun(k)
    BY <1>0 DEF ClientOK
  <2>2. /\ Before(k)' \/ Begun(k)'
        /\ \A j \in Slot[Client] : j = k \/ Untouched(conns'[Client][j])
    BY <2>1, PlainBefore, PlainBegun
  <2> QED
    BY <2>2 DEF ClientOK, Untouched
<1>3. ServerOK'
  <2>1. CASE h = Server
    <3>1. PICK c : c = conns[Server][i]
      OBVIOUS
    <3>2. ServerSlot(c) /\ c \in Conns /\ Plain(c, d)
      BY <1>0, <2>1, <3>1 DEF ServerOK, TypeInv, TablesOK, Sized
    <3>3. ServerSlot(c)'
      BY <1>1, <3>2, ServerSlotUp
    <3>4. ServerSlot(d)'
      BY <3>2, <3>3 DEF ServerSlot, Plain, IsChild, Up
    <3>5. IsChild(d) => IsChild(c)
      BY <3>2 DEF Plain, IsChild, Up
    <3>6. pending' = pending /\ Set(Server, i, d) /\ i \in Slot[Server]
      BY <2>1 DEF Steady
    <3> QED
      BY <1>0, <1>1, <3>1, <3>4, <3>5, <3>6, ServerSet
  <2>2. CASE h # Server
    <3>1. conns'[Server] = conns[Server]
      BY <2>2, SlotSet, Hosts
    <3>2. pending'[Server] = None
      BY <1>0 DEF ServerOK, Steady
    <3> QED
      BY <1>0, <1>1, <3>1, <3>2, ServerKept
  <2> QED
    BY <2>1, <2>2
<1>4. KeepsOK'
  BY <1>0, KeepsSet DEF Plain
<1>5. SegsOK'
  <2>1. \A s \in new : SegOK(s)'
    BY DEF Calm, SegOK
  <2> QED
    BY <1>0, <1>1, <2>1, SegsUp DEF Calm, Steady
<1>6. (Isn[Server] <= isn[Server])'
  BY <1>0, <1>1
<1> QED
  BY <1>2, <1>3, <1>4, <1>5, <1>6 DEF Shape

\* The slots stand; the network loses segments, or carries an RST more.
LEMMA StillShape ==
  ASSUME TypeInv, Shape, conns' = conns, isn' = isn,
         \A h \in Host : pending'[h] = pending[h],
         pending[Client] # None => ready'[Client] = ready[Client],
         faults' \in Nat, faults' \in {faults, faults - 1}, cut \subseteq cut', cut' \subseteq Host,
         NEW new, net' \subseteq net \cup new, \A s \in new : s.flags = {"RST"} /\ cut' = Host
  PROVE  Shape'
<1>0. ClientOK /\ ServerOK /\ KeepsOK /\ SegsOK /\ Isn[Server] <= isn[Server]
  BY DEF Shape
<1>1. isn[Server] \in Nat /\ isn'[Server] \in Nat /\ isn[Server] <= isn'[Server]
  BY IsnTypes
<1>2. ClientOK'
  <2>1. PICK k \in Slot[Client] : /\ \A j \in Slot[Client] : j = k \/ Untouched(conns[Client][j])
                                  /\ Before(k) \/ Begun(k)
    BY <1>0 DEF ClientOK
  <2>2. ASSUME Before(k) PROVE Before(k)'
    <3>1. \A s \in net' : s.flags = {"RST"}
      BY <2>2 DEF Before
    <3> QED
      <4>1. k # None
        BY SlotsAre, Hosts
      <4>2. (\/ pending[Client] = None /\ Untouched(conns[Client][k])
             \/ pending[Client] = k /\ ~ready[Client]
                /\ conns[Client][k].lport = Ephemeral /\ conns[Client][k].state = "CLOSED")'
        BY <2>2, <4>1, Hosts DEF Before, Untouched
      <4>3. Silent(conns'[Client]) /\ Silent(conns'[Server])
        BY <2>2 DEF Before
      <4>4. \A j \in Slot[Server] : ~IsChild(conns[Server][j])'
        BY <2>2 DEF Before, IsChild
      <4>5. isn' = Isn
        BY <2>2 DEF Before
      <4> QED
        BY <3>1, <4>2, <4>3, <4>4, <4>5 DEF Before
  <2>3. ASSUME Begun(k) PROVE Begun(k)'
    <3>1. Hello \in net' => Hello \in net
      BY HelloHas
    <3>2. isn[Server] <= Far(MaxFaults - faults + IF Hello \in net THEN 0 ELSE 1)
      BY <2>3 DEF Begun
    <3>3. isn'[Server] = isn[Server]
      OBVIOUS
    <3>4. isn'[Server] <= Far(MaxFaults - faults' + IF Hello \in net' THEN 0 ELSE 1)
      BY <3>1, <3>2, <3>3, CountsUp
    <3> QED
      BY <2>3, <3>4, Hosts DEF Begun, Mine, B, Hello, Far
  <2> QED
    BY <2>1, <2>2, <2>3 DEF ClientOK, Untouched
<1>3. ServerOK'
  BY <1>0, <1>1, Hosts, ServerKept DEF ServerOK
<1>4. KeepsOK'
  BY <1>0 DEF KeepsOK, Keeps, Up
<1>5. SegsOK'
  <2>1. \A s \in new : SegOK(s)'
    BY DEF SegOK
  <2> QED
    BY <1>0, <1>1, <2>1, SegsUp
<1>6. (Isn[Server] <= isn[Server])'
  BY <1>0
<1> QED
  BY <1>2, <1>3, <1>4, <1>5, <1>6 DEF Shape

\* A connect starts: the SYN is sent.
LEMMA StartShape ==
  ASSUME TypeInv, Shape, NumbersFit, NEW i \in Slot[Client],
         \A j \in Slot[Client] : j = i \/ Untouched(conns[Client][j]), isn = Isn,
         NEW d, NEW new, Moves(Client, i, d, new), Opening(Client, d), d.lport = Ephemeral,
         Advance(Client), \A s \in new : Opened(Client, s) /\ s.sport = Ephemeral,
         pending'[Client] = None, pending'[Server] = None, faults' = faults, cut' = cut
  PROVE  Shape'
<1>0. ClientOK /\ ServerOK /\ KeepsOK /\ SegsOK /\ Isn[Server] <= isn[Server]
  BY DEF Shape
<1>1. isn[Server] \in Nat /\ isn'[Server] = isn[Server] /\ isn'[Server] \in Nat
      /\ isn[Server] <= isn'[Server]
  BY IsnTypes, Hosts DEF Advance, TypeInv, NetOK
<1>2. Client \in Host /\ Set(Client, i, d) /\ net' = net \cup new /\ new \subseteq Segments
  BY Hosts DEF Moves
<1>3. /\ conns'[Client][i] = d
      /\ \A g \in Host : \A j \in Slot[g] : (g = Client /\ j = i) \/ conns'[g][j] = conns[g][j]
      /\ \A g \in Host : g # Client => conns'[g] = conns[g]
  BY <1>2, SlotSet
<1>4. d.state = "SYN_SENT" /\ d.seq = B /\ Mine(d) /\ d.tx = <<>>
  <2>1. d.state = "SYN_SENT" /\ d.seq = Plus(Isn[Client], 1) /\ Mine(d) /\ d.tx = <<>>
    BY DEF Opening, Mine
  <2>2. Isn[Client] \in Nat /\ 1 \in Nat /\ Isn[Client] + 1 < MOD
    BY IsnTypes DEF NumbersFit
  <2>3. Plus(Isn[Client], 1) = B
    BY <2>2, PlusIs DEF B
  <2> QED
    BY <2>1, <2>3
<1>5. isn'[Server] <= Far(MaxFaults - faults' + IF Hello \in net' THEN 0 ELSE 1)
  <2>1. PICK n \in Nat : n = MaxFaults - faults + IF Hello \in net' THEN 0 ELSE 1
    BY IsnTypes
  <2>2. Far(0) <= Far(0 + n) /\ 0 + n = n
    BY FarUp
  <2>3. Far(0) = isn[Server]
    BY IsnTypes DEF Far
  <2> QED
    BY <1>1, <2>1, <2>2, <2>3
<1>6. ClientOK'
  <2>1. Begun(i)'
    BY <1>3, <1>4, <1>5 DEF Begun, Mine, B, Hello, Far
  <2>2. \A j \in Slot[Client] : j = i \/ Untouched(conns[Client][j])'
    BY <1>3, Hosts DEF Untouched
  <2> QED
    BY <2>1, <2>2 DEF ClientOK
<1>7. ServerOK'
  <2>1. conns'[Server] = conns[Server]
    BY <1>3, Hosts
  <2> QED
    BY <1>0, <1>1, <2>1, ServerKept
<1>8. KeepsOK'
  <2>1. Keeps(d)
    BY <1>4 DEF Keeps
  <2> QED
    BY <1>0, <1>2, <2>1, KeepsSet
<1>9. SegsOK'
  <2>1. ASSUME NEW s \in new PROVE SegOK(s)'
    <3>1. s \in Segments /\ Opened(Client, s) /\ s.sport = Ephemeral
      BY <1>2
    <3>2. s = Hello
      BY <3>1, HelloIs DEF Opened
    <3> QED
      BY <3>1, <3>2, Hosts DEF SegOK, Opened, Hello
  <2> QED
    BY <1>0, <1>1, <1>2, <2>1, SegsUp DEF TypeInv, HistOK
<1>10. (Isn[Server] <= isn[Server])'
  BY <1>0, <1>1
<1> QED
  BY <1>6, <1>7, <1>8, <1>9, <1>10 DEF Shape

LEMMA ConnectShape ==
  ASSUME TypeInv, Shape, NumbersFit, NEW h \in Host, net_tcp_connect(h)
  PROVE  Shape'
<1>0. ClientOK /\ ServerOK /\ KeepsOK /\ SegsOK /\ Isn[Server] <= isn[Server]
  BY DEF Shape
<1>1. h = Client /\ \A i \in Slot[Client] : Untouched(conns[Client][i])
  BY ConnectDoes DEF Untouched
<1>2. PICK k \in Slot[Client] : Before(k)
  <2>1. PICK k \in Slot[Client] : Before(k) \/ Begun(k)
    BY <1>0 DEF ClientOK
  <2>2. ~Begun(k)
    <3>1. ~Mine(Zero)
      BY ZeroIs, TcpAssumption DEF Mine
    <3> QED
      BY <1>1, <3>1 DEF Begun, Untouched
  <2> QED
    BY <2>1, <2>2
<1>3. ready' = ready /\ faults' = faults /\ cut' = cut
  BY DEF net_tcp_connect, hist
<1>4. PICK i \in Slot[Client] :
        \E d, new :
              /\ Moves(Client, i, d, new) /\ d.lport = Ephemeral
              /\ \/ /\ ready[Client] /\ Opening(Client, d) /\ Advance(Client) /\ pending' = pending
                    /\ \A s \in new : Opened(Client, s) /\ s.sport = Ephemeral
                 \/ /\ ~ready[Client] /\ NoData(d) /\ d.state = "CLOSED" /\ new = {}
                    /\ pending' = [pending EXCEPT ![Client] = i] /\ isn' = isn
  BY <1>1, ConnectDoes
<1>5. PICK d, new :
              /\ Moves(Client, i, d, new) /\ d.lport = Ephemeral
              /\ \/ /\ ready[Client] /\ Opening(Client, d) /\ Advance(Client) /\ pending' = pending
                    /\ \A s \in new : Opened(Client, s) /\ s.sport = Ephemeral
                 \/ /\ ~ready[Client] /\ NoData(d) /\ d.state = "CLOSED" /\ new = {}
                    /\ pending' = [pending EXCEPT ![Client] = i] /\ isn' = isn
  BY <1>4
<1>6. CASE ready[Client]
  <2>1. pending'[Client] = None /\ pending'[Server] = None /\ isn = Isn
    BY <1>0, <1>2, <1>5, <1>6 DEF Before, ServerOK
  <2> QED
    BY <1>1, <1>3, <1>5, <1>6, <2>1, StartShape
<1>7. CASE ~ready[Client]
  <2>1. Client \in Host /\ Set(Client, i, d) /\ net' = net
    BY <1>5, <1>7, Hosts DEF Moves
  <2>2. /\ conns'[Client][i] = d
        /\ \A g \in Host : \A j \in Slot[g] : (g = Client /\ j = i) \/ conns'[g][j] = conns[g][j]
        /\ \A g \in Host : g # Client => conns'[g] = conns[g]
    BY <2>1, SlotSet
  <2>3. pending'[Client] = i /\ pending'[Server] = None
    BY <1>0, <1>5, <1>7, Hosts DEF TypeInv, IdsOK, ServerOK
  <2>4. ~Active(d) /\ ~d.eof /\ Keeps(d)
    BY <1>5, <1>7 DEF NoData, Active, Up, Keeps
  <2>5. Silent(conns'[Client]) /\ Silent(conns'[Server])
    BY <1>2, <2>1, <2>4, BlankSet, Hosts DEF Before
  <2>6. ClientOK'
    <3>1. Before(i)'
      <4>1. isn' = Isn /\ \A s \in net' : s.flags = {"RST"}
        BY <1>2, <1>5, <1>7, <2>1 DEF Before
      <4>2. \A j \in Slot[Server] : ~IsChild(conns[Server][j])'
        BY <1>2, <2>2, Hosts DEF Before, IsChild
      <4>3. ~ready'[Client] /\ conns'[Client][i].lport = Ephemeral
            /\ conns'[Client][i].state = "CLOSED"
        BY <1>3, <1>5, <1>7, <2>2
      <4> QED
        BY <2>3, <2>5, <4>1, <4>2, <4>3 DEF Before
    <3>2. \A j \in Slot[Client] : j = i \/ Untouched(conns[Client][j])'
      BY <1>1, <2>2, Hosts DEF Untouched
    <3> QED
      BY <3>1, <3>2 DEF ClientOK
  <2>7. isn' = isn /\ isn[Server] \in Nat /\ isn[Server] <= isn'[Server]
    BY <1>5, <1>7, IsnTypes
  <2>8. ServerOK'
    <3>1. conns'[Server] = conns[Server]
      BY <2>2, Hosts
    <3> QED
      BY <1>0, <2>3, <2>7, <3>1, ServerKept
  <2>9. KeepsOK'
    BY <1>0, <2>1, <2>4, KeepsSet
  <2>10. SegsOK'
    <3>4. PICK e : e = {}
      OBVIOUS
    <3>1. cut \subseteq cut' /\ cut' \subseteq Host /\ net' \subseteq net \cup e
      BY <1>3, <2>1 DEF TypeInv, HistOK
    <3>2. \A s \in e : SegOK(s)'
      BY <3>4
    <3>3. isn'[Server] \in Nat
      BY <2>7
    <3> QED
      BY <1>0, <2>7, <3>1, <3>2, <3>3, SegsUp
  <2>11. (Isn[Server] <= isn[Server])'
    BY <1>0, <2>7
  <2> QED
    BY <2>6, <2>8, <2>9, <2>10, <2>11 DEF Shape
<1> QED
  BY <1>6, <1>7

\* The server takes a step that keeps the client's slots and its bound.
LEMMA ServerShape ==
  ASSUME TypeInv, Shape, NEW i \in Slot[Server], NEW d, Set(Server, i, d),
         pending' = pending, ready' = ready, isn'[Server] \in Nat, isn[Server] <= isn'[Server],
         ServerSlot(d)', Keeps(d),
         IsChild(d) => IsChild(conns[Server][i])
                       \/ \A j \in Slot[Server] : ~IsChild(conns[Server][j]),
         NEW new, net' \subseteq net \cup new, cut \subseteq cut', cut' \subseteq Host,
         \A s \in new : SegOK(s)',
         \A k \in Slot[Client] : Before(k) =>
           /\ isn' = isn /\ ~IsChild(d) /\ ~Active(d) /\ ~d.eof /\ new = {},
         \A k \in Slot[Client] : Begun(k) =>
           isn'[Server] <= Far(MaxFaults - faults' + IF Hello \in net' THEN 0 ELSE 1)
  PROVE  Shape'
<1>0. ClientOK /\ ServerOK /\ KeepsOK /\ SegsOK /\ Isn[Server] <= isn[Server]
      /\ isn[Server] \in Nat /\ Isn[Server] \in Nat
  BY IsnTypes DEF Shape
<1>1. /\ conns'[Server][i] = d
      /\ \A g \in Host : \A j \in Slot[g] : (g = Server /\ j = i) \/ conns'[g][j] = conns[g][j]
      /\ \A g \in Host : g # Server => conns'[g] = conns[g]
  BY Hosts, SlotSet
<1>2. conns'[Client] = conns[Client]
  BY <1>1, Hosts
<1>3. ClientOK'
  <2>1. PICK k \in Slot[Client] : /\ \A j \in Slot[Client] : j = k \/ Untouched(conns[Client][j])
                                  /\ Before(k) \/ Begun(k)
    BY <1>0 DEF ClientOK
  <2>2. ASSUME Before(k) PROVE Before(k)'
    <3>1. isn' = isn /\ ~IsChild(d) /\ ~Active(d) /\ ~d.eof /\ new = {}
      BY <2>2
    <3>2. Silent(conns'[Client]) /\ Silent(conns'[Server])
      <4>1. Silent(conns[Server]) /\ Silent(conns[Client])
        BY <2>2 DEF Before
      <4>2. Silent(conns'[Server])
        BY <3>1, <4>1, BlankSet, Hosts
      <4> QED
        BY <1>2, <4>1, <4>2
    <3>3. \A j \in Slot[Server] : ~IsChild(conns[Server][j])'
      BY <1>1, <2>2, <3>1, Hosts DEF Before, IsChild
    <3>4. \A s \in net' : s.flags = {"RST"}
      BY <2>2, <3>1 DEF Before
    <3> QED
      BY <1>2, <2>2, <3>1, <3>2, <3>3, <3>4 DEF Before, Untouched
  <2>3. ASSUME Begun(k) PROVE Begun(k)'
    <3>1. isn'[Server] <= Far(MaxFaults - faults' + IF Hello \in net' THEN 0 ELSE 1)
      BY <2>3
    <3> QED
      BY <1>2, <2>3, <3>1 DEF Begun, Mine, B, Hello, Far
  <2> QED
    BY <1>2, <2>1, <2>2, <2>3 DEF ClientOK, Untouched
<1>4. ServerOK'
  BY <1>0, ServerSet
<1>5. KeepsOK'
  BY <1>0, Hosts, KeepsSet
<1>6. SegsOK'
  BY <1>0, SegsUp
<1>7. (Isn[Server] <= isn[Server])'
  BY <1>0
<1> QED
  BY <1>3, <1>4, <1>5, <1>6, <1>7 DEF Shape

LEMMA ListenShape ==
  ASSUME TypeInv, Shape, NEW h \in Host, net_tcp_listen(h)
  PROVE  Shape'
<1>0. ServerOK
  BY DEF Shape
<1>1. h = Server /\ \A i \in Slot[Server] : conns[Server][i] = Zero
  BY ListenDoes
<1>2. PICK i \in Slot[Server] : \E d :
        /\ Moves(Server, i, d, {}) /\ d.state = "LISTEN" /\ d.lport = PORT /\ NoData(d)
        /\ d.in_use
  BY <1>1, ListenDoes
<1>3. PICK d :
        /\ Moves(Server, i, d, {}) /\ d.state = "LISTEN" /\ d.lport = PORT /\ NoData(d)
        /\ d.in_use
  BY <1>2
<1>4. /\ ready' = ready /\ pending' = pending /\ faults' = faults /\ isn' = isn /\ cut' = cut
  BY DEF net_tcp_listen, hist
<1>5. Set(Server, i, d) /\ net' = net /\ cut \subseteq cut' /\ cut' \subseteq Host
  BY <1>3, <1>4 DEF Moves, TypeInv, HistOK
<1>6. ~IsChild(d) /\ ~Active(d) /\ ~d.eof /\ Keeps(d)
  BY <1>3 DEF IsChild, Active, Up, NoData, Keeps
<1>7. ServerSlot(d)'
  BY <1>3 DEF ServerSlot, IsChild
<1>8. isn'[Server] \in Nat /\ isn[Server] <= isn'[Server]
  BY <1>4, IsnTypes
<1>11. PICK e : e = {}
  OBVIOUS
<1>9. net' \subseteq net \cup e /\ \A s \in e : SegOK(s)'
  BY <1>5, <1>11
<1>12. \A k \in Slot[Client] : Before(k) =>
           /\ isn' = isn /\ ~IsChild(d) /\ ~Active(d) /\ ~d.eof /\ e = {}
  BY <1>4, <1>6, <1>11
<1>10. \A k \in Slot[Client] : Begun(k) =>
           isn'[Server] <= Far(MaxFaults - faults' + IF Hello \in net' THEN 0 ELSE 1)
  BY <1>4, <1>5 DEF Begun
<1> QED
  BY <1>4, <1>5, <1>6, <1>7, <1>8, <1>9, <1>10, <1>12, ServerShape

LEMMA ArpShape ==
  ASSUME TypeInv, Shape, NumbersFit, NEW h \in Host, ArpReply(h)
  PROVE  Shape'
<1>0. ClientOK /\ ServerOK
  BY DEF Shape
<1>1. /\ faults' = faults /\ cut' = cut /\ cut \subseteq Host /\ faults \in Nat
  BY IsnTypes DEF ArpReply, hist, TypeInv, HistOK
<1>2. pending' = [pending EXCEPT ![h] = None] /\ DOMAIN pending = Host /\ DOMAIN ready = Host
      /\ ready' = [ready EXCEPT ![h] = TRUE]
  BY ArpDoes DEF TypeInv, IdsOK
<1>3. CASE pending[h] # None
  <2>1. h = Client
    BY <1>0, <1>3 DEF Host, ServerOK
  <2>2. PICK k \in Slot[Client] : /\ \A j \in Slot[Client] : j = k \/ Untouched(conns[Client][j])
                                  /\ Before(k)
    BY <1>0, <1>3, <2>1 DEF ClientOK, Begun
  <2>3. pending[Client] = k /\ conns[Client][k].lport = Ephemeral /\ isn = Isn
    BY <1>3, <2>1, <2>2 DEF Before
  <2>4. Advance(Client) /\
        \E d, new : /\ Moves(Client, k, d, new) /\ Opening(Client, d)
                    /\ d.lport = Ephemeral
                    /\ \A s \in new : /\ Opened(Client, s)
                                      /\ s.sport = Ephemeral
    BY <1>3, <2>1, <2>3, ArpDoes
  <2>5. pending'[Client] = None /\ pending'[Server] = None
    BY <1>0, <1>2, <2>1, Hosts DEF ServerOK
  <2> QED
    BY <1>1, <2>2, <2>3, <2>4, <2>5, StartShape
<1>4. CASE pending[h] = None
  <2>1. conns' = conns /\ net' = net /\ isn' = isn
    BY <1>4, ArpDoes
  <2>2. \A x \in Host : pending'[x] = pending[x]
    BY <1>2, <1>4
  <2>3. pending[Client] # None => ready'[Client] = ready[Client]
    BY <1>2, <1>4, Hosts
  <2>4. PICK e : e = {}
    OBVIOUS
  <2>5. net' \subseteq net \cup e /\ \A s \in e : s.flags = {"RST"} /\ cut' = Host
    BY <2>1, <2>4
  <2>6. cut \subseteq cut' /\ cut' \subseteq Host /\ faults' \in Nat /\ faults' \in {faults, faults - 1}
    BY <1>1
  <2> QED
    BY <2>1, <2>2, <2>3, <2>5, <2>6, StillShape
<1> QED
  BY <1>3, <1>4

LEMMA StagesPlain ==
  ASSUME NEW h \in Host, NEW c0, NEW c1, NEW c2, NEW c3, NEW c4, NEW s,
         Stages(h, c0, c1, c2, c3, c4, s), Up(c0), Keeps(c0)
  PROVE  Plain(c0, c4) /\ (Up(c4) => c4.in_use = c0.in_use)
<1>1. /\ c1.state = c0.state /\ c1.in_use = c0.in_use
      /\ c1.lport = c0.lport /\ c1.rport = c0.rport
  BY DEF Stages, Cleared
<1>2. /\ c2.state = c0.state /\ c2.in_use = c0.in_use
      /\ c2.lport = c0.lport /\ c2.rport = c0.rport
  BY <1>1 DEF Stages, TookData
<1>3. /\ c3.lport = c0.lport /\ c3.rport = c0.rport
      /\ \/ Up(c3) /\ c3.in_use = c0.in_use
         \/ c3.state = "CLOSED" /\ c3.in_use = FALSE
  <2>1. CASE c3 = c2
    BY <1>2, <2>1 DEF Up
  <2>2. CASE Finished(c3, c2, s)
    BY <1>2, <2>2 DEF Finished, KeptFields, Up
  <2> QED
    BY <2>1, <2>2 DEF Stages
<1>4. /\ c4.lport = c0.lport /\ c4.rport = c0.rport
      /\ \/ Up(c4) /\ c4.in_use = c0.in_use
         \/ c4.state = "CLOSED" /\ c4.in_use = FALSE
  <2>1. CASE c4 = c3
    BY <1>3, <2>1
  <2>2. CASE Ended(c4, c3, s)
    <3>1. c3.state = "CLOSED" => c4.in_use = FALSE /\ c4.state = "CLOSED"
      BY <2>2 DEF Ended
    <3> QED
      BY <1>3, <2>2, <3>1 DEF Ended, KeptFields, Up
  <2> QED
    BY <2>1, <2>2 DEF Stages
<1>5. IsChild(c0) /\ Busy(c0) /\ c0.state # "CLOSED"
  BY DEF Up, IsChild, Busy
<1>6. Keeps(c4)
  BY <1>4 DEF Keeps
<1>7. Up(c4) => c4.in_use = c0.in_use
  BY <1>4 DEF Up
<1> QED
  BY <1>4, <1>5, <1>6, <1>7 DEF Plain

LEMMA ClientStates ==
  ASSUME Shape, NEW i \in Slot[Client]
  PROVE  conns[Client][i].state \notin {"LISTEN", "SYN_RCVD"}
<1>1. PICK k \in Slot[Client] : /\ \A j \in Slot[Client] : j = k \/ Untouched(conns[Client][j])
                                /\ Before(k) \/ Begun(k)
  BY DEF Shape, ClientOK
<1>2. CASE i = k
  BY <1>1, <1>2, ZeroIs DEF Before, Begun, Untouched
<1>3. CASE i # k
  BY <1>1, <1>3, ZeroIs DEF Untouched
<1> QED
  BY <1>2, <1>3

\* A second SYN reaches the child.
LEMMA ReSynShape ==
  ASSUME TypeInv, Shape, NumbersFit, NEW i \in Slot[Server], conns[Server][i].state = "SYN_RCVD",
         NEW s \in net, s.src = Client, "SYN" \in s.flags,
         NEW d, NEW new, NEW air \in SUBSET net, Takes(Server, i, d, air, new),
         d.state = "SYN_RCVD", d.seq = Plus(s.seq, 1), d.ack = conns[Server][i].ack,
         d.tx = conns[Server][i].tx, d.lport = conns[Server][i].lport,
         d.rport = conns[Server][i].rport, d.in_use = conns[Server][i].in_use,
         Sends(new, Server, conns[Server][i], {"SYN", "ACK"}, <<>>), Steady
  PROVE  Shape'
<1>0. ServerOK /\ KeepsOK /\ SegsOK /\ Server \in Host
  BY Hosts DEF Shape
<1>1. PICK c : c = conns[Server][i]
  OBVIOUS
<1>2. ServerSlot(c) /\ c \in Conns /\ Keeps(c) /\ IsChild(c)
  BY <1>0, <1>1 DEF ServerOK, KeepsOK, TypeInv, TablesOK, Sized, IsChild
<1>3. s = Hello
  BY <1>0 DEF SegsOK, SegOK
<1>4. d.seq = B
  <2>1. s.seq = Isn[Client]
    BY <1>3, HelloHas
  <2>4. /\ Isn[Client] \in Nat /\ Writes[Client] \in Nat /\ Writes[Server] \in Nat
        /\ MOD \in Nat
    BY IsnTypes
  <2>2. Isn[Client] \in Nat /\ 1 \in Nat /\ Isn[Client] + 1 < MOD
    BY <2>4 DEF NumbersFit
  <2>3. Plus(Isn[Client], 1) = B
    BY <2>2, PlusIs DEF B
  <2> QED
    BY <2>1, <2>3
<1>5. Set(Server, i, d) /\ net' = air \cup new /\ net' \subseteq net \cup new
  BY DEF Takes
<1>6. /\ pending' = pending /\ ready' = ready /\ isn' = isn /\ isn'[Server] \in Nat
      /\ isn[Server] <= isn'[Server] /\ cut \subseteq cut' /\ cut' \subseteq Host
      /\ faults' \in Nat /\ faults' \in {faults, faults - 1}
  BY IsnTypes DEF Steady
<1>7. c.state = "SYN_RCVD" /\ c.in_use = TRUE /\ c.lport = PORT /\ c.rport = Ephemeral /\ c.ack = B
  BY <1>1, <1>2 DEF ServerSlot
<1>8. ServerSlot(d)'
  BY <1>1, <1>4, <1>7 DEF ServerSlot, IsChild, Counted, B
<1>9. Keeps(d)
  BY <1>1, <1>2, <1>7 DEF Keeps, Up
<1>10. ASSUME NEW x \in new PROVE SegOK(x)'
  <2>1. x.src = Server /\ x.flags = {"SYN", "ACK"} /\ x.data = <<>> /\ x.seq = c.seq /\ x.ack = c.ack
    BY <1>1 DEF Sends
  <2>2. c.seq = B \/ (Isn[Server] <= c.seq /\ c.seq + STEP <= isn[Server] + 1)
    <3>1. Counted(c.seq)
      BY <1>2, <1>7 DEF ServerSlot
    <3>2. c.seq \in Nat /\ Isn[Server] \in Nat
      BY <1>2, Fields, IsnTypes
    <3> QED
      BY <3>1, <3>2 DEF Counted
  <2> QED
    BY <1>6, <1>7, <2>1, <2>2, Hosts DEF SegOK, B
<1>11. Hello \notin new
  BY HelloHas, Hosts DEF Sends
<1>12. ASSUME NEW k \in Slot[Client], Begun(k)
       PROVE  isn'[Server] <= Far(MaxFaults - faults' + IF Hello \in net' THEN 0 ELSE 1)
  <2>1. isn[Server] <= Far(MaxFaults - faults + IF Hello \in net THEN 0 ELSE 1)
    BY <1>12 DEF Begun
  <2>2. Hello \in net' => Hello \in net
    BY <1>5, <1>11
  <2>3. isn'[Server] = isn[Server]
    BY <1>6
  <2> QED
    BY <1>6, <2>1, <2>2, <2>3, CountsUp
<1>13. \A k \in Slot[Client] : ~Before(k)
  BY <1>1, <1>2 DEF Before
<1>14. IsChild(d) => IsChild(conns[Server][i])
  BY <1>1, <1>2
<1> QED
  BY <1>5, <1>6, <1>8, <1>9, <1>10, <1>12, <1>13, <1>14, ServerShape

\* What becomes of the fault that pays for a copy of s
Handling(s, air) == \/ air = net \ {s} /\ faults' = faults
                    \/ air = net /\ faults' = faults - 1 /\ faults' \in Nat

\* A SYN in flight has its number in store.
LEMMA HelloFar ==
  ASSUME TypeInv, Shape, NumbersFit, Hello \in net
  PROVE  isn[Server] + STEP < MOD
<1>1. PICK k \in Slot[Client] : Begun(k)
  <2>1. PICK k \in Slot[Client] : Before(k) \/ Begun(k)
    BY DEF Shape, ClientOK
  <2>2. ~Before(k)
    BY HelloHas DEF Before
  <2> QED
    BY <2>1, <2>2
<1>2. PICK n \in Nat : n = MaxFaults - faults /\ n <= MaxFaults
  BY IsnTypes
<1>3. isn[Server] <= Far(n)
  BY <1>1, <1>2, IsnTypes DEF Begun
<1>4. Far(n) \in Nat /\ Far(n + 1) = Far(n) + STEP
  <2>1. 0 \in Nat
    OBVIOUS
  <2> QED
    BY <2>1, FarUp
<1>5. isn[Server] + STEP <= Far(n + 1) /\ isn[Server] + STEP \in Nat /\ Far(n + 1) \in Nat
  BY <1>3, <1>4, IsnTypes
<1>6. PICK e \in Nat : n + e = MaxFaults
  <2>1. MaxFaults - n \in Nat /\ n + (MaxFaults - n) = MaxFaults
    BY <1>2, IsnTypes
  <2> QED
    BY <2>1
<1>7. n + 1 \in Nat /\ (n + 1) + e = MaxFaults + 1 /\ MaxFaults + 1 \in Nat
  BY <1>6, IsnTypes
<1>8. Far(n + 1) <= Far((n + 1) + e)
  BY <1>7, FarUp
<1>9. Far(n + 1) <= Far(MaxFaults + 1)
  BY <1>7, <1>8
<1>10. Far(MaxFaults + 1) \in Nat
  BY <1>6, <1>7, FarUp
<1>11. Far(MaxFaults + 1) + 1 < MOD
  BY DEF NumbersFit
<1> QED
  BY <1>5, <1>9, <1>10, <1>11, IsnTypes

LEMMA Advanced ==
  ASSUME TypeInv, Shape, NumbersFit, Hello \in net, Advance(Server)
  PROVE  isn'[Server] = isn[Server] + STEP
<1>1. isn[Server] + STEP < MOD
  BY HelloFar
<1>2. isn'[Server] = Plus(isn[Server], STEP)
  BY Hosts DEF Advance, TypeInv, NetOK
<1> QED
  BY <1>1, <1>2, IsnTypes, PlusIs

LEMMA SpawnShape ==
  ASSUME TypeInv, Shape, NumbersFit, NEW h \in Host, NEW s \in net, s.src = Peer(h), NEW air,
         Handling(s, air), Matching(h, s) = {}, Spawn(h, s, air),
         pending' = pending, ready' = ready, cut' = cut
  PROVE  Shape'
<1>0. ServerOK /\ KeepsOK /\ SegsOK /\ Isn[Server] <= isn[Server] /\ s \in Segments
  BY DEF Shape, TypeInv, NetOK
<1>1. \E l \in Slot[h] : conns[h][l].state = "LISTEN"
  BY <1>0, SpawnDoes
<1>2. h = Server
  BY <1>1, ClientStates DEF Host
<1>3. s = Hello /\ s.src = Client
  <2>1. s.src = Client /\ "SYN" \in s.flags
    BY <1>0, <1>2, Hosts, SpawnDoes
  <2> QED
    BY <1>0, <2>1 DEF SegsOK, SegOK
<1>4. Advance(Server)
  BY <1>0, <1>2, SpawnDoes
<1>5. PICK i \in Slot[Server] : \E d, new :
              /\ ~conns[Server][i].in_use /\ Takes(Server, i, d, air, new)
              /\ d.state = "SYN_RCVD" /\ d.in_use /\ NoData(d)
              /\ d.lport = s.dport /\ d.rport = s.sport
              /\ d.seq = Plus(isn[Server], 1) /\ d.ack = Plus(s.seq, 1)
              /\ new \subseteq Segments
              /\ \A x \in new : /\ x.src = Server /\ x.flags = {"SYN", "ACK"} /\ x.data = <<>>
                                /\ x.seq = isn[Server] /\ x.ack = Plus(s.seq, 1)
  BY <1>0, <1>2, SpawnDoes
<1>6. PICK d, new :
              /\ ~conns[Server][i].in_use /\ Takes(Server, i, d, air, new)
              /\ d.state = "SYN_RCVD" /\ d.in_use /\ NoData(d)
              /\ d.lport = s.dport /\ d.rport = s.sport
              /\ d.seq = Plus(isn[Server], 1) /\ d.ack = Plus(s.seq, 1)
              /\ new \subseteq Segments
              /\ \A x \in new : /\ x.src = Server /\ x.flags = {"SYN", "ACK"} /\ x.data = <<>>
                                /\ x.seq = isn[Server] /\ x.ack = Plus(s.seq, 1)
  BY <1>5
<1>7. Plus(s.seq, 1) = B
  <2>1. s.seq = Isn[Client]
    BY <1>3, HelloHas
  <2>4. /\ Isn[Client] \in Nat /\ Writes[Client] \in Nat /\ Writes[Server] \in Nat
        /\ MOD \in Nat
    BY IsnTypes
  <2>2. Isn[Client] \in Nat /\ 1 \in Nat /\ Isn[Client] + 1 < MOD
    BY <2>4 DEF NumbersFit
  <2> QED
    BY <2>1, <2>2, PlusIs DEF B
<1>8. Plus(isn[Server], 1) = isn[Server] + 1
  BY IsnTypes, IsnFar, PlusIs
<1>9. PICK k \in Slot[Client] : Begun(k)
  <2>1. PICK k \in Slot[Client] : Before(k) \/ Begun(k)
    BY DEF Shape, ClientOK
  <2>2. ~Before(k)
    BY <1>3, HelloHas DEF Before
  <2> QED
    BY <2>1, <2>2
<1>10. PICK n \in Nat : n = MaxFaults - faults /\ n <= MaxFaults
  BY IsnTypes
<1>11. isn[Server] <= Far(n)
  BY <1>3, <1>9, <1>10, IsnTypes DEF Begun
<1>12. Far(n) \in Nat /\ Far(n + 1) = Far(n) + STEP
  <2>1. 0 \in Nat
    OBVIOUS
  <2> QED
    BY <2>1, FarUp
<1>13. isn[Server] + STEP <= Far(n + 1) /\ isn[Server] + STEP \in Nat /\ Far(n + 1) \in Nat
  BY <1>11, <1>12, IsnTypes
<1>15. isn'[Server] = isn[Server] + STEP
  BY <1>3, <1>4, Advanced
<1>16. isn'[Server] \in Nat /\ isn[Server] <= isn'[Server]
  BY <1>15, IsnTypes
<1>17. Set(Server, i, d) /\ net' = air \cup new /\ air \subseteq net /\ Server \in Host
  BY <1>6, Hosts DEF Takes, Handling
<1>18. ServerSlot(d)'
  <2>1. d.lport = PORT /\ d.rport = Ephemeral /\ d.ack = B /\ d.seq = isn[Server] + 1
    BY <1>3, <1>6, <1>7, <1>8, HelloHas
  <2>2. Counted(d.seq)'
    <3>1. Isn[Server] + 1 <= isn[Server] + 1
          /\ (isn[Server] + 1) + STEP <= (isn[Server] + STEP) + 1
      BY <1>0, IsnTypes
    <3> QED
      BY <1>15, <2>1, <3>1 DEF Counted, B
  <2> QED
    BY <1>6, <2>1, <2>2 DEF ServerSlot, IsChild, B
<1>19. Keeps(d)
  BY <1>6 DEF NoData, Keeps
<1>20. \A j \in Slot[Server] : ~IsChild(conns[Server][j])
  <2>1. ASSUME NEW j \in Slot[Server], IsChild(conns[Server][j]) PROVE FALSE
    <3>1. ServerSlot(conns[Server][j])
      BY <1>0 DEF ServerOK
    <3>2. conns[Server][j].in_use /\ conns[Server][j].lport = PORT /\ conns[Server][j].rport = Ephemeral
      BY <2>1, <3>1 DEF ServerSlot, IsChild
    <3>3. j \in Matching(Server, s)
      BY <1>3, <3>2, HelloHas DEF Matching
    <3> QED
      BY <1>2, <3>3
  <2> QED
    BY <2>1
<1>21. ASSUME NEW x \in new PROVE SegOK(x)'
  <2>1. x.src = Server /\ x.flags = {"SYN", "ACK"} /\ x.data = <<>> /\ x.seq = isn[Server] /\ x.ack = B
    BY <1>6, <1>7
  <2>2. Isn[Server] <= isn[Server] /\ isn[Server] + STEP <= isn'[Server] + 1
    BY <1>0, <1>15, <1>13
  <2> QED
    BY <2>1, <2>2, Hosts DEF SegOK, B
<1>22. Hello \notin new
  BY <1>6, HelloHas, Hosts
<1>23. isn'[Server] <= Far(MaxFaults - faults' + IF Hello \in net' THEN 0 ELSE 1)
  <2>1. CASE air = net \ {s} /\ faults' = faults
    <3>1. Hello \notin net'
      BY <1>3, <1>17, <1>22, <2>1
    <3>2. MaxFaults - faults' + 1 = n + 1
      BY <1>10, <2>1
    <3>3. MaxFaults - faults' + (IF Hello \in net' THEN 0 ELSE 1) = n + 1
      BY <3>1, <3>2
    <3> QED
      BY <1>13, <1>15, <3>3
  <2>2. CASE air = net /\ faults' = faults - 1 /\ faults' \in Nat
    <3>1. Hello \in net'
      BY <1>3, <1>17, <2>2
    <3>2. MaxFaults - faults' = n + 1 /\ n + 1 + 0 = n + 1
      BY <1>10, <2>2, IsnTypes
    <3>3. MaxFaults - faults' + (IF Hello \in net' THEN 0 ELSE 1) = n + 1
      BY <3>1, <3>2
    <3> QED
      BY <1>13, <1>15, <3>3
  <2> QED
    BY <2>1, <2>2 DEF Handling
<1>24. \A x \in Slot[Client] : ~Before(x)
  BY <1>3, HelloHas DEF Before
<1>25. net' \subseteq net \cup new /\ cut \subseteq cut' /\ cut' \subseteq Host
  BY <1>17 DEF TypeInv, HistOK
<1> QED
  BY <1>16, <1>17, <1>18, <1>19, <1>20, <1>21, <1>23, <1>24, <1>25, ServerShape

LEMMA UpIs ==
  ASSUME NEW c, Up(c)
  PROVE  IsChild(c) /\ Busy(c) /\ Keeps(c) /\ c.state # "CLOSED"
BY DEF Up, IsChild, Busy, Keeps

LEMMA ShutPlain ==
  ASSUME NEW c, c.in_use \/ c.state # "CLOSED", NEW d \in Conns,
         d.lport = c.lport, d.rport = c.rport, d.rx = c.rx, d.tx = c.tx, d.eof = c.eof,
         d.state = "CLOSED", ~d.in_use
  PROVE  Plain(c, d)
<1>1. d.in_use = FALSE
  BY Fields
<1>2. ~Up(d)
  BY DEF Up
<1>3. Active(d) => Active(c)
  BY <1>2 DEF Active
<1>4. Active(d) \/ d.eof => c.eof \/ Busy(c)
  BY <1>3 DEF Busy
<1>5. Keeps(d)
  BY DEF Keeps
<1> QED
  BY <1>1, <1>4, <1>5 DEF Plain

\* The segment has reached its host and finds a connection.
LEMMA MatchedShape ==
  ASSUME TypeInv, Shape, NumbersFit, NEW h \in Host, NEW s \in net, s.src = Peer(h), NEW air \in SUBSET net,
         NEW i \in Slot[h], conns[h][i].in_use,
         Synchronized(h, i, s, air) \/ SynSent(h, i, s, air) \/ SynRcvd(h, i, s, air)
           \/ Reset(h, i, s, air),
         isn' = isn => Steady
  PROVE  Shape'
<1>1. s \in Segments /\ KeepsOK /\ ServerOK
  BY DEF TypeInv, NetOK, Shape
<1>2. PICK c : c = conns[h][i]
  OBVIOUS
<1>3. c \in Conns /\ Keeps(c) /\ c.in_use
  BY <1>1, <1>2 DEF TypeInv, TablesOK, Sized, KeepsOK
<1>4. PICK e : e = {}
  OBVIOUS
<1>5. ASSUME conns' = conns, isn' = isn, net' = air PROVE Shape'
  <2>1. net' \subseteq net \cup e /\ \A x \in e : x.flags = {"RST"} /\ cut' = Host
    BY <1>4, <1>5
  <2>2. Steady
    BY <1>5
  <2> QED
    BY <1>5, <2>1, <2>2, StillShape DEF Steady
<1>6. ASSUME Reset(h, i, s, air) PROVE Shape'
  <2>1. isn' = isn /\ \E d : /\ Takes(h, i, d, air, {}) /\ d.state = "CLOSED" /\ ~d.in_use
                             /\ KeptFields(d, c) /\ d.eof = c.eof
    BY <1>2, <1>6, ResetDoes
  <2>2. PICK d : /\ Takes(h, i, d, air, {}) /\ d.state = "CLOSED" /\ ~d.in_use
                 /\ KeptFields(d, c) /\ d.eof = c.eof
    BY <2>1
  <2>3. Set(h, i, d) /\ d \in Conns /\ net' = air
    BY <2>2 DEF Takes, Sized
  <2>4. Plain(c, d)
    BY <1>3, <2>2, <2>3, ShutPlain DEF KeptFields
  <2>5. Calm(e) /\ (e # {} => Busy(c)) /\ Steady
    BY <1>4, <2>1, <2>3 DEF Calm
  <2> QED
    BY <1>2, <2>3, <2>4, <2>5, PlainShape
<1>7. ASSUME Synchronized(h, i, s, air) PROVE Shape'
  <2>1. PICK c1, c2, c3, c4, n1, n2 : Syncs(h, i, s, air, c1, c2, c3, c4, n1, n2)
    BY <1>1, <1>7, SynchronizedDoes
  <2>2. Up(c)
    BY <1>1, <1>2, <1>7, SynchronizedDoes DEF Up
  <2>3. Plain(c, c4) /\ Set(h, i, c4) /\ isn' = isn
    BY <1>2, <1>3, <2>1, <2>2, StagesPlain DEF Syncs
  <2>4. PICK new : new = n1 \cup n2
    OBVIOUS
  <2>5. Calm(new)
    <3>1. net' = (air \cup n1) \cup n2
      BY <2>1 DEF Syncs
    <3>2. \A x \in new : x.flags = {"ACK"}
      BY <2>1, <2>4 DEF Syncs, Sends
    <3> QED
      BY <2>4, <3>1, <3>2 DEF Calm
  <2>6. new # {} => Busy(c)
    BY <2>2, UpIs
  <2> QED
    BY <1>2, <2>3, <2>5, <2>6, PlainShape
<1>8. ASSUME SynSent(h, i, s, air) PROVE Shape'
  <2>1. c.state = "SYN_SENT" /\ isn' = isn
    BY <1>1, <1>2, <1>8, SynSentDoes
  <2>2. \/ conns' = conns /\ net' = air
        \/ \E d, new : /\ Takes(h, i, d, air, new) /\ Connected(d, c, s)
                       /\ Sends(new, h, d, {"ACK"}, <<>>)
    BY <1>1, <1>2, <1>8, SynSentDoes
  <2>3. ASSUME NEW d, NEW new, Takes(h, i, d, air, new), Connected(d, c, s),
               Sends(new, h, d, {"ACK"}, <<>>)
        PROVE  Shape'
    <3>1. Up(d) /\ IsChild(c) /\ Busy(c) /\ c.state # "CLOSED"
      BY <2>1, <2>3 DEF Connected, Up, IsChild, Busy
    <3>2. Plain(c, d)
      BY <2>3, <3>1, UpIs DEF Plain, Connected
    <3>3. Calm(new) /\ Set(h, i, d)
      BY <2>3 DEF Takes, Calm, Sends
    <3> QED
      BY <1>2, <2>1, <3>1, <3>2, <3>3, PlainShape
  <2> QED
    BY <1>5, <2>1, <2>2, <2>3
<1>9. ASSUME SynRcvd(h, i, s, air) PROVE Shape'
  <2>1. c.state = "SYN_RCVD" /\ isn' = isn /\ Steady
    BY <1>1, <1>2, <1>9, SynRcvdDoes
  <2>2. \/ conns' = conns /\ net' = air
        \/ \E d : /\ Takes(h, i, d, air, {}) /\ KeptFields(d, c)
                  /\ d.state = "ESTABLISHED" /\ d.in_use = c.in_use
        \/ /\ "SYN" \in s.flags
           /\ \E d, new : /\ Takes(h, i, d, air, new) /\ d.state = "SYN_RCVD"
                          /\ d.seq = Plus(s.seq, 1) /\ d.ack = c.ack /\ d.tx = c.tx
                          /\ d.lport = c.lport /\ d.rport = c.rport /\ d.in_use = c.in_use
                          /\ Sends(new, h, c, {"SYN", "ACK"}, <<>>)
    BY <1>1, <1>2, <1>9, SynRcvdDoes
  <2>3. ASSUME NEW d, Takes(h, i, d, air, {}), KeptFields(d, c), d.state = "ESTABLISHED",
               d.in_use = c.in_use
        PROVE  Shape'
    <3>1. Up(d) /\ IsChild(c) /\ Busy(c) /\ c.state # "CLOSED"
      BY <2>1, <2>3 DEF Up, IsChild, Busy
    <3>2. Plain(c, d)
      BY <2>3, <3>1, UpIs DEF Plain, KeptFields
    <3>3. Calm(e) /\ Set(h, i, d)
      BY <1>4, <2>3 DEF Takes, Calm
    <3> QED
      BY <1>2, <2>1, <3>1, <3>2, <3>3, PlainShape
  <2>4. ASSUME "SYN" \in s.flags, NEW d, NEW new, Takes(h, i, d, air, new), d.state = "SYN_RCVD",
               d.seq = Plus(s.seq, 1), d.ack = c.ack, d.tx = c.tx, d.lport = c.lport,
               d.rport = c.rport, d.in_use = c.in_use, Sends(new, h, c, {"SYN", "ACK"}, <<>>)
        PROVE  Shape'
    <3>1. h = Server
      BY <1>2, <2>1, ClientStates DEF Host
    <3>2. s.src = Client /\ i \in Slot[Server] /\ c = conns[Server][i]
      BY <1>2, <3>1, Hosts
    <3>3. Takes(Server, i, d, air, new) /\ Sends(new, Server, conns[Server][i], {"SYN", "ACK"}, <<>>)
      BY <1>2, <2>4, <3>1
    <3> QED
      BY <2>1, <2>4, <3>2, <3>3, ReSynShape
  <2> QED
    BY <1>5, <2>1, <2>2, <2>3, <2>4
<1> QED
  BY <1>6, <1>7, <1>8, <1>9

LEMMA HandlerShape ==
  ASSUME TypeInv, Shape, NumbersFit, NEW s \in net, NEW air, Handling(s, air), net_handle_tcp(s, air),
         pending' = pending, ready' = ready, cut' = cut
  PROVE  Shape'
<1>1. PICK h \in Host : h = Peer(s.src) /\ s.src = Peer(h) /\ s \in Segments
  <2>1. s \in Segments /\ s.src \in Host
    BY SegmentFields DEF TypeInv, NetOK
  <2> QED
    BY <2>1, Hosts
<1>2. /\ air \subseteq net /\ faults' \in Nat /\ faults' \in {faults, faults - 1}
      /\ cut \subseteq cut' /\ cut' \subseteq Host
  BY IsnTypes DEF Handling, TypeInv, HistOK
<1>3. isn' = isn => Steady
  BY <1>2 DEF Steady
<1>4. CASE Matching(h, s) # {}
  <2>1. PICK i \in Slot[h] : i = First(Matching(h, s)) /\ conns[h][i].in_use
    BY <1>4, MatchIs
  <2>2. Synchronized(h, i, s, air) \/ SynSent(h, i, s, air) \/ SynRcvd(h, i, s, air)
          \/ Reset(h, i, s, air)
    BY <1>1, <1>4, <2>1 DEF net_handle_tcp
  <2> QED
    BY <1>1, <1>2, <1>3, <2>1, <2>2, MatchedShape
<1>5. CASE Matching(h, s) = {} /\ Spawn(h, s, air)
  BY <1>1, <1>5, SpawnShape
<1>6. CASE Dropped(h, s, air)
  <2>1. PICK e : e = {}
    OBVIOUS
  <2>2. conns' = conns /\ isn' = isn /\ net' = air
    BY <1>6 DEF Dropped
  <2>3. net' \subseteq net \cup e /\ \A x \in e : x.flags = {"RST"} /\ cut' = Host
    BY <1>2, <2>1, <2>2
  <2> QED
    BY <1>2, <2>2, <2>3, StillShape
<1> QED
  BY <1>1, <1>4, <1>5, <1>6 DEF net_handle_tcp

LEMMA UpPlain ==
  ASSUME NEW c, NEW d, Up(c), Up(d), d.lport = c.lport, d.rport = c.rport, d.in_use = c.in_use
  PROVE  Plain(c, d) /\ Busy(c)
BY UpIs DEF Plain

LEMMA SamePlain ==
  ASSUME NEW c, NEW d, Active(c), c.in_use \/ c.state # "CLOSED", Keeps(c),
         d.state = c.state, d.in_use = c.in_use, d.lport = c.lport, d.rport = c.rport,
         d.seq = c.seq, d.ack = c.ack, d.tx = c.tx
  PROVE  Plain(c, d) /\ Busy(c)
<1>1. Keeps(d) /\ Busy(c)
  BY DEF Keeps, Up, Busy
<1> QED
  BY <1>1 DEF Plain

\* An ordinary step, as the lemmas on the operations give it
LEMMA MovesShape ==
  ASSUME TypeInv, Shape, NEW h \in Host, NEW i \in Slot[h], NEW d, NEW new, Moves(h, i, d, new),
         Plain(conns[h][i], d), \A s \in new : "SYN" \notin s.flags /\ "RST" \notin s.flags,
         new # {} => Busy(conns[h][i]), Steady
  PROVE  Shape'
<1>1. Set(h, i, d) /\ Calm(new)
  BY DEF Moves, Calm
<1> QED
  BY <1>1, PlainShape

LEMMA ProgramShape ==
  ASSUME TypeInv, Shape, NumbersFit, NEW h \in Host, Program(h)
  PROVE  Shape'
<1>0. cut \subseteq Host /\ faults \in Nat /\ KeepsOK /\ held[h] \subseteq Slot[h]
  BY IsnTypes DEF TypeInv, HistOK, Shape, IdsOK
<1>1. CASE net_tcp_connect(h)
  BY <1>1, ConnectShape
<1>2. CASE net_tcp_listen(h)
  BY <1>2, ListenShape
<1>3. PICK e : e = {}
  OBVIOUS
<1>4. ASSUME NEW i \in held[h], net_tcp_accept(h, i) PROVE Shape'
  <2>1. PICK j \in Slot[h] : \E d :
           /\ Moves(h, j, d, {}) /\ KeptFields(d, conns[h][j]) /\ d.state = conns[h][j].state
           /\ d.in_use = conns[h][j].in_use /\ d.state = "ESTABLISHED"
    BY <1>4, AcceptDoes
  <2>2. PICK d :
           /\ Moves(h, j, d, e) /\ KeptFields(d, conns[h][j]) /\ d.state = conns[h][j].state
           /\ d.in_use = conns[h][j].in_use /\ d.state = "ESTABLISHED"
    BY <1>3, <2>1
  <2>3. Plain(conns[h][j], d)
    <3>1. Up(conns[h][j]) /\ Up(d)
      BY <2>2 DEF Up
    <3>2. /\ d.lport = conns[h][j].lport /\ d.rport = conns[h][j].rport
          /\ d.in_use = conns[h][j].in_use
      BY <2>2 DEF KeptFields
    <3> QED
      BY <3>1, <3>2, UpPlain
  <2>4. Steady
    BY <1>0, <1>4 DEF net_tcp_accept, Steady, hist
  <2> QED
    BY <1>3, <2>2, <2>3, <2>4, MovesShape
<1>5. ASSUME NEW i \in held[h], NEW n \in 1 .. MaxLen, net_tcp_send(h, i, n) PROVE Shape'
  <2>1. i \in Slot[h] /\ conns[h][i].state = "ESTABLISHED"
    BY <1>5, SendDoes
  <2>2. PICK d, new :
              /\ Moves(h, i, d, new)
              /\ d.lport = conns[h][i].lport /\ d.rport = conns[h][i].rport
              /\ d.state = "ESTABLISHED" /\ d.in_use = conns[h][i].in_use
              /\ Sends(new, h, conns[h][i], {"ACK"}, Numbered(h, n))
    BY <1>5, SendDoes
  <2>3. Plain(conns[h][i], d) /\ Busy(conns[h][i])
    BY <2>1, <2>2, UpPlain DEF Up
  <2>4. Steady
    BY <1>0, <1>5 DEF net_tcp_send, Steady
  <2>5. \A s \in new : s.flags = {"ACK"}
    BY <2>2 DEF Sends
  <2> QED
    BY <2>1, <2>2, <2>3, <2>4, <2>5, MovesShape
<1>6. ASSUME NEW i \in held[h], NEW n \in 1 .. Len(conns[h][i].rx), net_tcp_recv(h, i, n)
      PROVE  Shape'
  <2>1. i \in Slot[h] /\ conns[h][i].state # "CLOSED"
    BY <1>6, RecvDoes
  <2>2. PICK d, new :
              /\ Moves(h, i, d, new)
              /\ d.seq = conns[h][i].seq /\ d.ack = conns[h][i].ack /\ d.tx = conns[h][i].tx
              /\ d.lport = conns[h][i].lport /\ d.rport = conns[h][i].rport
              /\ d.state = conns[h][i].state /\ d.in_use = conns[h][i].in_use
              /\ Sends(new, h, d, {"ACK"}, <<>>)
    BY <1>6, RecvDoes
  <2>3. conns[h][i].rx # <<>>
    <3>1. 1 .. Len(<<>>) = {}
      OBVIOUS
    <3> QED
      BY <3>1
  <2>4. Keeps(conns[h][i]) /\ Active(conns[h][i])
    BY <1>0, <2>1, <2>3 DEF KeepsOK, Active
  <2>5. Plain(conns[h][i], d) /\ Busy(conns[h][i])
    BY <2>1, <2>2, <2>4, SamePlain
  <2>6. Steady
    BY <1>0, <1>6 DEF net_tcp_recv, Steady
  <2>7. \A s \in new : s.flags = {"ACK"}
    BY <2>2 DEF Sends
  <2> QED
    BY <2>1, <2>2, <2>5, <2>6, <2>7, MovesShape
<1>7. ASSUME NEW i \in held[h], net_tcp_close(h, i) PROVE Shape'
  <2>1. /\ i \in Slot[h] /\ cut \subseteq cut' /\ cut' \subseteq Host
    BY <1>0, <1>7, CloseDoes
  <2>2. Steady
    BY <1>0, <1>7, <2>1 DEF net_tcp_close, Steady
  <2>3. CASE conns' = conns /\ net' = net
    <3>1. net' \subseteq net \cup e /\ \A x \in e : x.flags = {"RST"} /\ cut' = Host
      BY <1>3, <2>3
    <3> QED
      BY <2>2, <2>3, <3>1, StillShape DEF Steady
  <2>4. ASSUME NEW d, NEW new, conns[h][i].in_use, Moves(h, i, d, new),
               d.rx = conns[h][i].rx, d.tx = conns[h][i].tx, d.eof = conns[h][i].eof,
               d.lport = conns[h][i].lport, d.rport = conns[h][i].rport,
               conns[h][i].state \in {"ESTABLISHED", "CLOSE_WAIT"},
               d.state = IF conns[h][i].state = "ESTABLISHED" THEN "FIN_WAIT_1" ELSE "LAST_ACK",
               d.in_use, Sends(new, h, conns[h][i], {"ACK", "FIN"}, <<>>)
        PROVE  Shape'
    <3>1. Up(conns[h][i]) /\ Up(d)
      BY <2>4 DEF Up
    <3>2. d.in_use = TRUE /\ conns[h][i].in_use = TRUE
      <4>1. d \in Conns /\ conns[h][i] \in Conns
        BY <2>1, <2>4 DEF Moves, Sized, TypeInv, TablesOK
      <4>2. d.in_use \in BOOLEAN /\ conns[h][i].in_use \in BOOLEAN
        BY <4>1, Fields
      <4> QED
        BY <2>4, <4>2
    <3>3. Plain(conns[h][i], d) /\ Busy(conns[h][i])
      BY <2>4, <3>1, <3>2, UpPlain
    <3>4. \A s \in new : s.flags = {"ACK", "FIN"}
      BY <2>4 DEF Sends
    <3> QED
      BY <2>1, <2>2, <2>4, <3>3, <3>4, MovesShape
  <2>5. ASSUME NEW d, conns[h][i].in_use, Moves(h, i, d, e),
               d.rx = conns[h][i].rx, d.tx = conns[h][i].tx, d.eof = conns[h][i].eof,
               d.lport = conns[h][i].lport, d.rport = conns[h][i].rport,
               d.state = "CLOSED", ~d.in_use
        PROVE  Shape'
    <3>1. d \in Conns
      BY <2>5 DEF Moves, Sized
    <3>2. Plain(conns[h][i], d)
      BY <2>5, <3>1, ShutPlain
    <3> QED
      BY <1>3, <2>1, <2>2, <2>5, <3>2, MovesShape
  <2>6. ASSUME NEW d, NEW new,
                 /\ conns[h][i].in_use /\ Moves(h, i, d, new)
                 /\ d.rx = conns[h][i].rx /\ d.tx = conns[h][i].tx
                 /\ d.ack = conns[h][i].ack /\ d.eof = conns[h][i].eof
                 /\ d.unacked_seq = conns[h][i].unacked_seq
                 /\ d.lport = conns[h][i].lport /\ d.rport = conns[h][i].rport
                 /\ \/ /\ conns[h][i].state \in {"ESTABLISHED", "CLOSE_WAIT"}
                       /\ d.state = IF conns[h][i].state = "ESTABLISHED" THEN "FIN_WAIT_1"
                                                                         ELSE "LAST_ACK"
                       /\ d.seq = Plus(conns[h][i].seq, 1) /\ d.in_use
                       /\ Sends(new, h, conns[h][i], {"ACK", "FIN"}, <<>>)
                    \/ /\ conns[h][i].state \notin {"ESTABLISHED", "CLOSE_WAIT"}
                       /\ d.state = "CLOSED" /\ ~d.in_use /\ d.seq = conns[h][i].seq
                       /\ new = {}
        PROVE  Shape'
    BY <1>3, <2>4, <2>5, <2>6
  <2> QED
    BY <1>7, <2>3, <2>6, CloseDoes
<1> QED
  BY <1>1, <1>2, <1>4, <1>5, <1>6, <1>7 DEF Program

LEMMA TimerShape ==
  ASSUME TypeInv, Shape, NumbersFit, NEW h \in Host,
         ArpReply(h) \/ \E i \in Slot[h] : ConnectTimeout(h, i) \/ Retransmit(h, i) \/ Forge(h, i)
  PROVE  Shape'
<1>0. cut \subseteq Host /\ faults \in Nat /\ KeepsOK
  BY IsnTypes DEF TypeInv, HistOK, Shape
<1>1. CASE ArpReply(h)
  BY <1>1, ArpShape
<1>2. PICK e : e = {}
  OBVIOUS
<1>3. ASSUME NEW i \in Slot[h], ConnectTimeout(h, i) PROVE Shape'
  <2>1. conns[h][i].state = "SYN_SENT"
         /\ \E d : /\ Moves(h, i, d, {}) /\ d.state = "CLOSED" /\ ~d.in_use
                   /\ d.rx = conns[h][i].rx /\ d.tx = conns[h][i].tx /\ d.eof = conns[h][i].eof
                   /\ d.lport = conns[h][i].lport /\ d.rport = conns[h][i].rport
    BY <1>3, TimeoutDoes
  <2>2. PICK d : /\ Moves(h, i, d, e) /\ d.state = "CLOSED" /\ ~d.in_use
                 /\ d.rx = conns[h][i].rx /\ d.tx = conns[h][i].tx /\ d.eof = conns[h][i].eof
                 /\ d.lport = conns[h][i].lport /\ d.rport = conns[h][i].rport
    BY <1>2, <2>1
  <2>3. d \in Conns
    BY <2>2 DEF Moves, Sized
  <2>4. Plain(conns[h][i], d)
    BY <2>1, <2>2, <2>3, ShutPlain
  <2>5. Steady
    BY <1>0, <1>3 DEF ConnectTimeout, Steady, hist
  <2> QED
    BY <1>2, <2>2, <2>4, <2>5, MovesShape
<1>4. ASSUME NEW i \in Slot[h], Retransmit(h, i) PROVE Shape'
  <2>1. conns[h][i].in_use /\ conns[h][i].tx # <<>>
    BY <1>4, RetransmitDoes
  <2>2. PICK d, new :
              /\ Moves(h, i, d, new) /\ KeptFields(d, conns[h][i]) /\ d.state = conns[h][i].state
              /\ d.ack = conns[h][i].ack /\ d.in_use = conns[h][i].in_use
              /\ \A s \in new : s.flags = {"ACK"}
    BY <1>4, RetransmitDoes
  <2>3. Active(conns[h][i]) /\ Keeps(conns[h][i])
    BY <1>0, <2>1 DEF Active, KeepsOK
  <2>4. Plain(conns[h][i], d) /\ Busy(conns[h][i])
    BY <2>1, <2>2, <2>3, SamePlain DEF KeptFields
  <2>5. Steady
    BY <1>0, <1>4, IsnTypes DEF Retransmit, Fault, Steady, hist
  <2> QED
    BY <2>2, <2>4, <2>5, MovesShape
<1>5. ASSUME NEW i \in Slot[h], Forge(h, i) PROVE Shape'
  <2>1. conns' = conns /\ cut' = Host
    BY <1>5, ForgeDoes
  <2>2. PICK s \in Segments : net' = net \cup {s} /\ s.flags = {"RST"}
    BY <1>5, ForgeDoes
  <2>3. PICK new : new = {s}
    OBVIOUS
  <2>4. net' \subseteq net \cup new /\ \A x \in new : x.flags = {"RST"} /\ cut' = Host
    BY <2>1, <2>2, <2>3
  <2>5. /\ isn' = isn /\ pending' = pending /\ ready' = ready
        /\ faults' \in Nat /\ faults' \in {faults, faults - 1}
    BY <1>0, <1>5 DEF Forge, Fault
  <2>6. cut \subseteq cut' /\ cut' \subseteq Host
    BY <1>0, <2>1
  <2> QED
    BY <2>1, <2>4, <2>5, <2>6, StillShape
<1> QED
  BY <1>1, <1>3, <1>4, <1>5

LEMMA NetworkShape ==
  ASSUME TypeInv, Shape, NumbersFit, NEW s \in net, Receive(s) \/ Duplicate(s) \/ Lose(s)
  PROVE  Shape'
<1>0. faults \in Nat /\ cut \subseteq Host
  BY IsnTypes DEF TypeInv, HistOK
<1>1. CASE Receive(s)
  <2>1. Handling(s, net \ {s}) /\ pending' = pending /\ ready' = ready /\ cut' = cut
    BY <1>1 DEF Receive, Handling
  <2>2. PICK air : air = net \ {s}
    OBVIOUS
  <2>3. net_handle_tcp(s, air) /\ Handling(s, air)
    BY <1>1, <2>1, <2>2 DEF Receive
  <2> QED
    BY <2>1, <2>3, HandlerShape
<1>2. CASE Duplicate(s)
  <2>1. PICK air : air = net
    OBVIOUS
  <2>2. net_handle_tcp(s, air) /\ Handling(s, air) /\ pending' = pending /\ ready' = ready /\ cut' = cut
    BY <1>0, <1>2, <2>1 DEF Duplicate, Fault, Handling
  <2> QED
    BY <2>2, HandlerShape
<1>3. CASE Lose(s)
  <2>1. PICK e : e = {}
    OBVIOUS
  <2>2. /\ conns' = conns /\ isn' = isn /\ pending' = pending /\ ready' = ready /\ cut' = cut
        /\ faults' \in Nat /\ faults' \in {faults, faults - 1}
        /\ net' \subseteq net \cup e /\ \A x \in e : x.flags = {"RST"} /\ cut' = Host
    BY <1>0, <1>3, <2>1 DEF Lose, Fault, hist
  <2>3. cut \subseteq cut' /\ cut' \subseteq Host
    BY <1>0, <2>2
  <2> QED
    BY <2>2, <2>3, StillShape
<1> QED
  BY <1>1, <1>2, <1>3

LEMMA ShapeNext == TypeInv /\ NumbersFit /\ Shape /\ [TcpNext]_tcpVars => Shape'
<1> SUFFICES ASSUME TypeInv, NumbersFit, Shape, [TcpNext]_tcpVars PROVE Shape'
  OBVIOUS
<1>1. CASE UNCHANGED tcpVars
  <2>1. /\ conns' = conns /\ isn' = isn /\ pending' = pending /\ ready' = ready /\ cut' = cut
        /\ faults' = faults /\ net' = net
    BY <1>1 DEF tcpVars
  <2>2. PICK e : e = {}
    OBVIOUS
  <2>3. net' \subseteq net \cup e /\ \A x \in e : x.flags = {"RST"} /\ cut' = Host
    BY <2>1, <2>2
  <2>4. /\ faults' \in Nat /\ faults' \in {faults, faults - 1}
        /\ cut \subseteq cut' /\ cut' \subseteq Host
    BY <2>1, IsnTypes DEF TypeInv, HistOK
  <2> QED
    BY <2>1, <2>3, <2>4, StillShape
<1>2. CASE TcpNext
  BY <1>2, ProgramShape, TimerShape, NetworkShape DEF TcpNext
<1> QED
  BY <1>1, <1>2

LEMMA ShapeInit == TcpInit => Shape
<1> SUFFICES ASSUME TcpInit PROVE Shape
  OBVIOUS
<1>1. TypeInv
  BY TypesInit
<1>2. /\ \A h \in Host : \A i \in Slot[h] : conns[h][i] = Zero
      /\ \A h \in Host : pending[h] = None
      /\ net = {} /\ isn = Isn
  BY DEF TcpInit
<1>3. ASSUME NEW h \in Host PROVE Silent(conns[h])
  <2>1. DOMAIN conns[h] = Slot[h]
    BY <1>1 DEF TypeInv, TablesOK
  <2> QED
    BY <1>2, <2>1, ZeroIs DEF Silent, Active, Up
<1>4. PICK k : k \in Slot[Client]
  BY SlotsAre, Hosts
<1>5. Before(k)
  BY <1>2, <1>3, <1>4, Hosts, ZeroIs DEF Before, Untouched, IsChild
<1>6. ClientOK
  BY <1>2, <1>4, <1>5, Hosts DEF ClientOK, Untouched
<1>7. ServerOK
  BY <1>2, Hosts, ZeroIs DEF ServerOK, ServerSlot, IsChild
<1>8. KeepsOK
  BY <1>2, ZeroIs DEF KeepsOK, Keeps
<1>9. SegsOK
  BY <1>2 DEF SegsOK
<1>10. Isn[Server] <= isn[Server]
  BY <1>1, <1>2, IsnTypes
<1> QED
  BY <1>6, <1>7, <1>8, <1>9, <1>10 DEF Shape

-----------------------------------------------------------------------------
(* The steps of one direction                                              *)

LEMMA WayTypesOf ==
  ASSUME TypeInv, NEW h \in Host, NEW b \in Nat
  PROVE  WayTypes(b, conns[h], conns[Peer(h)], By(h), By(Peer(h)), sent[h], stored[h], got[h])
<1>1. PICK g \in Host : g = Peer(h)
  BY Hosts
<1>2. ASSUME NEW x \in Host PROVE \A i \in DOMAIN conns[x] : conns[x][i] \in Conns
  BY DEF TypeInv, TablesOK, Sized
<1>3. By(h) \subseteq Segments /\ By(g) \subseteq Segments
  BY DEF By, TypeInv, NetOK
<1>4. sent[h] \in Nat /\ stored[h] \in Nat /\ got[h] \in Seq(Nat)
  BY DEF TypeInv, HistOK
<1> QED
  BY <1>1, <1>2, <1>3, <1>4 DEF WayTypes

LEMMA PutIs ==
  ASSUME TypeInv, NEW h \in Host, NEW i \in Slot[h], NEW d, Set(h, i, d)
  PROVE  Put(conns'[h], conns[h], i, d) /\ conns'[Peer(h)] = conns[Peer(h)]
<1>1. /\ conns'[h][i] = d
      /\ \A g \in Host : \A j \in Slot[g] : (g = h /\ j = i) \/ conns'[g][j] = conns[g][j]
      /\ \A g \in Host : g # h => conns'[g] = conns[g]
      /\ DOMAIN conns'[h] = Slot[h]
  BY SlotSet
<1>2. DOMAIN conns[h] = Slot[h]
  BY DEF TypeInv, TablesOK
<1>3. Put(conns'[h], conns[h], i, d)
  BY <1>1, <1>2 DEF Put
<1> QED
  BY <1>1, <1>3, Hosts

\* The segments of h in a step are new, what its peer has sent is what it was.
LEMMA ByIs ==
  ASSUME NEW h \in Host, NEW new, net' \subseteq net \cup new, \A s \in new : s.src = h
  PROVE  By(h)' \subseteq By(h) \cup new /\ By(Peer(h))' \subseteq By(Peer(h))
<1>1. Peer(h) # h
  BY Hosts
<1>2. PICK g : g = Peer(h)
  OBVIOUS
<1>3. By(h)' \subseteq By(h) \cup new /\ By(g)' \subseteq By(g)
  BY <1>1, <1>2 DEF By
<1> QED
  BY <1>2, <1>3

\* What h puts into the air fits both directions.
Airs(s, h, a, b, S, S2, gone) ==
  /\ s.src = h /\ Outgoing(s, a, sent[h])
  /\ "FIN" \in s.flags => Over(S2, sent[h], stored[h], h, gone)
  /\ Comes(s, b, sent[Peer(h)])
  /\ "ACK" \in s.flags /\ s.ack > b + stored[Peer(h)]
       => Over(S, sent[Peer(h)], stored[Peer(h)], Peer(h), gone)

\* h changes a slot and sends, and nothing is sent, stored or read by programs.
LEMMA Keeping ==
  ASSUME TypeInv, NEW h \in Host, NEW a, NEW b, WayOf(h, a), WayOf(Peer(h), b),
         NEW i \in Slot[h], NEW d, Set(h, i, d),
         SndFits(d, conns[h][i], a, sent[h], stored[h], h, cut'), RcvFits(d, conns[h][i]),
         NEW new, net' \subseteq net \cup new, cut \subseteq cut',
         \A s \in new : Airs(s, h, a, b, conns[Peer(h)], conns'[h], cut'),
         sent' = sent, stored' = stored, got' = got
  PROVE  WayOf(h, a)' /\ WayOf(Peer(h), b)'
<1>1. PICK g \in Host : g = Peer(h) /\ Peer(g) = h
  BY Hosts
<1>2. Put(conns'[h], conns[h], i, d) /\ conns'[g] = conns[g]
  BY <1>1, PutIs
<1>3. By(h)' \subseteq By(h) \cup new /\ By(g)' \subseteq By(g)
  BY <1>1, ByIs DEF Airs
<1>4. WayOf(h, a)'
  <2>1. Way(a, conns[h], conns[g], By(h), By(g), sent[h], stored[h], got[h], h, cut')
    BY <1>1, WayCut DEF WayOf
  <2>2. Way(a, conns'[h], conns[g], By(h), By(g), sent[h], stored[h], got[h], h, cut')
    BY <1>2, <2>1, SndSlot
  <2>3. Way(a, conns'[h], conns[g], By(h) \cup new, By(g), sent[h], stored[h], got[h], h, cut')
    <3>1. \A s \in new : Outgoing(s, a, sent[h])
                         /\ ("FIN" \in s.flags => Over(conns'[h], sent[h], stored[h], h, cut'))
      BY DEF Airs
    <3> QED
      BY <2>2, <3>1, WayOut
  <2>4. Way(a, conns'[h], conns[g], By(h)', By(g)', sent[h], stored[h], got[h], h, cut')
    BY <1>3, <2>3, WayLess
  <2> QED
    BY <1>1, <1>2, <2>4 DEF WayOf
<1>5. WayOf(g, b)'
  <2>1. Way(b, conns[g], conns[h], By(g), By(h), sent[g], stored[g], got[g], g, cut')
    BY <1>1, WayCut DEF WayOf
  <2>2. Way(b, conns[g], conns'[h], By(g), By(h), sent[g], stored[g], got[g], g, cut')
    BY <1>2, <2>1, RcvSlot
  <2>3. Way(b, conns[g], conns'[h], By(g), By(h) \cup new, sent[g], stored[g], got[g], g, cut')
    <3>1. \A s \in new : /\ Comes(s, b, sent[g])
                         /\ "ACK" \in s.flags /\ s.ack > b + stored[g]
                              => Over(conns[g], sent[g], stored[g], g, cut')
      BY <1>1 DEF Airs
    <3> QED
      BY <2>2, <3>1, WayBack
  <2>4. Way(b, conns[g], conns'[h], By(g)', By(h)', sent[g], stored[g], got[g], g, cut')
    BY <1>3, <2>3, WayLess
  <2> QED
    BY <1>1, <1>2, <2>4 DEF WayOf
<1> QED
  BY <1>1, <1>4, <1>5

\* h carries on: its slots are what they were.
LEMMA Resting ==
  ASSUME TypeInv, NEW h \in Host, NEW a, WayOf(h, a), conns' = conns, cut \subseteq cut',
         NEW new, net' \subseteq net \cup new,
         \A s \in new : s.data = <<>> /\ "FIN" \notin s.flags /\ "ACK" \notin s.flags,
         sent' = sent, stored' = stored, got' = got
  PROVE  WayOf(h, a)'
<1>1. PICK g \in Host : g = Peer(h)
  BY Hosts
<1>2. By(h)' \subseteq By(h) \cup new /\ By(g)' \subseteq By(g) \cup new
  BY DEF By
<1>3. Way(a, conns[h], conns[g], By(h), By(g), sent[h], stored[h], got[h], h, cut')
  BY <1>1, WayCut DEF WayOf
<1>4. Way(a, conns[h], conns[g], By(h) \cup new, By(g), sent[h], stored[h], got[h], h, cut')
  <2>1. \A s \in new : Outgoing(s, a, sent[h])
                       /\ ("FIN" \in s.flags => Over(conns[h], sent[h], stored[h], h, cut'))
    BY DEF Outgoing
  <2> QED
    BY <1>3, <2>1, WayOut
<1>5. Way(a, conns[h], conns[g], By(h) \cup new, By(g) \cup new, sent[h], stored[h], got[h], h, cut')
  <2>1. \A s \in new : /\ Comes(s, a, sent[h])
                       /\ "ACK" \in s.flags /\ s.ack > a + stored[h]
                            => Over(conns[h], sent[h], stored[h], h, cut')
    BY DEF Comes
  <2> QED
    BY <1>4, <2>1, WayBack
<1>6. Way(a, conns[h], conns[g], By(h)', By(g)', sent[h], stored[h], got[h], h, cut')
  BY <1>2, <1>5, WayLess
<1> QED
  BY <1>1, <1>6 DEF WayOf

LEMMA SndSame ==
  ASSUME NEW c, NEW d, NEW b, NEW m, NEW n, NEW h, NEW gone, Snd(c, b, m, h, gone), NEW gone1,
         gone \subseteq gone1, d.state = c.state, d.seq = c.seq, d.tx = c.tx,
         d.unacked_seq = c.unacked_seq
  PROVE  SndFits(d, c, b, m, n, h, gone1)
<1>1. (Up(d) <=> Up(c)) /\ (Talks(d) <=> Talks(c))
  BY DEF Up, Talks
<1> QED
  BY <1>1 DEF Snd, SndFits

LEMMA SndDown ==
  ASSUME NEW c, NEW d, NEW b, NEW m, NEW n, NEW h, NEW gone, Snd(c, b, m, h, gone), NEW gone1,
         gone \subseteq gone1, ~Up(d), d.tx = <<>> \/ (d.tx = c.tx /\ d.unacked_seq = c.unacked_seq),
         c.tx # <<>> => ~Talks(c) \/ h \in gone1
  PROVE  SndFits(d, c, b, m, n, h, gone1)
<1>1. ~Talks(d)
  BY DEF Up, Talks
<1> QED
  BY <1>1 DEF Snd, SndFits

LEMMA RcvSame ==
  ASSUME NEW c, NEW d, d.state = c.state, d.ack = c.ack, d.rx = c.rx, d.eof = c.eof
  PROVE  RcvFits(d, c)
BY DEF RcvFits, Up, Heard

LEMMA RcvDown ==
  ASSUME NEW c, NEW d, ~Up(d), d.rx = <<>> \/ d.rx = c.rx, d.eof => c.eof
  PROVE  RcvFits(d, c)
BY DEF RcvFits

LEMMA BaseFit ==
  ASSUME TypeInv, NEW b \in Nat, Link(b), NEW h \in Host
  PROVE  /\ Base(h, b) \in Nat /\ Base(h, b) + sent[h] + 1 < MOD
         /\ WayOf(h, Base(h, b)) /\ WayOf(Peer(h), Base(Peer(h), b)) /\ One(conns[h])
<1>1. Base(h, b) \in Nat
  BY IsnTypes DEF Base
<1>2. /\ sent[h] <= Writes[h] /\ Base(h, b) + Writes[h] + 1 < MOD /\ WayOf(h, Base(h, b))
      /\ One(conns[h])
  BY DEF Link
<1>3. sent[h] \in Nat /\ Writes[h] \in Nat /\ MOD \in Nat
  BY TcpAssumption DEF TypeInv, HistOK
<1>4. Base(h, b) + sent[h] + 1 < MOD
  BY <1>1, <1>2, <1>3
<1> QED
  BY <1>1, <1>2, <1>4, Hosts DEF Link

\* The slot of a sender or a receiver, in its direction
LEMMA SlotWay ==
  ASSUME TypeInv, NEW h \in Host, NEW i \in Slot[h], NEW a, NEW b,
         WayOf(h, a), WayOf(Peer(h), b)
  PROVE  /\ Snd(conns[h][i], a, sent[h], h, cut)
         /\ Rcv(conns[h][i], b, sent[Peer(h)], stored[Peer(h)], Len(got[Peer(h)]))
<1>1. i \in DOMAIN conns[h] /\ Peer(Peer(h)) = h
  BY Hosts DEF TypeInv, TablesOK
<1>2. Snd(conns[h][i], a, sent[h], h, cut)
  BY <1>1 DEF WayOf, Way
<1>3. PICK g : g = Peer(h)
  OBVIOUS
<1>4. Rcv(conns[h][i], b, sent[g], stored[g], Len(got[g]))
  BY <1>1, <1>3 DEF WayOf, Way
<1> QED
  BY <1>2, <1>3, <1>4

\* The acknowledgements of a connection that is up
LEMMA SlotAck ==
  ASSUME TypeInv, NEW h \in Host, NEW i \in Slot[h], NEW b \in Nat,
         WayOf(Peer(h), b), Up(conns[h][i])
  PROVE  /\ b <= conns[h][i].ack /\ conns[h][i].ack <= b + sent[Peer(h)] + 1
         /\ conns[h][i].ack > b + stored[Peer(h)]
              => Over(conns[Peer(h)], sent[Peer(h)], stored[Peer(h)], Peer(h), cut)
<1>1. PICK g \in Host : g = Peer(h) /\ Peer(g) = h
  BY Hosts
<1>2. i \in DOMAIN conns[h]
  BY DEF TypeInv, TablesOK
<1>3. WayTypes(b, conns[g], conns[h], By(g), By(h), sent[g], stored[g], got[g])
  BY <1>1, WayTypesOf
<1>4. Way(b, conns[g], conns[h], By(g), By(h), sent[g], stored[g], got[g], g, cut)
  BY <1>1 DEF WayOf
<1>5. PICK x : x = conns[h][i].ack
  OBVIOUS
<1>6. /\ b <= x /\ x <= b + sent[g] + 1
      /\ x > b + stored[g] => Over(conns[g], sent[g], stored[g], g, cut)
  BY <1>2, <1>3, <1>4, <1>5, WayAck
<1> QED
  BY <1>1, <1>5, <1>6

LEMMA OverCut ==
  ASSUME NEW S, NEW m, NEW n, NEW h, NEW gone, Over(S, m, n, h, gone),
         NEW gone1, gone \subseteq gone1
  PROVE  Over(S, m, n, h, gone1)
BY DEF Over

LEMMA OneKept ==
  ASSUME TypeInv, NEW h \in Host, NEW i \in Slot[h], NEW d, Set(h, i, d),
         NEW g \in Host, One(conns[g]),
         Active(d) => Active(conns[h][i]) \/ Silent(conns[h])
  PROVE  One(conns'[g])
<1>1. /\ conns'[h][i] = d
      /\ \A x \in Host : \A j \in Slot[x] : (x = h /\ j = i) \/ conns'[x][j] = conns[x][j]
      /\ DOMAIN conns'[g] = Slot[g]
  BY SlotSet
<1>2. DOMAIN conns[g] = Slot[g] /\ DOMAIN conns[h] = Slot[h]
  BY DEF TypeInv, TablesOK
<1>3. ASSUME NEW j \in Slot[g], NEW k \in Slot[g], Active(conns'[g][j]), Active(conns'[g][k])
      PROVE  j = k
  <2>1. CASE g # h
    BY <1>1, <1>2, <1>3, <2>1 DEF One
  <2>2. CASE g = h /\ Active(conns[h][i])
    <3>1. Active(conns[h][j]) /\ Active(conns[h][k])
      BY <1>1, <1>3, <2>2
    <3> QED
      BY <1>2, <2>2, <3>1 DEF One
  <2>3. CASE g = h /\ ~Active(conns[h][i]) /\ ~Silent(conns[h])
    <3>1. ~Active(d)
      BY <2>3
    <3>2. j # i /\ k # i
      BY <1>1, <1>3, <2>3, <3>1
    <3>3. Active(conns[h][j]) /\ Active(conns[h][k])
      BY <1>1, <1>3, <2>3, <3>2
    <3> QED
      BY <1>2, <2>3, <3>3 DEF One
  <2>4. CASE g = h /\ Silent(conns[h])
    <3>1. j = i /\ k = i
      BY <1>1, <1>2, <1>3, <2>4 DEF Silent
    <3> QED
      BY <3>1
  <2> QED
    BY <2>1, <2>2, <2>3, <2>4
<1> QED
  BY <1>1, <1>3 DEF One

-----------------------------------------------------------------------------
(* How far the handshake has come                                          *)

\* A slot takes a step that brings no connection up.
Turn(h, i, d, new, b) ==
  /\ h = Client => d.lport = conns[h][i].lport /\ d.rport = conns[h][i].rport
  /\ Active(d) => Active(conns[h][i])
  /\ d.eof => \/ conns[h][i].eof
              \/ Active(conns[h][i]) /\ \E s \in By(Peer(h)) : "FIN" \in s.flags
  /\ d.state \in {"SYN_SENT", "SYN_RCVD"} => d.state = conns[h][i].state /\ d.seq = conns[h][i].seq
  /\ new # {} => Active(conns[h][i])
  /\ \A s \in new : /\ s.src = h
                    /\ h = Client /\ Fresh(b) /\ "ACK" \in s.flags => s.ack = b

\* Its history: nothing without a connection, and never on behalf of the peer
Paced(h, i) ==
  /\ Active(conns[h][i]) \/ (sent' = sent /\ stored' = stored /\ got' = got)
  /\ sent'[Peer(h)] = sent[Peer(h)] /\ stored'[h] = stored[h]

LEMMA QuietKept ==
  ASSUME TypeInv, NEW h \in Host, NEW i \in Slot[h], NEW d, NEW new, NEW b,
         Set(h, i, d), net' \subseteq net \cup new, Turn(h, i, d, new, b), Paced(h, i), Quiet
  PROVE  Quiet'
<1>1. h \in {Client, Server} /\ Silent(conns[h])
  BY DEF Quiet, Host
<1>2. ~Active(conns[h][i]) /\ ~conns[h][i].eof
  BY <1>1, NotBlank
<1>3. ~Active(d) /\ ~d.eof /\ net' \subseteq net /\ sent' = sent /\ stored' = stored /\ got' = got
  BY <1>2 DEF Turn, Paced
<1>4. Silent(conns'[Client]) /\ Silent(conns'[Server])
  BY <1>3, BlankSet, Hosts DEF Quiet
<1>5. Mute(net') /\ By(Client)' \subseteq By(Client) /\ By(Server)' \subseteq By(Server)
  BY <1>3 DEF Quiet, Mute, By
<1> QED
  BY <1>3, <1>4, <1>5 DEF Quiet, B

LEMMA FreshKept ==
  ASSUME TypeInv, NEW h \in Host, NEW i \in Slot[h], NEW d, NEW new, NEW b,
         Set(h, i, d), net' \subseteq net \cup new, Turn(h, i, d, new, b), Paced(h, i), Fresh(b)
  PROVE  Fresh(b)'
<1>1. /\ conns'[h][i] = d
      /\ \A g \in Host : \A j \in Slot[g] : (g = h /\ j = i) \/ conns'[g][j] = conns[g][j]
      /\ \A g \in Host : g # h => conns'[g] = conns[g]
  BY SlotSet
<1>2. By(h)' \subseteq By(h) \cup new /\ By(Peer(h))' \subseteq By(Peer(h))
  <2>1. \A s \in new : s.src = h
    BY DEF Turn
  <2> QED
    BY <2>1, ByIs
<1>3. CASE h = Server
  <2>1. ~Active(conns[h][i]) /\ ~conns[h][i].eof
    BY <1>3, NotBlank DEF Fresh
  <2>2. ~Active(d) /\ ~d.eof /\ new = {} /\ sent' = sent /\ stored' = stored
    BY <2>1 DEF Turn, Paced
  <2>3. Silent(conns'[Server])
    BY <1>3, <2>2, BlankSet DEF Fresh
  <2>4. By(Server)' \subseteq By(Server) /\ By(Client)' \subseteq By(Client)
    BY <1>2, <1>3, <2>2, Hosts
  <2>5. conns'[Client] = conns[Client]
    BY <1>1, <1>3, Hosts
  <2> QED
    BY <2>2, <2>3, <2>4, <2>5 DEF Fresh, Mute
<1>4. CASE h = Client
  <2>1. conns'[Server] = conns[Server]
    BY <1>1, <1>4, Hosts
  <2>2. By(Server)' \subseteq By(Server) /\ By(Client)' \subseteq By(Client) \cup new
    BY <1>2, <1>4, Hosts
  <2>3. \A s \in By(Server) : "FIN" \notin s.flags
    BY DEF Fresh, Mute
  <2>4. ~d.eof
    BY <1>4, <2>3, Hosts DEF Turn, Fresh
  <2>5. \A j \in Slot[Client] : ~conns'[Client][j].eof
    BY <1>1, <1>4, <2>4 DEF Fresh
  <2>6. \A s \in By(Client)' : "ACK" \in s.flags => s.ack = b
    BY <1>4, <2>2 DEF Turn, Fresh
  <2>7. sent'[Server] = 0 /\ stored'[Client] = 0
    BY <1>4, Hosts DEF Paced, Fresh
  <2> QED
    BY <2>1, <2>2, <2>5, <2>6, <2>7 DEF Fresh, Mute
<1> QED
  BY <1>3, <1>4 DEF Host

LEMMA MetKept ==
  ASSUME TypeInv, NEW h \in Host, NEW i \in Slot[h], NEW d, NEW new, NEW b \in Nat,
         Set(h, i, d), Turn(h, i, d, new, b), Met(b),
         isn'[Server] \in Nat, isn[Server] <= isn'[Server]
  PROVE  Met(b)'
<1>1. /\ conns'[h][i] = d
      /\ \A g \in Host : \A j \in Slot[g] : (g = h /\ j = i) \/ conns'[g][j] = conns[g][j]
  BY SlotSet
<1>2. b + Writes[Server] < isn'[Server]
  BY IsnTypes DEF Met
<1>3. ASSUME NEW j \in Slot[Server], conns'[Server][j].state = "SYN_RCVD"
      PROVE  conns'[Server][j].seq \notin b .. b + Writes[Server] + 1
  <2>1. CASE h = Server /\ j = i
    BY <1>1, <1>3, <2>1 DEF Met, Turn
  <2>2. CASE ~(h = Server /\ j = i)
    BY <1>1, <1>3, <2>2, Hosts DEF Met
  <2> QED
    BY <2>1, <2>2
<1> QED
  BY <1>2, <1>3 DEF Met, B

LEMMA PhaseKept ==
  ASSUME TypeInv, NEW h \in Host, NEW i \in Slot[h], NEW d, NEW new, NEW b \in Nat,
         Set(h, i, d), net' \subseteq net \cup new, Turn(h, i, d, new, b), Paced(h, i),
         isn' = isn, pending' = pending, Quiet \/ Linked(b)
  PROVE  (Quiet \/ Linked(b))'
<1>1. CASE Quiet
  BY <1>1, QuietKept
<1>2. CASE Linked(b)
  <2>1. /\ conns'[h][i] = d
        /\ \A g \in Host : \A j \in Slot[g] : (g = h /\ j = i) \/ conns'[g][j] = conns[g][j]
    BY SlotSet
  <2>2. isn'[Server] \in Nat /\ isn[Server] <= isn'[Server]
    BY IsnTypes
  <2>3. Fresh(b)' \/ Met(b)'
    BY <1>2, <2>2, FreshKept, MetKept DEF Linked
  <2>4. \E k \in Slot[Client] : Mine(conns'[Client][k])
    <3>1. PICK k \in Slot[Client] : Mine(conns[Client][k])
      BY <1>2 DEF Linked
    <3>2. Mine(conns'[Client][k])
      BY <2>1, <3>1, Hosts DEF Mine, Turn
    <3> QED
      BY <3>2
  <2>5. \A j \in Slot[Client] : conns'[Client][j].state # "SYN_SENT"
    BY <1>2, <2>1, Hosts DEF Linked, Turn
  <2> QED
    BY <1>2, <2>3, <2>4, <2>5 DEF Linked, Mine, B
<1> QED
  BY <1>1, <1>2

\* While the server's connection is not up, what the client acknowledges is its base.
LEMMA FreshAck ==
  ASSUME TypeInv, NEW b \in Nat, WayOf(Server, b), Fresh(b), NEW i \in Slot[Client],
         Up(conns[Client][i])
  PROVE  conns[Client][i].ack = b
<1>1. i \in DOMAIN conns[Client] /\ Peer(Server) = Client
  BY Hosts DEF TypeInv, TablesOK
<1>2. /\ Rcv(conns[Client][i], b, sent[Server], stored[Server], Len(got[Server]))
      /\ stored[Server] <= sent[Server]
  BY <1>1 DEF WayOf, Way
<1>3. stored[Server] \in Nat /\ sent[Server] = 0
  BY Hosts DEF TypeInv, HistOK, Fresh
<1>4. stored[Server] = 0
  BY <1>2, <1>3
<1>5. ~conns[Client][i].eof
  BY DEF Fresh
<1>6. conns[Client][i].ack = b + 0
  BY <1>2, <1>4, <1>5 DEF Rcv
<1> QED
  BY <1>6

\* What a step shows about its own host and its peer
LEMMA LinkFrom ==
  ASSUME TypeInv, NEW b \in Nat, Link(b), NEW h \in Host,
         WayOf(h, Base(h, b))', WayOf(Peer(h), Base(Peer(h), b))',
         \A g \in Host : One(conns'[g]) /\ sent'[g] <= Writes[g], (Quiet \/ Linked(b))'
  PROVE  Link(b)'
<1>1. PICK g \in Host : g = Peer(h) /\ \A x \in Host : x = h \/ x = g
  BY Hosts DEF Host
<1>2. WayOf(h, Base(h, b))' /\ WayOf(g, Base(g, b))'
  BY <1>1
<1>3. \A x \in Host : WayOf(x, Base(x, b))'
  BY <1>1, <1>2
<1>4. \A x \in Host : Base(x, b) + Writes[x] + 1 < MOD
  BY DEF Link
<1> QED
  BY <1>3, <1>4 DEF Link, Base, B

-----------------------------------------------------------------------------
(* Steps that carry no new bytes                                           *)

LEMMA BaseIs == ASSUME NEW b PROVE Base(Client, b) = B /\ Base(Server, b) = b
BY Hosts DEF Base

\* What a connection that is up sends fits the direction of its peer.
LEMMA AckAirs ==
  ASSUME TypeInv, NEW b \in Nat, Link(b), NEW h \in Host, NEW i \in Slot[h], Up(conns[h][i]),
         NEW s, s.src = h, s.ack = conns[h][i].ack, Outgoing(s, Base(h, b), sent[h]),
         NEW S2, NEW gone, cut \subseteq gone,
         "FIN" \in s.flags => Over(S2, sent[h], stored[h], h, gone)
  PROVE  /\ Airs(s, h, Base(h, b), Base(Peer(h), b), conns[Peer(h)], S2, gone)
         /\ h = Client /\ Fresh(b) => s.ack = b
<1>1. PICK g \in Host : g = Peer(h) /\ Peer(g) = h
  BY Hosts
<1>2. PICK a \in Nat : a = Base(g, b) /\ WayOf(g, a)
  BY BaseFit
<1>3. /\ a <= s.ack /\ s.ack <= a + sent[g] + 1
      /\ s.ack > a + stored[g] => Over(conns[g], sent[g], stored[g], g, cut)
  BY <1>1, <1>2, SlotAck
<1>4. s.ack > a + stored[g] => Over(conns[g], sent[g], stored[g], g, gone)
  BY <1>3, OverCut
<1>5. h = Client /\ Fresh(b) => s.ack = b
  <2>1. h = Client => WayOf(Server, b)
    BY <1>1, <1>2, Hosts, BaseIs
  <2> QED
    BY <2>1, FreshAck
<1>6. Comes(s, a, sent[g])
  BY <1>3 DEF Comes
<1> QED
  BY <1>1, <1>2, <1>4, <1>5, <1>6 DEF Airs

LEMMA StepLink ==
  ASSUME TypeInv, NEW b \in Nat, Link(b), NEW h \in Host, NEW i \in Slot[h], NEW d, Set(h, i, d),
         SndFits(d, conns[h][i], Base(h, b), sent[h], stored[h], h, cut'),
         RcvFits(d, conns[h][i]),
         NEW new, net' \subseteq net \cup new, cut \subseteq cut',
         \A s \in new : Airs(s, h, Base(h, b), Base(Peer(h), b), conns[Peer(h)], conns'[h], cut'),
         sent' = sent, stored' = stored, got' = got, isn' = isn, pending' = pending,
         Turn(h, i, d, new, b)
  PROVE  Link(b)'
<1>1. WayOf(h, Base(h, b)) /\ WayOf(Peer(h), Base(Peer(h), b))
  BY BaseFit
<1>2. PICK a, c : a = Base(h, b) /\ c = Base(Peer(h), b)
  OBVIOUS
<1>3. WayOf(h, a)' /\ WayOf(Peer(h), c)'
  BY <1>1, <1>2, Keeping
<1>4. a = Base(h, b)' /\ c = Base(Peer(h), b)'
  BY <1>2 DEF Base, B
<1>5. WayOf(h, Base(h, b))' /\ WayOf(Peer(h), Base(Peer(h), b))'
  BY <1>3, <1>4
<1>6. Quiet \/ Linked(b)
  BY DEF Link
<1>7. Paced(h, i)
  BY DEF Paced
<1>8. (Quiet \/ Linked(b))'
  BY <1>6, <1>7, PhaseKept
<1>9. Active(d) => Active(conns[h][i])
  BY DEF Turn
<1>10. ASSUME NEW g \in Host PROVE One(conns'[g]) /\ sent'[g] <= Writes[g]
  <2>1. One(conns[g]) /\ sent[g] <= Writes[g]
    BY DEF Link
  <2>2. One(conns'[g])
    BY <1>9, <2>1, OneKept
  <2> QED
    BY <2>1, <2>2
<1> QED
  BY <1>5, <1>8, <1>10, LinkFrom

\* The slot keeps its numbers and buffers.
LEMMA TwinLink ==
  ASSUME TypeInv, NEW b \in Nat, Link(b), NEW h \in Host, NEW i \in Slot[h], NEW d, NEW new,
         Moves(h, i, d, new), KeptFields(d, conns[h][i]), d.state = conns[h][i].state,
         d.ack = conns[h][i].ack, d.eof = conns[h][i].eof, new # {} => Up(conns[h][i]),
         \A s \in new : /\ s.src = h /\ s.ack = conns[h][i].ack /\ s.flags = {"ACK"}
                        /\ Outgoing(s, Base(h, b), sent[h]),
         sent' = sent, stored' = stored, got' = got, isn' = isn, pending' = pending, cut' = cut
  PROVE  Link(b)'
<1>1. PICK c : c = conns[h][i]
  OBVIOUS
<1>2. PICK a \in Nat : a = Base(h, b) /\ WayOf(h, a) /\ WayOf(Peer(h), Base(Peer(h), b))
  BY BaseFit
<1>3. Snd(c, a, sent[h], h, cut)
  BY <1>1, <1>2, SlotWay
<1>4. SndFits(d, c, a, sent[h], stored[h], h, cut')
  BY <1>1, <1>3, SndSame DEF KeptFields
<1>5. RcvFits(d, c)
  BY <1>1, RcvSame DEF KeptFields
<1>6. ASSUME NEW s \in new
      PROVE  /\ Airs(s, h, a, Base(Peer(h), b), conns[Peer(h)], conns'[h], cut')
             /\ h = Client /\ Fresh(b) => s.ack = b
  <2>1. "FIN" \notin s.flags /\ Up(conns[h][i])
    OBVIOUS
  <2> QED
    BY <1>2, <2>1, AckAirs
<1>7. Active(d) <=> Active(c)
  BY <1>1 DEF Active, Up, KeptFields
<1>8. Up(c) => Active(c)
  BY DEF Active
<1>9. Turn(h, i, d, new, b)
  BY <1>1, <1>6, <1>7, <1>8 DEF Turn, KeptFields
<1>10. Set(h, i, d) /\ net' = net \cup new
  BY DEF Moves
<1> QED
  BY <1>1, <1>2, <1>4, <1>5, <1>6, <1>9, <1>10, StepLink

\* The connections stay; RSTs may come, segments may go.
LEMMA RestLink ==
  ASSUME TypeInv, NEW b \in Nat, Link(b), conns' = conns, cut \subseteq cut',
         NEW new, net' \subseteq net \cup new, \A s \in new : s.data = <<>> /\ s.flags = {"RST"},
         sent' = sent, stored' = stored, got' = got, isn' = isn,
         \A h \in Host : pending'[h] = None \/ pending'[h] = pending[h]
  PROVE  Link(b)'
<1>1. \A s \in new : s.data = <<>> /\ "FIN" \notin s.flags /\ "ACK" \notin s.flags
  OBVIOUS
<1>2. ASSUME NEW h \in Host PROVE WayOf(h, Base(h, b))'
  <2>1. PICK a : a = Base(h, b) /\ WayOf(h, a)
    BY BaseFit
  <2>2. WayOf(h, a)'
    BY <1>1, <2>1, Resting
  <2>3. a = Base(h, b)'
    BY <2>1 DEF Base, B
  <2> QED
    BY <2>2, <2>3
<1>3. By(Client)' \subseteq By(Client) \cup new /\ By(Server)' \subseteq By(Server) \cup new
  BY DEF By
<1>4. Quiet => Quiet'
  <2>1. Mute(net) => Mute(net')
    BY <1>1 DEF Mute
  <2> QED
    BY <1>1, <1>3, <2>1 DEF Quiet, B
<1>5. Linked(b) => Linked(b)'
  <2>1. Fresh(b) => Fresh(b)'
    BY <1>1, <1>3 DEF Fresh, Mute
  <2>2. Met(b) => Met(b)'
    BY DEF Met, B
  <2>3. pending[Client] = None => pending'[Client] = None
    BY Hosts
  <2> QED
    BY <2>1, <2>2, <2>3 DEF Linked, Mine, B
<1>6. Client \in Host /\ \A g \in Host : Peer(g) \in Host
  BY Hosts
<1>7. \A g \in Host : One(conns'[g]) /\ sent'[g] <= Writes[g]
  BY DEF Link
<1>8. (Quiet \/ Linked(b))'
  BY <1>4, <1>5 DEF Link
<1> QED
  BY <1>2, <1>6, <1>7, <1>8, LinkFrom

\* A slot goes down: it sends nothing, and forgets no byte on its way to the peer.
LEMMA DownLink ==
  ASSUME TypeInv, NEW b \in Nat, Link(b), NEW h \in Host, NEW i \in Slot[h], NEW d, Set(h, i, d),
         net' \subseteq net, cut \subseteq cut', KeptFields(d, conns[h][i]), d.state = "CLOSED",
         d.eof = conns[h][i].eof,
         conns[h][i].tx # <<>> => ~Talks(conns[h][i]) \/ h \in cut',
         sent' = sent, stored' = stored, got' = got, isn' = isn, pending' = pending
  PROVE  Link(b)'
<1>1. PICK c : c = conns[h][i]
  OBVIOUS
<1>2. PICK a \in Nat : a = Base(h, b) /\ WayOf(h, a) /\ WayOf(Peer(h), Base(Peer(h), b))
  BY BaseFit
<1>3. Snd(c, a, sent[h], h, cut)
  BY <1>1, <1>2, SlotWay
<1>4. ~Up(d)
  BY DEF Up
<1>5. SndFits(d, c, a, sent[h], stored[h], h, cut')
  BY <1>1, <1>3, <1>4, SndDown DEF KeptFields
<1>6. RcvFits(d, c)
  BY <1>1, <1>4, RcvDown DEF KeptFields
<1>7. PICK e : e = {}
  OBVIOUS
<1>8. Turn(h, i, d, e, b)
  BY <1>4, <1>7 DEF Turn, KeptFields, Active
<1>9. \A s \in e : Airs(s, h, a, Base(Peer(h), b), conns[Peer(h)], conns'[h], cut')
  BY <1>7
<1>10. net' \subseteq net \cup e
  BY <1>7
<1> QED
  BY <1>1, <1>2, <1>5, <1>6, <1>8, <1>9, <1>10, StepLink

LEMMA AcceptLink ==
  ASSUME TypeInv, NEW b \in Nat, Link(b), NEW h \in Host, NEW l, net_tcp_accept(h, l)
  PROVE  Link(b)'
<1>1. PICK i \in Slot[h] : \E d :
           /\ Moves(h, i, d, {}) /\ held' = [held EXCEPT ![h] = @ \cup {i}]
           /\ KeptFields(d, conns[h][i]) /\ d.state = conns[h][i].state /\ d.ack = conns[h][i].ack
           /\ d.eof = conns[h][i].eof /\ d.in_use = conns[h][i].in_use
           /\ d.state = "ESTABLISHED"
  BY AcceptDoes
<1>2. PICK d, e : /\ e = {} /\ Moves(h, i, d, e)
                  /\ KeptFields(d, conns[h][i]) /\ d.state = conns[h][i].state
                  /\ d.ack = conns[h][i].ack /\ d.eof = conns[h][i].eof
  BY <1>1
<1>3. UNCHANGED <<sent, stored, got, isn, pending, cut>>
  BY DEF net_tcp_accept, hist
<1> QED
  BY <1>2, <1>3, TwinLink

LEMMA RetransmitLink ==
  ASSUME TypeInv, Shape, NEW b \in Nat, Link(b), NEW h \in Host, NEW i \in Slot[h],
         Retransmit(h, i)
  PROVE  Link(b)'
<1>1. conns[h][i].in_use /\ conns[h][i].tx # <<>>
  BY RetransmitDoes
<1>2. PICK d, new :
        /\ Moves(h, i, d, new) /\ KeptFields(d, conns[h][i]) /\ d.state = conns[h][i].state
        /\ d.ack = conns[h][i].ack /\ d.eof = conns[h][i].eof
        /\ \A s \in new : /\ s.src = h /\ s.flags = {"ACK"} /\ s.data = conns[h][i].tx
                          /\ s.seq = conns[h][i].unacked_seq /\ s.ack = conns[h][i].ack
  BY RetransmitDoes
<1>3. UNCHANGED <<sent, stored, got, isn, pending, cut>>
  BY DEF Retransmit, hist
<1>4. PICK c : c = conns[h][i]
  OBVIOUS
<1>5. Up(c)
  BY <1>1, <1>4 DEF Shape, KeepsOK, Keeps
<1>6. PICK a \in Nat : a = Base(h, b) /\ WayOf(h, a) /\ WayOf(Peer(h), Base(Peer(h), b))
  BY BaseFit
<1>7. Snd(c, a, sent[h], h, cut)
  BY <1>4, <1>6, SlotWay
<1>8. /\ a <= c.unacked_seq /\ c.unacked_seq + Len(c.tx) = a + sent[h]
      /\ From(c.tx, c.unacked_seq - a)
  BY <1>1, <1>4, <1>7 DEF Snd
<1>9. c \in Conns /\ sent[h] \in Nat
  BY <1>4 DEF TypeInv, TablesOK, Sized, HistOK
<1>10. c.unacked_seq \in Nat /\ Len(c.tx) \in Nat
  BY <1>9, Fields
<1>11. c.unacked_seq + Len(c.tx) <= a + sent[h]
  BY <1>8, <1>9, <1>10
<1>12. ASSUME NEW s \in new PROVE Outgoing(s, a, sent[h])
  <2>1. s.data = c.tx /\ s.seq = c.unacked_seq /\ "FIN" \notin s.flags
    BY <1>2, <1>4
  <2> QED
    BY <1>8, <1>11, <2>1 DEF Outgoing
<1> QED
  BY <1>2, <1>3, <1>4, <1>5, <1>6, <1>12, TwinLink

LEMMA TimeoutLink ==
  ASSUME TypeInv, NEW b \in Nat, Link(b), NEW h \in Host, NEW i \in Slot[h], ConnectTimeout(h, i)
  PROVE  Link(b)'
<1>1. conns[h][i].state = "SYN_SENT"
  BY TimeoutDoes
<1>2. PICK d :    /\ Moves(h, i, d, {}) /\ d.state = "CLOSED" /\ ~d.in_use /\ d.seq = conns[h][i].seq
                   /\ d.ack = conns[h][i].ack /\ d.rx = conns[h][i].rx /\ d.tx = conns[h][i].tx
                   /\ d.unacked_seq = conns[h][i].unacked_seq /\ d.eof = conns[h][i].eof
                   /\ d.lport = conns[h][i].lport /\ d.rport = conns[h][i].rport
  BY TimeoutDoes
<1>3. Set(h, i, d) /\ net' \subseteq net /\ KeptFields(d, conns[h][i])
  BY <1>2 DEF Moves, KeptFields
<1>4. ~Talks(conns[h][i])
  BY <1>1 DEF Talks
<1>5. UNCHANGED <<sent, stored, got, isn, pending, cut>>
  BY DEF ConnectTimeout, hist
<1> QED
  BY <1>2, <1>3, <1>4, <1>5, DownLink

LEMMA ForgeLink ==
  ASSUME TypeInv, NEW b \in Nat, Link(b), NEW h \in Host, NEW i \in Slot[h], Forge(h, i)
  PROVE  Link(b)'
<1>1. PICK s \in Segments : /\ net' = net \cup {s} /\ s.flags = {"RST"} /\ s.data = <<>>
  BY ForgeDoes
<1>2. PICK new : new = {s}
  OBVIOUS
<1>3. net' \subseteq net \cup new /\ \A x \in new : x.data = <<>> /\ x.flags = {"RST"}
  BY <1>1, <1>2
<1>4. conns' = conns /\ cut \subseteq cut'
  BY ForgeDoes DEF TypeInv, HistOK
<1>5. UNCHANGED <<sent, stored, got, isn, pending>>
  BY DEF Forge
<1>6. \A g \in Host : pending'[g] = None \/ pending'[g] = pending[g]
  BY <1>5
<1> QED
  BY <1>3, <1>4, <1>5, <1>6, RestLink

LEMMA LoseLink ==
  ASSUME TypeInv, NEW b \in Nat, Link(b), NEW s \in net, Lose(s)
  PROVE  Link(b)'
<1>1. PICK e : e = {}
  OBVIOUS
<1>2. net' \subseteq net \cup e /\ \A x \in e : x.data = <<>> /\ x.flags = {"RST"}
  BY <1>1 DEF Lose
<1>3. UNCHANGED <<conns, sent, stored, got, isn, pending, cut>>
  BY DEF Lose, hist
<1>4. \A g \in Host : pending'[g] = None \/ pending'[g] = pending[g]
  BY <1>3
<1> QED
  BY <1>2, <1>3, <1>4, RestLink

\* net_tcp_close: the FIN is behind all that was sent.
LEMMA FinLink ==
  ASSUME TypeInv, NEW b \in Nat, Link(b), NEW h \in Host, NEW i \in Slot[h], NEW d, NEW new,
         Moves(h, i, d, new), conns[h][i].state \in {"ESTABLISHED", "CLOSE_WAIT"},
         d.state = IF conns[h][i].state = "ESTABLISHED" THEN "FIN_WAIT_1" ELSE "LAST_ACK",
         d.rx = conns[h][i].rx, d.tx = conns[h][i].tx, d.ack = conns[h][i].ack,
         d.eof = conns[h][i].eof, d.unacked_seq = conns[h][i].unacked_seq,
         d.lport = conns[h][i].lport, d.rport = conns[h][i].rport,
         d.seq = Plus(conns[h][i].seq, 1),
         Sends(new, h, conns[h][i], {"ACK", "FIN"}, <<>>),
         cut' = IF conns[h][i].tx # <<>> THEN cut \cup {h} ELSE cut,
         sent' = sent, stored' = stored, got' = got, isn' = isn, pending' = pending
  PROVE  Link(b)'
<1>1. PICK c : c = conns[h][i]
  OBVIOUS
<1>2. PICK a \in Nat : /\ a = Base(h, b) /\ WayOf(h, a) /\ WayOf(Peer(h), Base(Peer(h), b))
                       /\ One(conns[h]) /\ a + sent[h] + 1 < MOD
  BY BaseFit
<1>3. Snd(c, a, sent[h], h, cut)
  BY <1>1, <1>2, SlotWay
<1>4. Up(c) /\ Talks(c) /\ Active(c) /\ Up(d) /\ ~Talks(d)
  BY <1>1 DEF Up, Talks, Active
<1>5. c.seq = a + sent[h] /\ d.seq = a + sent[h] + 1
  <2>1. sent[h] \in Nat
    BY DEF TypeInv, HistOK
  <2>2. c.seq = a + sent[h]
    BY <1>2, <1>3, <1>4, <2>1 DEF Snd
  <2>3. Plus(a + sent[h], 1) = a + sent[h] + 1
    BY <1>2, <2>1, PlusIs
  <2> QED
    BY <1>1, <2>2, <2>3
<1>6. cut \subseteq cut' /\ (c.tx # <<>> => h \in cut')
  BY <1>1
<1>7. SndFits(d, c, a, sent[h], stored[h], h, cut')
  <2>1. d.seq = a + sent[h] + IF Talks(d) THEN 0 ELSE 1
    BY <1>4, <1>5
  <2>2. d.tx = c.tx /\ d.unacked_seq = c.unacked_seq
    BY <1>1
  <2> QED
    BY <1>4, <1>6, <2>1, <2>2 DEF SndFits
<1>8. RcvFits(d, c)
  <2>1. Heard(d) <=> Heard(c)
    BY <1>1 DEF Heard
  <2> QED
    BY <1>1, <1>4, <2>1 DEF RcvFits
<1>9. Set(h, i, d) /\ net' = net \cup new
  BY DEF Moves
<1>10. Over(conns'[h], sent[h], stored[h], h, cut')
  <2>1. /\ conns'[h][i] = d
        /\ \A j \in Slot[h] : j = i \/ conns'[h][j] = conns[h][j]
        /\ DOMAIN conns'[h] = Slot[h] /\ DOMAIN conns[h] = Slot[h]
    BY <1>9, SlotSet DEF TypeInv, TablesOK
  <2>2. ASSUME NEW j \in Slot[h] PROVE ~Talks(conns'[h][j])
    <3>1. CASE j = i
      BY <1>4, <2>1, <3>1
    <3>2. CASE j # i
      <4>1. ~Up(conns[h][j])
        BY <1>1, <1>2, <1>4, <2>1, <3>2, NotLive
      <4> QED
        BY <2>1, <3>2, <4>1 DEF Up, Talks
    <3> QED
      BY <3>1, <3>2
  <2>3. h \in cut \/ stored[h] = sent[h] \/ \E j \in Slot[h] : conns[h][j].tx # <<>>
    BY <1>2, <2>1 DEF WayOf, Way
  <2>4. ASSUME NEW j \in Slot[h], conns[h][j].tx # <<>> PROVE h \in cut'
    <3>1. j = i
      BY <1>1, <1>2, <1>4, <2>1, <2>4, NotLive
    <3> QED
      BY <1>1, <1>6, <2>4, <3>1
  <2> QED
    BY <1>6, <2>1, <2>2, <2>3, <2>4 DEF Over
<1>11. ASSUME NEW s \in new
       PROVE  /\ Airs(s, h, a, Base(Peer(h), b), conns[Peer(h)], conns'[h], cut')
              /\ h = Client /\ Fresh(b) => s.ack = b
  <2>1. s.src = h /\ s.data = <<>> /\ s.seq = c.seq /\ s.ack = c.ack
    BY <1>1 DEF Sends
  <2>2. Outgoing(s, a, sent[h])
    BY <1>5, <2>1 DEF Outgoing
  <2>3. Outgoing(s, Base(h, b), sent[h]) /\ s.ack = conns[h][i].ack /\ Up(conns[h][i])
    BY <1>1, <1>2, <1>4, <2>1, <2>2
  <2>4. /\ Airs(s, h, Base(h, b), Base(Peer(h), b), conns[Peer(h)], conns'[h], cut')
        /\ h = Client /\ Fresh(b) => s.ack = b
    BY <1>6, <1>10, <2>1, <2>3, AckAirs
  <2> QED
    BY <1>2, <2>4
<1>12. Turn(h, i, d, new, b)
  <2>1. d.state \notin {"SYN_SENT", "SYN_RCVD"}
    OBVIOUS
  <2>2. \A s \in new : s.src = h
    BY DEF Sends
  <2> QED
    BY <1>1, <1>4, <1>11, <2>1, <2>2 DEF Turn
<1> QED
  BY <1>1, <1>2, <1>6, <1>7, <1>8, <1>9, <1>11, <1>12, StepLink

LEMMA CloseLink ==
  ASSUME TypeInv, NEW b \in Nat, Link(b), NEW h \in Host, NEW i \in held[h], net_tcp_close(h, i)
  PROVE  Link(b)'
<1>1. /\ i \in Slot[h]
      /\ cut' = IF conns[h][i].tx # <<>> THEN cut \cup {h} ELSE cut
      /\ cut \subseteq cut'
  BY CloseDoes
<1>2. UNCHANGED <<sent, stored, got, isn, pending>>
  BY DEF net_tcp_close
<1>3. CASE ~conns[h][i].in_use /\ conns' = conns /\ net' = net
  <2>1. PICK e : e = {}
    OBVIOUS
  <2>2. net' \subseteq net \cup e /\ \A x \in e : x.data = <<>> /\ x.flags = {"RST"}
    BY <1>3, <2>1
  <2>3. \A g \in Host : pending'[g] = None \/ pending'[g] = pending[g]
    BY <1>2
  <2> QED
    BY <1>1, <1>2, <1>3, <2>2, <2>3, RestLink
<1>4. ASSUME NEW d, NEW new, Moves(h, i, d, new),
             d.rx = conns[h][i].rx, d.tx = conns[h][i].tx, d.ack = conns[h][i].ack,
             d.eof = conns[h][i].eof, d.unacked_seq = conns[h][i].unacked_seq,
             d.lport = conns[h][i].lport, d.rport = conns[h][i].rport,
             conns[h][i].state \in {"ESTABLISHED", "CLOSE_WAIT"},
             d.state = IF conns[h][i].state = "ESTABLISHED" THEN "FIN_WAIT_1" ELSE "LAST_ACK",
             d.seq = Plus(conns[h][i].seq, 1),
             Sends(new, h, conns[h][i], {"ACK", "FIN"}, <<>>)
      PROVE  Link(b)'
  BY <1>1, <1>2, <1>4, FinLink
<1>5. ASSUME NEW d, NEW new, Moves(h, i, d, new),
             d.rx = conns[h][i].rx, d.tx = conns[h][i].tx, d.ack = conns[h][i].ack,
             d.eof = conns[h][i].eof, d.unacked_seq = conns[h][i].unacked_seq,
             d.lport = conns[h][i].lport, d.rport = conns[h][i].rport,
             conns[h][i].state \notin {"ESTABLISHED", "CLOSE_WAIT"},
             d.state = "CLOSED", d.seq = conns[h][i].seq, new = {}
      PROVE  Link(b)'
  <2>1. Set(h, i, d) /\ net' \subseteq net /\ KeptFields(d, conns[h][i])
    BY <1>5 DEF Moves, KeptFields
  <2>2. ~Talks(conns[h][i])
    BY <1>5 DEF Talks
  <2> QED
    BY <1>1, <1>2, <1>5, <2>1, <2>2, DownLink
<1>6. \/ ~conns[h][i].in_use /\ conns' = conns /\ net' = net
      \/ \E d, new :
                 /\ Moves(h, i, d, new)
                 /\ d.rx = conns[h][i].rx /\ d.tx = conns[h][i].tx
                 /\ d.ack = conns[h][i].ack /\ d.eof = conns[h][i].eof
                 /\ d.unacked_seq = conns[h][i].unacked_seq
                 /\ d.lport = conns[h][i].lport /\ d.rport = conns[h][i].rport
                 /\ \/ /\ conns[h][i].state \in {"ESTABLISHED", "CLOSE_WAIT"}
                       /\ d.state = IF conns[h][i].state = "ESTABLISHED" THEN "FIN_WAIT_1"
                                                                         ELSE "LAST_ACK"
                       /\ d.seq = Plus(conns[h][i].seq, 1)
                       /\ Sends(new, h, conns[h][i], {"ACK", "FIN"}, <<>>)
                    \/ /\ conns[h][i].state \notin {"ESTABLISHED", "CLOSE_WAIT"}
                       /\ d.state = "CLOSED" /\ d.seq = conns[h][i].seq
                       /\ new = {}
  BY CloseDoes
<1> QED
  BY <1>3, <1>4, <1>5, <1>6

-----------------------------------------------------------------------------
(* Steps that carry bytes                                                  *)

\* The direction of the peer, when h changes a slot and acknowledges
LEMMA PeerWay ==
  ASSUME TypeInv, NEW h \in Host, NEW b, WayOf(Peer(h), b), NEW i \in Slot[h], NEW d, Set(h, i, d),
         RcvFits(d, conns[h][i]), NEW new, net' \subseteq net \cup new, cut \subseteq cut',
         \A s \in new : /\ s.src = h /\ Comes(s, b, sent[Peer(h)])
                        /\ "ACK" \in s.flags /\ s.ack > b + stored[Peer(h)]
                             => Over(conns[Peer(h)], sent[Peer(h)], stored[Peer(h)], Peer(h), cut'),
         sent'[Peer(h)] = sent[Peer(h)], stored'[Peer(h)] = stored[Peer(h)],
         got'[Peer(h)] = got[Peer(h)]
  PROVE  WayOf(Peer(h), b)'
<1>1. PICK g \in Host : g = Peer(h) /\ Peer(g) = h
  BY Hosts
<1>2. Put(conns'[h], conns[h], i, d) /\ conns'[g] = conns[g]
  BY <1>1, PutIs
<1>3. By(h)' \subseteq By(h) \cup new /\ By(g)' \subseteq By(g)
  BY <1>1, ByIs
<1>4. Way(b, conns[g], conns[h], By(g), By(h), sent[g], stored[g], got[g], g, cut')
  BY <1>1, WayCut DEF WayOf
<1>5. Way(b, conns[g], conns'[h], By(g), By(h), sent[g], stored[g], got[g], g, cut')
  BY <1>2, <1>4, RcvSlot
<1>6. Way(b, conns[g], conns'[h], By(g), By(h) \cup new, sent[g], stored[g], got[g], g, cut')
  <2>1. \A s \in new : /\ Comes(s, b, sent[g])
                       /\ "ACK" \in s.flags /\ s.ack > b + stored[g]
                            => Over(conns[g], sent[g], stored[g], g, cut')
    BY <1>1
  <2> QED
    BY <1>5, <2>1, WayBack
<1>7. Way(b, conns[g], conns'[h], By(g)', By(h)', sent[g], stored[g], got[g], g, cut')
  BY <1>3, <1>6, WayLess
<1>8. sent'[g] = sent[g] /\ stored'[g] = stored[g] /\ got'[g] = got[g]
  BY <1>1
<1> QED
  BY <1>1, <1>2, <1>7, <1>8 DEF WayOf

\* The direction of h, when it changes a slot and sends no new byte
LEMMA OwnWay ==
  ASSUME TypeInv, NEW h \in Host, NEW a, WayOf(h, a), NEW i \in Slot[h], NEW d, Set(h, i, d),
         SndFits(d, conns[h][i], a, sent[h], stored[h], h, cut'),
         NEW new, net' \subseteq net \cup new, cut \subseteq cut',
         \A s \in new : s.src = h /\ s.data = <<>> /\ "FIN" \notin s.flags,
         sent'[h] = sent[h], stored'[h] = stored[h], got'[h] = got[h]
  PROVE  WayOf(h, a)'
<1>1. PICK g \in Host : g = Peer(h) /\ Peer(g) = h
  BY Hosts
<1>2. Put(conns'[h], conns[h], i, d) /\ conns'[g] = conns[g]
  BY <1>1, PutIs
<1>3. By(h)' \subseteq By(h) \cup new /\ By(g)' \subseteq By(g)
  BY <1>1, ByIs
<1>4. Way(a, conns[h], conns[g], By(h), By(g), sent[h], stored[h], got[h], h, cut')
  BY <1>1, WayCut DEF WayOf
<1>5. Way(a, conns'[h], conns[g], By(h), By(g), sent[h], stored[h], got[h], h, cut')
  BY <1>2, <1>4, SndSlot
<1>6. Way(a, conns'[h], conns[g], By(h) \cup new, By(g), sent[h], stored[h], got[h], h, cut')
  <2>1. \A s \in new : Outgoing(s, a, sent[h])
                       /\ ("FIN" \in s.flags => Over(conns'[h], sent[h], stored[h], h, cut'))
    BY DEF Outgoing
  <2> QED
    BY <1>5, <2>1, WayOut
<1>7. Way(a, conns'[h], conns[g], By(h)', By(g)', sent[h], stored[h], got[h], h, cut')
  BY <1>3, <1>6, WayLess
<1> QED
  BY <1>1, <1>2, <1>7 DEF WayOf

\* A step of a slot that is live, whatever bytes it carries
LEMMA LiveLink ==
  ASSUME TypeInv, NEW b \in Nat, Link(b), NEW h \in Host, NEW i \in Slot[h], NEW d, Set(h, i, d),
         Active(conns[h][i]), NEW new, net' \subseteq net \cup new, Turn(h, i, d, new, b),
         sent'[Peer(h)] = sent[Peer(h)], stored'[h] = stored[h], sent'[h] <= Writes[h],
         isn' = isn, pending' = pending,
         WayOf(h, Base(h, b))', WayOf(Peer(h), Base(Peer(h), b))'
  PROVE  Link(b)'
<1>1. Quiet \/ Linked(b)
  BY DEF Link
<1>2. Paced(h, i)
  BY DEF Paced
<1>3. (Quiet \/ Linked(b))'
  BY <1>1, <1>2, PhaseKept
<1>4. ASSUME NEW g \in Host PROVE One(conns'[g]) /\ sent'[g] <= Writes[g]
  <2>1. One(conns[g]) /\ sent[g] <= Writes[g]
    BY DEF Link
  <2>2. One(conns'[g])
    BY <2>1, OneKept
  <2>3. g = h \/ g = Peer(h)
    BY Hosts DEF Host
  <2> QED
    BY <2>1, <2>2, <2>3
<1> QED
  BY <1>3, <1>4, LinkFrom

LEMMA SendLink ==
  ASSUME TypeInv, NEW b \in Nat, Link(b), NEW h \in Host, NEW i \in held[h], NEW k \in 1 .. MaxLen,
         net_tcp_send(h, i, k)
  PROVE  Link(b)'
<1>1. /\ i \in Slot[h] /\ conns[h][i].state = "ESTABLISHED" /\ conns[h][i].tx = <<>>
      /\ sent[h] + k <= Writes[h] /\ sent' = [sent EXCEPT ![h] = @ + k]
  BY SendDoes
<1>2. PICK q : q = Numbered(h, k)
  OBVIOUS
<1>3. q \in Seq(Nat) /\ Len(q) = k
  BY <1>2, SendDoes
<1>4. PICK c : c = conns[h][i]
  OBVIOUS
<1>5. PICK d, new :
        /\ Moves(h, i, d, new)
        /\ d.seq = Plus(c.seq, k) /\ d.unacked_seq = c.seq
        /\ d.tx = q /\ d.rx = c.rx /\ d.ack = c.ack
        /\ d.lport = c.lport /\ d.rport = c.rport
        /\ d.state = "ESTABLISHED"
        /\ d.eof = c.eof /\ d.in_use = c.in_use
        /\ Sends(new, h, c, {"ACK"}, q)
  BY <1>2, <1>4, SendDoes
<1>6. UNCHANGED <<isn, pending, stored, got, cut>>
  BY DEF net_tcp_send
<1>7. PICK m \in Nat : m = sent[h]
  BY DEF TypeInv, HistOK
<1>8. PICK g \in Host : g = Peer(h) /\ Peer(g) = h /\ g # h
  BY Hosts
<1>9. PICK a \in Nat : /\ a = Base(h, b) /\ WayOf(h, a) /\ WayOf(g, Base(g, b))
                       /\ One(conns[h])
  BY <1>8, BaseFit
<1>10. k \in Nat /\ k > 0 /\ Writes[h] \in Nat /\ MOD \in Nat
  BY TcpAssumption
<1>11. a + m + k < MOD
  <2>1. a + Writes[h] + 1 < MOD
    BY <1>9 DEF Link
  <2>2. m + k <= Writes[h]
    BY <1>1, <1>7
  <2> QED
    BY <1>7, <1>9, <1>10, <2>1, <2>2
<1>12. Up(c) /\ Talks(c) /\ Active(c) /\ Active(d)
  BY <1>1, <1>4, <1>5 DEF Up, Talks, Active
<1>13. c.seq = a + m
  <2>1. Snd(c, a, m, h, cut)
    BY <1>1, <1>4, <1>7, <1>9, SlotWay, <1>8
  <2> QED
    BY <1>7, <1>12, <2>1 DEF Snd
<1>14. d.seq = c.seq + k
  BY <1>5, <1>10, <1>11, <1>13, PlusIs
<1>15. From(q, m)
  <2>1. \A j \in 1 .. k : q[j] = m + j
    BY <1>2, <1>7 DEF Numbered
  <2> QED
    BY <1>3, <2>1 DEF From
<1>16. /\ Set(h, i, d) /\ d \in Conns /\ net' = net \cup new /\ Put(conns'[h], conns[h], i, d)
       /\ conns'[g] = conns[g]
  <2>1. Set(h, i, d) /\ d \in Conns /\ net' = net \cup new
    BY <1>5 DEF Moves, Sized
  <2> QED
    BY <1>1, <1>8, <2>1, PutIs
<1>17. By(h)' \subseteq By(h) \cup new /\ By(g)' \subseteq By(g)
  <2>1. net' \subseteq net \cup new /\ \A s \in new : s.src = h
    BY <1>5, <1>16 DEF Sends
  <2> QED
    BY <1>8, <2>1, ByIs
<1>18. sent'[h] = m + k /\ sent'[g] = sent[g]
  BY <1>1, <1>7, <1>8 DEF TypeInv, HistOK
<1>19. WayOf(h, a)'
  <2>1. WayTypes(a, conns[h], conns[g], By(h), By(g), m, stored[h], got[h])
    BY <1>7, <1>8, WayTypesOf
  <2>2. Way(a, conns[h], conns[g], By(h), By(g), m, stored[h], got[h], h, cut)
    BY <1>7, <1>8, <1>9 DEF WayOf
  <2>3. Way(a, conns'[h], conns[g], By(h), By(g), m + k, stored[h], got[h], h, cut)
    <3>1. conns[h][i].state = "ESTABLISHED" /\ d.state = "ESTABLISHED"
          /\ d.seq = conns[h][i].seq + k /\ d.unacked_seq = conns[h][i].seq
      BY <1>1, <1>4, <1>5, <1>14
    <3>2. Len(d.tx) = k /\ From(d.tx, m)
      BY <1>3, <1>5, <1>15
    <3> QED
      BY <1>9, <1>10, <1>16, <2>1, <2>2, <3>1, <3>2, WaySend
  <2>4. ASSUME NEW s \in new PROVE Outgoing(s, a, m + k) /\ "FIN" \notin s.flags
    <3>1. s.data = q /\ s.seq = a + m /\ s.flags = {"ACK"}
      BY <1>5, <1>13 DEF Sends
    <3>2. a <= a + m /\ a + m + k <= a + (m + k) /\ a + m - a = m
      BY <1>10
    <3>3. s.seq + Len(s.data) <= a + (m + k) /\ From(s.data, s.seq - a) /\ a <= s.seq
      BY <1>3, <1>15, <3>1, <3>2
    <3> QED
      BY <3>1, <3>3 DEF Outgoing
  <2>5. Way(a, conns'[h], conns[g], By(h) \cup new, By(g), m + k, stored[h], got[h], h, cut)
    BY <2>3, <2>4, WayOut
  <2>6. Way(a, conns'[h], conns[g], By(h)', By(g)', m + k, stored[h], got[h], h, cut)
    BY <1>17, <2>5, WayLess
  <2> QED
    BY <1>6, <1>8, <1>16, <1>18, <2>6 DEF WayOf
<1>20. ASSUME NEW s \in new
       PROVE  /\ Comes(s, Base(g, b), sent[g])
              /\ "ACK" \in s.flags /\ s.ack > Base(g, b) + stored[g]
                   => Over(conns[g], sent[g], stored[g], g, cut')
              /\ h = Client /\ Fresh(b) => s.ack = b
              /\ s.src = h
  <2>1. s.src = h /\ s.ack = c.ack
    BY <1>5 DEF Sends
  <2>2. PICK z \in Nat : z = Base(g, b)
    BY BaseFit
  <2>3. /\ z <= c.ack /\ c.ack <= z + sent[g] + 1
        /\ c.ack > z + stored[g] => Over(conns[g], sent[g], stored[g], g, cut)
    BY <1>1, <1>4, <1>8, <1>9, <1>12, <2>2, SlotAck
  <2>4. Comes(s, z, sent[g])
    BY <2>1, <2>3 DEF Comes
  <2>5. h = Client /\ Fresh(b) => s.ack = b
    <3>1. h = Client => WayOf(Server, b)
      BY <1>8, <1>9, Hosts, BaseIs
    <3> QED
      BY <1>1, <1>4, <1>12, <2>1, <3>1, FreshAck
  <2> QED
    BY <1>6, <2>1, <2>2, <2>3, <2>4, <2>5
<1>21. WayOf(g, Base(g, b))'
  <2>1. RcvFits(d, c)
    BY <1>1, <1>4, <1>5, RcvSame
  <2>2. PICK z : z = Base(g, b)
    OBVIOUS
  <2>3. z = Base(g, b)'
    BY <2>2 DEF Base, B
  <2>4. WayOf(g, z)'
    BY <1>1, <1>4, <1>6, <1>8, <1>9, <1>16, <1>18, <1>20, <2>1, <2>2, PeerWay
  <2> QED
    BY <2>3, <2>4
<1>22. Turn(h, i, d, new, b)
  BY <1>4, <1>5, <1>12, <1>20 DEF Turn
<1>23. WayOf(h, Base(h, b))'
  <2>1. a = Base(h, b)'
    BY <1>9 DEF Base, B
  <2> QED
    BY <1>19, <2>1
<1>24. sent'[h] <= Writes[h]
  BY <1>1, <1>7, <1>18
<1> QED
  BY <1>1, <1>4, <1>6, <1>8, <1>12, <1>16, <1>18, <1>21, <1>22, <1>23, <1>24, LiveLink

LEMMA RecvLink ==
  ASSUME TypeInv, NEW b \in Nat, Link(b), NEW h \in Host, NEW i \in held[h],
         NEW k \in 1 .. Len(conns[h][i].rx), net_tcp_recv(h, i, k)
  PROVE  Link(b)'
<1>1. PICK c : c = conns[h][i]
  OBVIOUS
<1>2. PICK q : q = SubSeq(c.rx, 1, k)
  OBVIOUS
<1>3. PICK g \in Host : g = Peer(h) /\ Peer(g) = h /\ g # h
  BY Hosts
<1>4. /\ i \in Slot[h] /\ k <= Len(c.rx) /\ got' = [got EXCEPT ![g] = @ \o q]
  <2>1. /\ i \in Slot[h] /\ k <= Len(conns[h][i].rx)
        /\ got' = [got EXCEPT ![Peer(h)] = @ \o SubSeq(conns[h][i].rx, 1, k)]
    BY RecvDoes
  <2> QED
    BY <1>1, <1>2, <1>3, <2>1
<1>5. PICK d, new :
        /\ Moves(h, i, d, new)
        /\ d.rx = SubSeq(c.rx, k + 1, Len(c.rx))
        /\ d.seq = c.seq /\ d.ack = c.ack /\ d.tx = c.tx
        /\ d.unacked_seq = c.unacked_seq
        /\ d.lport = c.lport /\ d.rport = c.rport
        /\ d.state = c.state
        /\ d.eof = c.eof /\ d.in_use = c.in_use
        /\ new # {} => d.state \in {"ESTABLISHED", "CLOSE_WAIT"}
        /\ Sends(new, h, d, {"ACK"}, <<>>)
  BY <1>1, RecvDoes
<1>6. UNCHANGED <<isn, pending, sent, stored, cut>>
  BY DEF net_tcp_recv
<1>7. c \in Conns
  BY <1>1, <1>4 DEF TypeInv, TablesOK, Sized
<1>8. k \in Nat /\ k > 0 /\ Len(c.rx) \in Nat
  BY <1>1, <1>7, Fields
<1>9. c.rx # <<>> /\ Active(c)
  <2>1. c.rx # <<>>
    BY <1>4, <1>8
  <2> QED
    BY <2>1 DEF Active
<1>10. PICK a \in Nat, z \in Nat : /\ a = Base(h, b) /\ WayOf(h, a)
                                   /\ z = Base(g, b) /\ WayOf(g, z) /\ One(conns[h])
  BY <1>3, BaseFit
<1>11. /\ Set(h, i, d) /\ d \in Conns /\ net' = net \cup new /\ Put(conns'[h], conns[h], i, d)
       /\ conns'[g] = conns[g]
  <2>1. Set(h, i, d) /\ d \in Conns /\ net' = net \cup new
    BY <1>5 DEF Moves, Sized
  <2> QED
    BY <1>3, <1>4, <2>1, PutIs
<1>12. \A s \in new : /\ s.src = h /\ s.data = <<>> /\ "FIN" \notin s.flags /\ s.ack = c.ack
                      /\ Up(c)
  BY <1>5 DEF Sends, Up
<1>13. By(h)' \subseteq By(h) \cup new /\ By(g)' \subseteq By(g)
  BY <1>3, <1>11, <1>12, ByIs
<1>14. got'[h] = got[h] /\ got'[g] = got[g] \o q
  BY <1>3, <1>4 DEF TypeInv, HistOK
<1>15. ASSUME NEW s \in new
       PROVE  /\ Comes(s, z, sent[g])
              /\ "ACK" \in s.flags /\ s.ack > z + stored[g]
                   => Over(conns[g], sent[g], stored[g], g, cut)
              /\ h = Client /\ Fresh(b) => s.ack = b
  <2>1. s.ack = c.ack /\ Up(c)
    BY <1>12
  <2>2. /\ z <= c.ack /\ c.ack <= z + sent[g] + 1
        /\ c.ack > z + stored[g] => Over(conns[g], sent[g], stored[g], g, cut)
    BY <1>1, <1>3, <1>4, <1>10, <2>1, SlotAck
  <2>3. Comes(s, z, sent[g])
    BY <2>1, <2>2 DEF Comes
  <2>4. h = Client /\ Fresh(b) => s.ack = b
    <3>1. h = Client => WayOf(Server, b)
      BY <1>3, <1>10, Hosts, BaseIs
    <3> QED
      BY <1>1, <1>4, <2>1, <3>1, FreshAck
  <2> QED
    BY <2>1, <2>2, <2>3, <2>4
<1>16. WayOf(g, z)'
  <2>1. WayTypes(z, conns[g], conns[h], By(g), By(h), sent[g], stored[g], got[g])
    BY <1>3, WayTypesOf
  <2>2. Way(z, conns[g], conns[h], By(g), By(h), sent[g], stored[g], got[g], g, cut)
    BY <1>3, <1>10 DEF WayOf
  <2>3. /\ k <= Len(conns[h][i].rx) /\ q = SubSeq(conns[h][i].rx, 1, k)
        /\ d.rx = SubSeq(conns[h][i].rx, k + 1, Len(conns[h][i].rx))
        /\ d.state = conns[h][i].state /\ d.ack = conns[h][i].ack /\ d.eof = conns[h][i].eof
    BY <1>1, <1>2, <1>4, <1>5
  <2>4. Way(z, conns[g], conns'[h], By(g), By(h), sent[g], stored[g], got[g] \o q, g, cut)
    BY <1>8, <1>10, <1>11, <2>1, <2>2, <2>3, WayRecv
  <2>5. Way(z, conns[g], conns'[h], By(g), By(h) \cup new, sent[g], stored[g], got[g] \o q, g, cut)
    BY <1>15, <2>4, WayBack
  <2>6. Way(z, conns[g], conns'[h], By(g)', By(h)', sent[g], stored[g], got[g] \o q, g, cut)
    BY <1>13, <2>5, WayLess
  <2> QED
    BY <1>3, <1>6, <1>11, <1>14, <2>6 DEF WayOf
<1>17. WayOf(h, a)'
  <2>1. Snd(c, a, sent[h], h, cut)
    BY <1>1, <1>3, <1>4, <1>10, SlotWay
  <2>2. SndFits(d, c, a, sent[h], stored[h], h, cut')
    BY <1>5, <1>6, <2>1, SndSame
  <2> QED
    BY <1>1, <1>4, <1>6, <1>10, <1>11, <1>12, <1>14, <2>2, OwnWay
<1>18. Turn(h, i, d, new, b)
  BY <1>1, <1>5, <1>9, <1>12, <1>15 DEF Turn
<1>19. WayOf(h, Base(h, b))' /\ WayOf(g, Base(g, b))'
  <2>1. a = Base(h, b)' /\ z = Base(g, b)'
    BY <1>10 DEF Base, B
  <2> QED
    BY <1>16, <1>17, <2>1
<1>20. sent'[h] <= Writes[h]
  BY <1>6 DEF Link
<1> QED
  BY <1>1, <1>3, <1>4, <1>6, <1>9, <1>11, <1>18, <1>19, <1>20, LiveLink

-----------------------------------------------------------------------------
(* A segment for a connection that is up                                   *)

\* What the stages leave of the sender
LEMMA StagesSnd ==
  ASSUME NEW h \in Host, NEW c0, NEW c1, NEW c2, NEW c3, NEW c4, NEW s,
         Stages(h, c0, c1, c2, c3, c4, s), Up(c0)
  PROVE  /\ c4.seq = c0.seq /\ c4.unacked_seq = c0.unacked_seq /\ c4.tx = c1.tx
         /\ Talks(c4) <=> Talks(c0)
         /\ c4.state \notin {"SYN_SENT", "SYN_RCVD"}
         /\ c4.lport = c0.lport /\ c4.rport = c0.rport
<1>1. /\ c1.seq = c0.seq /\ c1.unacked_seq = c0.unacked_seq /\ c1.state = c0.state
      /\ c1.lport = c0.lport /\ c1.rport = c0.rport
  BY DEF Stages, Cleared
<1>2. /\ c2.seq = c1.seq /\ c2.unacked_seq = c1.unacked_seq /\ c2.state = c1.state
      /\ c2.lport = c1.lport /\ c2.rport = c1.rport /\ c2.tx = c1.tx
  BY DEF Stages, TookData
<1>3. /\ c3.seq = c2.seq /\ c3.unacked_seq = c2.unacked_seq
      /\ c3.lport = c2.lport /\ c3.rport = c2.rport /\ c3.tx = c2.tx
      /\ c3.state = c2.state \/ (~Talks(c2) /\ c3.state \in {"CLOSED", "FIN_WAIT_2"})
  BY DEF Stages, Finished, KeptFields, Talks
<1>4. /\ c4.seq = c3.seq /\ c4.unacked_seq = c3.unacked_seq
      /\ c4.lport = c3.lport /\ c4.rport = c3.rport /\ c4.tx = c3.tx
      /\ \/ c4.state = c3.state
         \/ ~Talks(c3) /\ c4.state = "CLOSED"
         \/ Talks(c3) /\ c4.state = "CLOSE_WAIT"
  BY DEF Stages, Ended, KeptFields, Talks
<1>5. Talks(c3) <=> Talks(c0)
  BY <1>1, <1>2, <1>3 DEF Talks
<1>6. Talks(c4) <=> Talks(c3)
  BY <1>4 DEF Talks
<1>7. c4.state \notin {"SYN_SENT", "SYN_RCVD"}
  BY <1>1, <1>2, <1>3, <1>4 DEF Up
<1> QED
  BY <1>1, <1>2, <1>3, <1>4, <1>5, <1>6, <1>7

\* c4 has stored the data of s.
Gains(c0, c4, s) == /\ Fits(c0, s) /\ c4.rx = c0.rx \o s.data /\ c4.ack = Plus(s.seq, Len(s.data))
                    /\ c4.state = c0.state /\ c4.eof = c0.eof

\* c4 has taken the FIN of s.
Shuts(c0, c4, s) == /\ Talks(c0) /\ c4.state = "CLOSE_WAIT" /\ c4.eof = TRUE /\ c4.rx = c0.rx
                    /\ "FIN" \in s.flags

\* The data of s is stored, or it is not.
Fed(c0, c1, c2, c3, c4, s) ==
  /\ Fits(c1, s) /\ Gains(c0, c4, s) /\ ~TakesFin(c3, s) /\ c2 = c4
  /\ Len(c2.rx) - Len(c1.rx) = Len(s.data)
Unfed(c0, c1, c2, c3, c4, s) ==
  /\ ~Fits(c1, s) /\ c2.ack = c0.ack /\ Len(c2.rx) - Len(c1.rx) = 0
  /\ Shuts(c0, c4, s) \/ RcvFits(c4, c0)

\* What they make of the receiver, when no segment has data and a FIN
LEMMA StagesRcv ==
  ASSUME NEW h \in Host, NEW c0 \in Conns, NEW c1, NEW c2, NEW c3, NEW c4, NEW s \in Segments,
         Stages(h, c0, c1, c2, c3, c4, s), Up(c0), "FIN" \in s.flags => s.data = <<>>
  PROVE  /\ Fed(c0, c1, c2, c3, c4, s) \/ Unfed(c0, c1, c2, c3, c4, s)
         /\ TakesFin(c3, s) => c4.ack = Plus(s.seq, Len(s.data) + 1)
         /\ Carries(c1, s) => Up(c0) /\ Up(c2) /\ c2.state = c0.state
<1>1. /\ c1.state = c0.state /\ c1.rx = c0.rx /\ c1.ack = c0.ack /\ c1.eof = c0.eof
      /\ c1 \in Conns
  BY DEF Stages, Cleared, Sized
<1>2. TakesFin(c3, s) => c4.ack = Plus(s.seq, Len(s.data) + 1)
  BY DEF Stages, Ended
<1>3. Carries(c1, s) => Up(c0) /\ Up(c2) /\ c2.state = c0.state
  BY <1>1 DEF Stages, TookData, Up
<1>4. CASE Fits(c1, s)
  <2>1. TookData(c2, c1, s) /\ s.data # <<>> /\ c1.state \in {"ESTABLISHED", "CLOSE_WAIT"}
    BY <1>4 DEF Stages, Fits, Carries
  <2>2. c2.state \in {"ESTABLISHED", "CLOSE_WAIT"}
    BY <2>1 DEF TookData
  <2>3. c3 = c2
    BY <2>2 DEF Stages, Finished
  <2>4. ~TakesFin(c3, s)
    BY <2>1 DEF TakesFin
  <2>5. c4 = c2
    BY <2>3, <2>4 DEF Stages, Ended
  <2>6. Fits(c0, s)
    BY <1>1, <1>4 DEF Fits, Carries
  <2>7. Gains(c0, c4, s)
    BY <1>1, <2>1, <2>5, <2>6 DEF Gains, TookData
  <2>8. c1.rx \in Seq(Nat) /\ s.data \in Seq(Nat) /\ c2.rx = c1.rx \o s.data
    BY <1>1, <2>1, Fields, SegmentFields DEF TookData
  <2>9. Len(c2.rx) = Len(c1.rx) + Len(s.data) /\ Len(c1.rx) \in Nat /\ Len(s.data) \in Nat
    BY <2>8, Joined
  <2>10. Len(c2.rx) - Len(c1.rx) = Len(s.data)
    BY <2>9
  <2> QED
    BY <1>2, <1>3, <1>4, <2>4, <2>5, <2>7, <2>10 DEF Fed
<1>5. CASE ~Fits(c1, s)
  <2>1. c2 = c1
    BY <1>5 DEF Stages
  <2>2. Len(c1.rx) \in Nat
    BY <1>1, Fields
  <2>3. c2.ack = c0.ack /\ Len(c2.rx) - Len(c1.rx) = 0
    BY <1>1, <2>1, <2>2
  <2>4. /\ c3.rx = c0.rx /\ c3.ack = c0.ack /\ c3.eof = c0.eof
        /\ \/ c3.state = c0.state
           \/ c3.state = "CLOSED"
           \/ c3.state = "FIN_WAIT_2" /\ c0.state = "FIN_WAIT_1"
    BY <1>1, <2>1 DEF Stages, Finished, KeptFields
  <2>5. Shuts(c0, c4, s) \/ RcvFits(c4, c0)
    <3>1. CASE c4 = c3
      <4>1. Up(c4) => Heard(c4) <=> Heard(c0)
        BY <2>4, <3>1 DEF Up, Heard
      <4> QED
        BY <2>4, <3>1, <4>1 DEF RcvFits
    <3>2. CASE Ended(c4, c3, s) /\ c3.state = "FIN_WAIT_2"
      <4>1. ~Up(c4) /\ c4.rx = c0.rx /\ c4.eof = c0.eof
        BY <2>4, <3>2 DEF Ended, KeptFields, Up
      <4> QED
        BY <4>1, RcvDown
    <3>3. CASE Ended(c4, c3, s) /\ c3.state \in {"ESTABLISHED", "CLOSE_WAIT"}
      <4>1. c0.state = c3.state
        BY <2>4, <3>3
      <4>2. c4.state = "CLOSE_WAIT" /\ c4.eof = TRUE /\ c4.rx = c0.rx /\ "FIN" \in s.flags
        BY <2>4, <3>3 DEF Ended, KeptFields, TakesFin
      <4> QED
        BY <3>3, <4>1, <4>2 DEF Shuts, Talks
    <3> QED
      BY <3>1, <3>2, <3>3 DEF Stages, Ended
  <2> QED
    BY <1>2, <1>3, <1>5, <2>3, <2>5 DEF Unfed
<1> QED
  BY <1>4, <1>5

\* An ACK that clears the retransmit buffer has come because all is stored.
LEMMA Clears ==
  ASSUME NEW b, NEW S, NEW R, NEW out, NEW back, NEW m, NEW n, NEW g, NEW h, NEW gone,
         WayTypes(b, S, R, out, back, m, n, g), Way(b, S, R, out, back, m, n, g, h, gone),
         b + m + 1 < MOD, NEW i \in DOMAIN S, S[i].tx # <<>>, NEW s \in back, "ACK" \in s.flags,
         s.ack >= Plus(S[i].unacked_seq, Len(S[i].tx))
  PROVE  h \in gone \/ n = m
<1>1. PICK c \in Conns : c = S[i]
  BY DEF WayTypes
<1>2. c.unacked_seq \in Nat /\ Len(c.tx) \in Nat
  BY <1>1, Fields
<1>3. c.unacked_seq + Len(c.tx) = b + m
  BY <1>1 DEF Way, Snd
<1>4. /\ b \in Nat /\ m \in Nat /\ n \in Nat /\ n <= m /\ s.ack \in Nat /\ MOD \in Nat
  BY SegmentFields, Seq32In DEF WayTypes, Way
<1>5. Plus(c.unacked_seq, Len(c.tx)) = b + m
  BY <1>2, <1>3, <1>4, PlusIs
<1>6. n # m => s.ack > b + n
  BY <1>1, <1>4, <1>5
<1> QED
  BY <1>6 DEF Way, Closing, Over

\* The direction of the peer, to whose segment s the slot answers with new
LEMMA SyncPeer ==
  ASSUME TypeInv, NEW h \in Host, NEW z \in Nat, WayOf(Peer(h), z), One(conns[h]),
         z + sent[Peer(h)] + 1 < MOD, NEW i \in Slot[h], NEW s \in net, s.src = Peer(h),
         NEW air \in SUBSET net, Up(conns[h][i]),
         NEW c1, NEW c2, NEW c3, NEW c4, NEW n1, NEW n2,
         Syncs(h, i, s, air, c1, c2, c3, c4, n1, n2),
         sent' = sent, got' = got, cut' = cut
  PROVE  WayOf(Peer(h), z)'
<1>1. PICK g \in Host : g = Peer(h) /\ Peer(g) = h /\ g # h
  BY Hosts
<1>0. SUFFICES WayOf(g, z)'
  BY <1>1
<1>2. PICK c0 : c0 = conns[h][i]
  OBVIOUS
<1>3. c0 \in Conns /\ c4 \in Conns /\ s \in Segments /\ sent[g] \in Nat /\ stored[g] \in Nat
  <2>1. c0 \in Conns /\ s \in Segments /\ sent[g] \in Nat /\ stored[g] \in Nat
    BY <1>2 DEF TypeInv, TablesOK, Sized, NetOK, HistOK
  <2> QED
    BY <2>1 DEF Syncs, Stages, Sized
<1>4. Up(c0) /\ Active(c0) /\ Stages(h, c0, c1, c2, c3, c4, s)
  BY <1>2 DEF Active, Syncs
<1>5. PICK m \in Nat, n \in Nat : m = sent[g] /\ n = stored[g]
  BY <1>3
<1>6. Way(z, conns[g], conns[h], By(g), By(h), m, n, got[g], g, cut)
  BY <1>1, <1>5 DEF WayOf
<1>7. WayTypes(z, conns[g], conns[h], By(g), By(h), m, n, got[g])
  BY <1>1, <1>5, WayTypesOf
<1>8. s \in By(g) /\ z + m + 1 < MOD
  BY <1>1, <1>5 DEF By
<1>9. "FIN" \in s.flags => /\ s.data = <<>> /\ Over(conns[g], m, n, g, cut)
                           /\ Plus(s.seq, Len(s.data) + 1) = z + m + 1
  BY <1>6, <1>7, <1>8, WayEnd
<1>10. Set(h, i, c4) /\ Put(conns'[h], conns[h], i, c4) /\ conns'[g] = conns[g]
  <2>1. Set(h, i, c4)
    BY DEF Syncs
  <2> QED
    BY <1>1, <2>1, PutIs
<1>11. i \in DOMAIN conns[h] /\ i \in DOMAIN conns'[h] /\ conns'[h][i] = c4
  BY <1>10 DEF Put
<1>12. /\ Fed(c0, c1, c2, c3, c4, s) \/ Unfed(c0, c1, c2, c3, c4, s)
       /\ TakesFin(c3, s) => c4.ack = Plus(s.seq, Len(s.data) + 1)
       /\ Carries(c1, s) => Up(c0) /\ Up(c2) /\ c2.state = c0.state
  <2>1. "FIN" \in s.flags => s.data = <<>>
    BY <1>9
  <2>2. c0 \in Conns /\ s \in Segments /\ Up(c0) /\ Stages(h, c0, c1, c2, c3, c4, s)
    BY <1>3, <1>4
  <2> QED
    BY <2>1, <2>2, StagesRcv
<1>13. PICK new : new = n1 \cup n2
  OBVIOUS
<1>14. net' \subseteq net \cup new
  BY <1>13 DEF Syncs
<1>15. \A x \in new : x.src = h
  BY <1>13 DEF Syncs, Sends
<1>16. By(h)' \subseteq By(h) \cup new /\ By(g)' \subseteq By(g)
  BY <1>1, <1>14, <1>15, ByIs
<1>17. stored'[g] = n + (Len(c2.rx) - Len(c1.rx)) /\ sent'[g] = m /\ got'[g] = got[g]
  BY <1>1, <1>5 DEF Syncs, TypeInv, HistOK
<1>18. ASSUME NEW l, l = stored'[g],
              Way(z, conns[g], conns'[h], By(g), By(h), m, l, got[g], g, cut),
              \A x \in new : /\ Comes(x, z, m)
                             /\ "ACK" \in x.flags /\ x.ack > z + l => Over(conns[g], m, l, g, cut)
       PROVE  WayOf(g, z)'
  <2>1. Way(z, conns[g], conns'[h], By(g), By(h) \cup new, m, l, got[g], g, cut)
    BY <1>18, WayBack
  <2>2. Way(z, conns[g], conns'[h], By(g)', By(h)', m, l, got[g], g, cut)
    BY <1>16, <2>1, WayLess
  <2> QED
    BY <1>1, <1>10, <1>17, <1>18, <2>2 DEF WayOf
<1>19. CASE Fed(c0, c1, c2, c3, c4, s)
  <2>0. /\ Fits(c1, s) /\ Gains(c0, c4, s) /\ ~TakesFin(c3, s) /\ c2 = c4
        /\ Len(c2.rx) - Len(c1.rx) = Len(s.data)
    BY <1>19 DEF Fed
  <2>1. PICK l \in Nat : l = n + Len(s.data)
    BY <1>3, SegmentFields
  <2>2. l = stored'[g]
    BY <1>17, <2>0, <2>1
  <2>3. Way(z, conns[g], conns'[h], By(g), By(h), m, l, got[g], g, cut)
    <3>1. /\ Fits(conns[h][i], s) /\ c4.rx = conns[h][i].rx \o s.data
          /\ c4.ack = Plus(s.seq, Len(s.data)) /\ c4.state = conns[h][i].state
          /\ c4.eof = conns[h][i].eof
      BY <1>2, <2>0 DEF Gains
    <3> QED
      BY <1>3, <1>6, <1>7, <1>8, <1>10, <2>1, <3>1, WayStore
  <2>4. Up(c4)
    BY <1>4, <2>0 DEF Gains, Up
  <2>5. WayTypes(z, conns[g], conns'[h], By(g), By(h), m, l, got[g])
    BY <1>3, <1>7, <1>10 DEF WayTypes, Put
  <2>6. /\ z <= c4.ack /\ c4.ack <= z + m + 1
        /\ c4.ack > z + l => Over(conns[g], m, l, g, cut)
    BY <1>11, <2>3, <2>4, <2>5, WayAck
  <2>7. ASSUME NEW x \in new PROVE x.ack = c4.ack
    BY <1>13, <2>0 DEF Syncs, Sends
  <2>8. \A x \in new :
          /\ Comes(x, z, m)
          /\ "ACK" \in x.flags /\ x.ack > z + l => Over(conns[g], m, l, g, cut)
    BY <2>6, <2>7 DEF Comes
  <2> QED
    BY <1>18, <2>2, <2>3, <2>8
<1>20. CASE Unfed(c0, c1, c2, c3, c4, s)
  <2>0. /\ ~Fits(c1, s) /\ c2.ack = c0.ack /\ Len(c2.rx) - Len(c1.rx) = 0
        /\ Shuts(c0, c4, s) \/ RcvFits(c4, c0)
    BY <1>20 DEF Unfed
  <2>1. n = stored'[g]
    <3>1. PICK e : e = Len(c2.rx) - Len(c1.rx)
      OBVIOUS
    <3>2. e = 0 /\ stored'[g] = n + e
      BY <1>17, <2>0, <3>1
    <3> QED
      BY <3>2
  <2>2. ASSUME Shuts(c0, c4, s)
        PROVE  Way(z, conns[g], conns'[h], By(g), By(h), m, n, got[g], g, cut)
    <3>1. Over(conns[g], m, n, g, cut)
      BY <1>9, <2>2 DEF Shuts
    <3>2. CASE TakesFin(c3, s)
      <4>1. c4.ack = z + m + 1
        BY <1>9, <1>12, <3>2 DEF TakesFin
      <4>2. /\ Talks(conns[h][i]) /\ c4.state = "CLOSE_WAIT" /\ c4.eof = TRUE
            /\ c4.rx = conns[h][i].rx
        BY <1>2, <2>2 DEF Shuts
      <4> QED
        BY <1>6, <1>7, <1>10, <3>1, <4>1, <4>2, WayFin
    <3>3. CASE ~TakesFin(c3, s)
      <4>1. c4 = c3
        BY <1>4, <3>3 DEF Stages, Ended
      <4>2. c3.state = "CLOSE_WAIT" /\ c3.ack = c0.ack /\ c3.rx = c0.rx /\ c3.eof = c0.eof
            /\ c3.state = c0.state
        <5>1. c3.state = "CLOSE_WAIT"
          BY <2>2, <4>1 DEF Shuts
        <5>2. c3 = c2 /\ c2 = c1
          BY <1>4, <2>0, <5>1 DEF Stages, Finished
        <5> QED
          BY <1>4, <5>1, <5>2 DEF Stages, Cleared
      <4>3. RcvFits(c4, c0)
        BY <4>1, <4>2, RcvSame
      <4> QED
        BY <1>2, <1>6, <1>10, <4>3, RcvSlot
    <3> QED
      BY <3>2, <3>3
  <2>3. ASSUME RcvFits(c4, c0)
        PROVE  Way(z, conns[g], conns'[h], By(g), By(h), m, n, got[g], g, cut)
    BY <1>2, <1>6, <1>10, <2>3, RcvSlot
  <2>4. ASSUME NEW x \in new
        PROVE  /\ Comes(x, z, m)
               /\ "ACK" \in x.flags /\ x.ack > z + n => Over(conns[g], m, n, g, cut)
    <3>1. CASE x \in n1
      <4>1. x.ack = c0.ack
        BY <2>0, <3>1 DEF Syncs, Sends
      <4>2. /\ z <= c0.ack /\ c0.ack <= z + m + 1
            /\ c0.ack > z + n => Over(conns[g], m, n, g, cut)
        BY <1>2, <1>4, <1>6, <1>7, <1>11, WayAck
      <4> QED
        BY <4>1, <4>2 DEF Comes
    <3>2. CASE x \in n2
      <4>1. x.ack = c4.ack /\ TakesFin(c3, s)
        BY <3>2 DEF Syncs, Sends
      <4>2. x.ack = z + m + 1 /\ Over(conns[g], m, n, g, cut)
        BY <1>9, <1>12, <4>1 DEF TakesFin
      <4>3. z <= z + m + 1
        OBVIOUS
      <4> QED
        BY <4>2, <4>3 DEF Comes
    <3> QED
      BY <1>13, <3>1, <3>2
  <2>5. Way(z, conns[g], conns'[h], By(g), By(h), m, n, got[g], g, cut)
    BY <2>0, <2>2, <2>3
  <2>6. \A x \in new :
          /\ Comes(x, z, m)
          /\ "ACK" \in x.flags /\ x.ack > z + n => Over(conns[g], m, n, g, cut)
    BY <2>4
  <2> QED
    BY <1>18, <2>1, <2>5, <2>6
<1> QED
  BY <1>12, <1>19, <1>20

LEMMA SyncLink ==
  ASSUME TypeInv, NEW b \in Nat, Link(b), NEW h \in Host, NEW i \in Slot[h], NEW s \in net,
         s.src = Peer(h), NEW air \in SUBSET net, Synchronized(h, i, s, air),
         sent' = sent, got' = got, cut' = cut, pending' = pending
  PROVE  Link(b)'
<1>1. PICK g \in Host : g = Peer(h) /\ Peer(g) = h /\ g # h
  BY Hosts
<1>2. PICK c0 : c0 = conns[h][i]
  OBVIOUS
<1>3. c0 \in Conns /\ s \in Segments
  BY <1>2 DEF TypeInv, TablesOK, Sized, NetOK
<1>4. /\ c0.state \in {"ESTABLISHED", "FIN_WAIT_1", "FIN_WAIT_2", "CLOSE_WAIT", "LAST_ACK"}
      /\ \E c1, c2, c3, c4, n1, n2 : Syncs(h, i, s, air, c1, c2, c3, c4, n1, n2)
  BY <1>2, <1>3, SynchronizedDoes
<1>5. PICK c1, c2, c3, c4, n1, n2 : Syncs(h, i, s, air, c1, c2, c3, c4, n1, n2)
  BY <1>4
<1>6. Up(c0) /\ Active(c0)
  BY <1>4 DEF Up, Active
<1>7. Stages(h, c0, c1, c2, c3, c4, s) /\ Set(h, i, c4) /\ isn' = isn
  BY <1>2, <1>5 DEF Syncs
<1>8. PICK new : new = n1 \cup n2
  OBVIOUS
<1>9. net' \subseteq net \cup new
  BY <1>5, <1>8 DEF Syncs
<1>10. \A x \in new : x.src = h /\ x.data = <<>> /\ "FIN" \notin x.flags
  BY <1>5, <1>8 DEF Syncs, Sends
<1>11. PICK a \in Nat, z \in Nat :
         /\ a = Base(h, b) /\ WayOf(h, a) /\ One(conns[h]) /\ a + sent[h] + 1 < MOD
         /\ z = Base(g, b) /\ WayOf(g, z) /\ z + sent[g] + 1 < MOD
  BY <1>1, BaseFit
<1>12. stored'[h] = stored[h]
  BY <1>1, <1>5 DEF Syncs, TypeInv, HistOK
<1>13. /\ c4.seq = c0.seq /\ c4.unacked_seq = c0.unacked_seq /\ c4.tx = c1.tx
       /\ Talks(c4) <=> Talks(c0)
       /\ c4.state \notin {"SYN_SENT", "SYN_RCVD"}
       /\ c4.lport = c0.lport /\ c4.rport = c0.rport
  BY <1>6, <1>7, StagesSnd
<1>14. WayOf(g, z)'
  BY <1>1, <1>2, <1>5, <1>6, <1>11, SyncPeer
<1>15. WayOf(h, a)'
  <2>1. Snd(c0, a, sent[h], h, cut)
    BY <1>1, <1>2, <1>11, SlotWay
  <2>2. \/ c1.tx = c0.tx
        \/ /\ c1.tx = <<>> /\ "ACK" \in s.flags /\ c0.tx # <<>>
           /\ s.ack >= Plus(c0.unacked_seq, Len(c0.tx))
    BY <1>7 DEF Stages, Cleared
  <2>3. c0.tx # <<>> /\ c1.tx = <<>> => h \in cut \/ stored[h] = sent[h]
    <3>1. SUFFICES ASSUME c0.tx # <<>>, c1.tx = <<>> PROVE h \in cut \/ stored[h] = sent[h]
      OBVIOUS
    <3>2. "ACK" \in s.flags /\ s.ack >= Plus(c0.unacked_seq, Len(c0.tx))
      BY <2>2, <3>1
    <3>3. WayTypes(a, conns[h], conns[g], By(h), By(g), sent[h], stored[h], got[h])
      BY <1>1, WayTypesOf
    <3>4. Way(a, conns[h], conns[g], By(h), By(g), sent[h], stored[h], got[h], h, cut)
      BY <1>1, <1>11 DEF WayOf
    <3>5. s \in By(g) /\ i \in DOMAIN conns[h]
      BY <1>1 DEF By, TypeInv, TablesOK
    <3>6. conns[h][i].tx # <<>> /\ s.ack >= Plus(conns[h][i].unacked_seq, Len(conns[h][i].tx))
      BY <1>2, <3>1, <3>2
    <3> QED
      BY <1>11, <3>2, <3>3, <3>4, <3>5, <3>6, Clears
  <2>4. c4.tx # <<>> => c4.tx = c0.tx /\ (h \in cut \/ Talks(c4))
    BY <1>13, <2>1, <2>2 DEF Snd
  <2>5. c4.seq = a + sent[h] + IF Talks(c4) THEN 0 ELSE 1
    BY <1>6, <1>13, <2>1 DEF Snd
  <2>6. SndFits(c4, c0, a, sent[h], stored[h], h, cut')
    BY <1>13, <2>3, <2>4, <2>5 DEF SndFits
  <2> QED
    BY <1>2, <1>7, <1>9, <1>10, <1>11, <1>12, <2>6, OwnWay
<1>16. WayOf(h, Base(h, b))' /\ WayOf(g, Base(g, b))'
  <2>1. a = Base(h, b)' /\ z = Base(g, b)'
    BY <1>11 DEF Base, B
  <2> QED
    BY <1>14, <1>15, <2>1
<1>17. Turn(h, i, c4, new, b)
  <2>1. c4.eof => c0.eof \/ "FIN" \in s.flags
    <3>1. c1.eof = c0.eof
      BY <1>7 DEF Stages, Cleared
    <3>2. c2.eof = c1.eof
      BY <1>7 DEF Stages, TookData
    <3>3. c3.eof = c2.eof
      BY <1>7 DEF Stages, Finished
    <3>4. c4.eof = c3.eof \/ "FIN" \in s.flags
      BY <1>7 DEF Stages, Ended, TakesFin
    <3> QED
      BY <3>1, <3>2, <3>3, <3>4
  <2>2. s \in By(Peer(h))
    BY DEF By
  <2>3. h = Client /\ Fresh(b) => new = {}
    <3>1. SUFFICES ASSUME h = Client, Fresh(b) PROVE new = {}
      OBVIOUS
    <3>2. s.data = <<>> /\ "FIN" \notin s.flags
      BY <2>2, <3>1, Hosts DEF Fresh, Mute
    <3>3. ~Carries(c1, s) /\ ~TakesFin(c3, s)
      BY <3>2 DEF Carries, TakesFin
    <3> QED
      BY <1>5, <1>8, <3>3 DEF Syncs
  <2> QED
    BY <1>2, <1>6, <1>10, <1>13, <2>1, <2>2, <2>3 DEF Turn
<1>18. sent'[h] <= Writes[h]
  BY DEF Link
<1> QED
  BY <1>1, <1>2, <1>6, <1>7, <1>9, <1>12, <1>16, <1>17, <1>18, LiveLink

-----------------------------------------------------------------------------
(* The handshake                                                           *)

LEMMA StillLink ==
  ASSUME TypeInv, NEW b \in Nat, Link(b), conns' = conns, net' \subseteq net,
         UNCHANGED <<sent, stored, got, cut, isn, pending>>
  PROVE  Link(b)'
<1>1. PICK e : e = {}
  OBVIOUS
<1>2. net' \subseteq net \cup e /\ \A x \in e : x.data = <<>> /\ x.flags = {"RST"}
  BY <1>1
<1>3. \A g \in Host : pending'[g] = None \/ pending'[g] = pending[g]
  OBVIOUS
<1> QED
  BY <1>2, <1>3, RestLink

\* An RST is in flight after the connection was cut.
LEMMA ResetLink ==
  ASSUME TypeInv, Shape, NEW b \in Nat, Link(b), NEW h \in Host, NEW i \in Slot[h], NEW s \in net,
         NEW air \in SUBSET net, Reset(h, i, s, air), UNCHANGED <<sent, got, cut, pending>>
  PROVE  Link(b)'
<1>1. "RST" \in s.flags /\ isn' = isn /\ stored' = stored
  BY ResetDoes
<1>2. PICK d : /\ Takes(h, i, d, air, {}) /\ d.state = "CLOSED"
               /\ KeptFields(d, conns[h][i]) /\ d.ack = conns[h][i].ack /\ d.eof = conns[h][i].eof
  BY ResetDoes
<1>3. Set(h, i, d) /\ net' \subseteq net
  BY <1>2 DEF Takes
<1>4. cut = Host
  BY <1>1 DEF Shape, SegsOK, SegOK
<1> QED
  BY <1>1, <1>2, <1>3, <1>4, DownLink

LEMMA ListenLink ==
  ASSUME TypeInv, NEW b \in Nat, Link(b), NEW h \in Host, net_tcp_listen(h)
  PROVE  Link(b)'
<1>1. h = Server /\ \A i \in Slot[h] : conns[h][i] = Zero
  BY ListenDoes
<1>2. PICK i \in Slot[h] : \E d :
              /\ Moves(h, i, d, {}) /\ d.state = "LISTEN" /\ d.lport = PORT /\ NoData(d)
              /\ d.in_use
              /\ held' = [held EXCEPT ![h] = @ \cup {i}]
  BY ListenDoes
<1>3. PICK d, e : e = {} /\ Moves(h, i, d, e) /\ d.state = "LISTEN" /\ NoData(d)
  BY <1>2
<1>4. UNCHANGED <<sent, stored, got, cut, isn, pending>>
  BY DEF net_tcp_listen, hist
<1>5. PICK c : c = conns[h][i] /\ c.tx = <<>> /\ c.rx = <<>> /\ ~c.eof
  BY <1>1, ZeroIs
<1>6. ~Up(d) /\ ~Active(d) /\ ~Talks(d)
  BY <1>3 DEF Up, Talks, Active, NoData
<1>7. SndFits(d, c, Base(h, b), sent[h], stored[h], h, cut')
  BY <1>3, <1>5, <1>6 DEF SndFits, NoData
<1>8. RcvFits(d, c)
  BY <1>3, <1>6, RcvDown DEF NoData
<1>9. Turn(h, i, d, e, b)
  BY <1>1, <1>3, <1>6, Hosts DEF Turn, NoData
<1>10. Set(h, i, d) /\ net' = net \cup e
  BY <1>3 DEF Moves
<1>11. \A s \in e : Airs(s, h, Base(h, b), Base(Peer(h), b), conns[Peer(h)], conns'[h], cut')
  BY <1>3
<1> QED
  BY <1>4, <1>5, <1>7, <1>8, <1>9, <1>10, <1>11, StepLink

\* The client takes a slot or sends its SYN while no connection is up.
LEMMA QuietLink ==
  ASSUME TypeInv, NEW b \in Nat, Link(b), Quiet, NEW i \in Slot[Client], NEW d, NEW new,
         Moves(Client, i, d, new), ~Up(d), NoData(d),
         \A s \in new : s.src = Client /\ s.data = <<>> /\ s.flags = {"SYN"},
         UNCHANGED <<sent, stored, got, cut>>
  PROVE  Link(b)'
<1>1. PICK h \in Host : h = Client
  BY Hosts
<1>2. PICK c : c = conns[h][i] /\ c.tx = <<>> /\ c.rx = <<>>
  BY <1>1, NotBlank DEF Quiet
<1>3. ~Talks(d) /\ ~Active(d)
  BY DEF Up, Talks, Active, NoData
<1>4. PICK a, z : a = Base(h, b) /\ z = Base(Peer(h), b) /\ WayOf(h, a) /\ WayOf(Peer(h), z)
  BY BaseFit
<1>5. SndFits(d, c, a, sent[h], stored[h], h, cut')
  BY <1>2, <1>3 DEF SndFits, NoData
<1>6. RcvFits(d, c)
  BY RcvDown DEF NoData
<1>7. Set(h, i, d) /\ net' = net \cup new
  BY <1>1 DEF Moves
<1>8. \A s \in new : Airs(s, h, a, z, conns[Peer(h)], conns'[h], cut')
  BY <1>1 DEF Airs, Outgoing, Comes
<1>9. WayOf(h, a)' /\ WayOf(Peer(h), z)'
  BY <1>1, <1>2, <1>4, <1>5, <1>6, <1>7, <1>8, Keeping
<1>10. a = Base(h, b)' /\ z = Base(Peer(h), b)'
  BY <1>4 DEF Base, B
<1>11. Quiet'
  <2>1. Silent(conns'[Client]) /\ Silent(conns'[Server])
    BY <1>1, <1>3, <1>7, BlankSet, Hosts DEF Quiet, NoData
  <2>2. Mute(net')
    BY <1>7 DEF Quiet, Mute
  <2>3. \A s \in new : s \notin By(Server)' /\ "ACK" \notin s.flags
    BY Hosts DEF By
  <2>4. (\A s \in By(Client)' : s \in By(Client) \/ s \in new) /\ By(Server)' \subseteq By(Server)
    BY <1>7, <2>3 DEF By
  <2> QED
    BY <2>1, <2>2, <2>3, <2>4 DEF Quiet, B
<1>12. ASSUME NEW g \in Host PROVE One(conns'[g]) /\ sent'[g] <= Writes[g]
  <2>1. One(conns[g]) /\ sent[g] <= Writes[g]
    BY DEF Link
  <2> QED
    BY <1>1, <1>3, <1>7, <2>1, OneKept
<1> QED
  BY <1>9, <1>10, <1>11, <1>12, LinkFrom

LEMMA ConnectLink ==
  ASSUME TypeInv, NEW b \in Nat, Link(b), NEW h \in Host, net_tcp_connect(h)
  PROVE  Link(b)'
<1>1. h = Client /\ \A i \in Slot[h] : conns[h][i] = Zero
  BY ConnectDoes
<1>2. PICK i \in Slot[h] : \E d, new :
              /\ Moves(h, i, d, new) /\ d.lport = Ephemeral
              /\ held' = [held EXCEPT ![h] = @ \cup {i}]
              /\ \/ /\ ready[h] /\ Opening(h, d) /\ Advance(h) /\ pending' = pending
                    /\ \A s \in new : Opened(h, s) /\ s.sport = Ephemeral
                 \/ /\ ~ready[h] /\ NoData(d) /\ d.state = "CLOSED" /\ new = {}
                    /\ pending' = [pending EXCEPT ![h] = i] /\ isn' = isn
  BY ConnectDoes
<1>3. PICK d, new : /\ Moves(h, i, d, new)
                    /\ \/ Opening(h, d) /\ \A s \in new : Opened(h, s)
                       \/ NoData(d) /\ d.state = "CLOSED" /\ new = {}
  BY <1>2
<1>4. ~Up(d) /\ NoData(d)
  BY <1>3 DEF Opening, NoData, Up
<1>5. \A s \in new : s.src = Client /\ s.data = <<>> /\ s.flags = {"SYN"}
  BY <1>1, <1>3 DEF Opened
<1>6. Quiet
  <2>1. \A k \in Slot[Client] : ~Mine(conns[Client][k])
    BY <1>1, ZeroIs, TcpAssumption DEF Mine
  <2> QED
    BY <2>1 DEF Link, Linked
<1>7. UNCHANGED <<sent, stored, got, cut>>
  BY DEF net_tcp_connect, hist
<1> QED
  BY <1>1, <1>3, <1>4, <1>5, <1>6, <1>7, QuietLink

LEMMA ArpLink ==
  ASSUME TypeInv, Shape, NEW b \in Nat, Link(b), NEW h \in Host, ArpReply(h)
  PROVE  Link(b)'
<1>1. UNCHANGED <<sent, stored, got, cut>> /\ pending' = [pending EXCEPT ![h] = None]
  BY DEF ArpReply, hist
<1>2. CASE pending[h] = None /\ conns' = conns /\ net' = net /\ isn' = isn
  <2>1. \A x \in Host : pending'[x] = None \/ pending'[x] = pending[x]
    BY <1>1, <1>2 DEF TypeInv, IdsOK
  <2>2. PICK e : e = {}
    OBVIOUS
  <2>3. net' \subseteq net \cup e /\ \A x \in e : x.data = <<>> /\ x.flags = {"RST"}
    BY <1>2, <2>2
  <2> QED
    BY <1>1, <1>2, <2>1, <2>3, RestLink
<1>3. ASSUME pending[h] # None, pending[h] \in Slot[h], NEW d, NEW new,
             Moves(h, pending[h], d, new), Opening(h, d), \A s \in new : Opened(h, s)
      PROVE  Link(b)'
  <2>1. h = Client
    BY <1>3 DEF Host, Shape, ServerOK
  <2>2. Quiet
    BY <1>3, <2>1 DEF Link, Linked
  <2>3. ~Up(d) /\ NoData(d)
    BY <1>3 DEF Opening, NoData, Up
  <2>4. \A s \in new : s.src = Client /\ s.data = <<>> /\ s.flags = {"SYN"}
    BY <1>3, <2>1 DEF Opened
  <2>5. PICK i \in Slot[Client] : i = pending[Client]
    BY <1>3, <2>1
  <2>6. Moves(Client, i, d, new)
    BY <1>3, <2>1, <2>5
  <2> QED
    BY <1>1, <2>2, <2>3, <2>4, <2>6, QuietLink
<1>4. \/ /\ pending[h] # None /\ pending[h] \in Slot[h]
         /\ \E d, new : /\ Moves(h, pending[h], d, new) /\ Opening(h, d)
                        /\ \A s \in new : Opened(h, s)
      \/ pending[h] = None /\ conns' = conns /\ net' = net /\ isn' = isn
  BY ArpDoes
<1> QED
  BY <1>2, <1>3, <1>4

\* The server answers a SYN: slot i waits for the third segment of the handshake.
LEMMA HandLink ==
  ASSUME TypeInv, NEW b \in Nat, Link(b), NEW i \in Slot[Server], NEW d, Set(Server, i, d),
         ~Up(conns[Server][i]), d.state = "SYN_RCVD", d.tx = <<>>,
         d.rx = <<>> \/ d.rx = conns[Server][i].rx, d.eof => conns[Server][i].eof,
         d.seq = isn[Server] + 1 \/ d.seq = B,
         NEW new, net' \subseteq net \cup new,
         \A s \in new : s.src = Server /\ s.data = <<>> /\ "FIN" \notin s.flags /\ s.ack = B,
         UNCHANGED <<sent, stored, got, cut, pending>>,
         isn'[Server] \in Nat, isn[Server] <= isn'[Server]
  PROVE  Link(b)'
<1>1. PICK h \in Host : h = Server /\ Peer(h) = Client /\ h # Client
  BY Hosts
<1>2. PICK c : c = conns[h][i]
  OBVIOUS
<1>3. PICK a, z : /\ a = Base(h, b) /\ z = Base(Peer(h), b) /\ WayOf(h, a) /\ WayOf(Peer(h), z)
                  /\ z = B
  BY <1>1, BaseFit, BaseIs
<1>4. ~Talks(c) /\ ~Up(d) /\ (Active(d) => Active(c))
  BY <1>1, <1>2 DEF Talks, Up, Active
<1>5. SndFits(d, c, a, sent[h], stored[h], h, cut')
  <2>1. Snd(c, a, sent[h], h, cut)
    BY <1>1, <1>2, <1>3, SlotWay
  <2> QED
    BY <1>4, <2>1, SndDown
<1>6. RcvFits(d, c)
  BY <1>1, <1>2, <1>4, RcvDown
<1>7. ASSUME NEW s \in new PROVE Airs(s, h, a, z, conns[Peer(h)], conns'[h], cut')
  <2>1. PICK m \in Nat, n \in Nat : m = sent[Peer(h)] /\ n = stored[Peer(h)]
    BY Hosts DEF TypeInv, HistOK
  <2>2. B <= B + m + 1 /\ ~(B > B + n) /\ B <= B
    <3>1. B \in Nat
      BY IsnTypes
    <3> QED
      BY <2>1, <3>1
  <2>3. Outgoing(s, a, sent[h]) /\ s.src = h /\ "FIN" \notin s.flags
    BY <1>1 DEF Outgoing
  <2>4. Comes(s, z, sent[Peer(h)]) /\ ~(s.ack > z + stored[Peer(h)])
    BY <1>3, <2>1, <2>2 DEF Comes
  <2> QED
    BY <2>3, <2>4 DEF Airs
<1>8. Set(h, i, d)
  BY <1>1
<1>9. WayOf(h, a)' /\ WayOf(Peer(h), z)'
  BY <1>1, <1>2, <1>3, <1>5, <1>6, <1>7, <1>8, Keeping
<1>10. a = Base(h, b)' /\ z = Base(Peer(h), b)'
  BY <1>3 DEF Base, B
<1>11. ASSUME NEW g \in Host PROVE One(conns'[g]) /\ sent'[g] <= Writes[g]
  <2>1. One(conns[g]) /\ sent[g] <= Writes[g]
    BY DEF Link
  <2> QED
    BY <1>1, <1>2, <1>4, <1>8, <2>1, OneKept
<1>12. /\ conns'[Client] = conns[Client] /\ conns'[Server][i] = d
       /\ \A j \in Slot[Server] : j = i \/ conns'[Server][j] = conns[Server][j]
  BY <1>1, <1>8, SlotSet, Hosts
<1>13. /\ By(Server)' \subseteq By(Server) \cup new /\ By(Client)' \subseteq By(Client)
  BY <1>1, ByIs
<1>14. ASSUME Silent(conns[Server]) PROVE Silent(conns'[Server])
  <2>1. ~Active(c) /\ ~c.eof
    BY <1>1, <1>2, <1>14, NotBlank
  <2>2. ~Active(d) /\ ~d.eof
    BY <1>1, <1>2, <1>4, <2>1
  <2> QED
    BY <1>1, <1>8, <1>14, <2>2, BlankSet
<1>15. ASSUME Quiet PROVE Quiet'
  <2>1. Mute(net')
    BY <1>15 DEF Quiet, Mute
  <2> QED
    BY <1>12, <1>13, <1>14, <1>15, <2>1 DEF Quiet, B
<1>16. ASSUME Fresh(b) PROVE Fresh(b)'
  <2>1. Mute(By(Server)')
    BY <1>13, <1>16 DEF Fresh, Mute
  <2> QED
    BY <1>12, <1>13, <1>14, <1>16, <2>1 DEF Fresh
<1>17. ASSUME Met(b) PROVE Met(b)'
  <2>1. b + Writes[Server] < isn'[Server]
    <3>1. isn[Server] \in Nat /\ STEP \in Nat /\ Writes[Server] \in Nat
      BY IsnTypes
    <3> QED
      BY <1>17, <3>1 DEF Met
  <2>2. d.seq \notin b .. b + Writes[Server] + 1
    <3>1. CASE d.seq = B
      BY <1>17, <3>1 DEF Met
    <3>2. CASE d.seq = isn[Server] + 1
      <4>1. isn[Server] \in Nat /\ Writes[Server] \in Nat
        BY IsnTypes
      <4> QED
        BY <1>17, <3>2, <4>1 DEF Met
    <3> QED
      BY <3>1, <3>2
  <2>3. \A j \in Slot[Server] : conns'[Server][j].state = "SYN_RCVD" =>
          conns'[Server][j].seq \notin b .. b + Writes[Server] + 1
    BY <1>12, <1>17, <2>2 DEF Met
  <2> QED
    BY <1>17, <2>1, <2>3 DEF Met, B
<1>18. (Quiet \/ Linked(b))'
  <2>1. Linked(b) => Linked(b)'
    BY <1>12, <1>16, <1>17 DEF Linked, Mine, B
  <2> QED
    BY <1>15, <2>1 DEF Link
<1> QED
  BY <1>9, <1>10, <1>11, <1>18, LinkFrom

LEMMA FirstByte ==
  ASSUME TypeInv, NumbersFit
  PROVE  Plus(Isn[Client], 1) = B
<1>1. Isn[Client] + 1 < MOD /\ Isn[Client] \in Nat
  BY IsnTypes DEF NumbersFit
<1> QED
  BY <1>1, PlusIs DEF B

LEMMA SpawnLink ==
  ASSUME TypeInv, NumbersFit, Shape, NEW b \in Nat, Link(b), NEW h \in Host, NEW s \in net,
         s.src = Peer(h), NEW air \in SUBSET net, Spawn(h, s, air),
         UNCHANGED <<sent, got, cut, pending>>
  PROVE  Link(b)'
<1>1. s \in Segments
  BY DEF TypeInv, NetOK
<1>2. /\ "SYN" \in s.flags /\ Advance(h) /\ stored' = stored
      /\ \E l \in Slot[h] : conns[h][l].state = "LISTEN"
  BY <1>1, SpawnDoes
<1>3. h = Server
  BY <1>2, ClientStates DEF Host
<1>4. s = Hello
  BY <1>2, <1>3, Hosts DEF Shape, SegsOK, SegOK
<1>5. Plus(s.seq, 1) = B
  BY <1>4, FirstByte, HelloHas
<1>6. PICK i \in Slot[h] : \E d, new :
              /\ ~conns[h][i].in_use /\ Takes(h, i, d, air, new)
              /\ d.state = "SYN_RCVD" /\ d.in_use /\ NoData(d)
              /\ d.lport = s.dport /\ d.rport = s.sport
              /\ d.seq = Plus(isn[h], 1) /\ d.ack = Plus(s.seq, 1)
              /\ new \subseteq Segments
              /\ \A x \in new : /\ x.src = h /\ x.flags = {"SYN", "ACK"} /\ x.data = <<>>
                                /\ x.seq = isn[h] /\ x.ack = Plus(s.seq, 1)
  BY <1>1, SpawnDoes
<1>7. PICK d, new :
              /\ ~conns[h][i].in_use /\ Takes(h, i, d, air, new)
              /\ d.state = "SYN_RCVD" /\ NoData(d) /\ d.seq = Plus(isn[h], 1)
              /\ \A x \in new : /\ x.src = h /\ x.flags = {"SYN", "ACK"} /\ x.data = <<>>
                                /\ x.ack = Plus(s.seq, 1)
  BY <1>6
<1>8. Set(Server, i, d) /\ net' \subseteq net \cup new
  BY <1>3, <1>7 DEF Takes
<1>9. ~Up(conns[Server][i])
  <2>1. conns[Server][i].state = "CLOSED"
    BY <1>3, <1>7 DEF Shape, ServerOK, ServerSlot
  <2> QED
    BY <2>1 DEF Up
<1>10. d.seq = isn[Server] + 1
  BY <1>3, <1>7, IsnFar, IsnTypes, PlusIs
<1>11. isn'[Server] \in Nat /\ isn[Server] <= isn'[Server]
  <2>1. isn'[Server] = isn[Server] + STEP
    BY <1>2, <1>3, <1>4, Advanced
  <2> QED
    BY <2>1, IsnTypes
<1>12. \A x \in new : x.src = Server /\ x.data = <<>> /\ "FIN" \notin x.flags /\ x.ack = B
  BY <1>3, <1>5, <1>7
<1>13. d.tx = <<>> /\ d.rx = <<>> /\ ~d.eof
  BY <1>7 DEF NoData
<1> QED
  BY <1>2, <1>3, <1>7, <1>8, <1>9, <1>10, <1>11, <1>12, <1>13, HandLink

LEMMA ReSynLink ==
  ASSUME TypeInv, NumbersFit, Shape, NEW b \in Nat, Link(b), NEW i \in Slot[Server], NEW s \in net,
         s.src = Client, "SYN" \in s.flags, NEW d, NEW new, NEW air \in SUBSET net,
         Takes(Server, i, d, air, new), conns[Server][i].state = "SYN_RCVD",
         d.state = "SYN_RCVD", d.seq = Plus(s.seq, 1), d.rx = conns[Server][i].rx,
         d.tx = conns[Server][i].tx, d.eof = conns[Server][i].eof,
         Sends(new, Server, conns[Server][i], {"SYN", "ACK"}, <<>>),
         UNCHANGED <<sent, stored, got, cut, pending, isn>>
  PROVE  Link(b)'
<1>1. PICK c : c = conns[Server][i]
  OBVIOUS
<1>2. ServerSlot(c) /\ Keeps(c)
  BY <1>1, Hosts DEF Shape, ServerOK, KeepsOK
<1>3. ~Up(c) /\ c.in_use /\ c.ack = B
  BY <1>1, <1>2 DEF Up, ServerSlot
<1>4. c.tx = <<>>
  BY <1>2, <1>3 DEF Keeps
<1>5. s = Hello
  BY Hosts DEF Shape, SegsOK, SegOK
<1>6. d.seq = B
  BY <1>5, FirstByte, HelloHas
<1>7. Set(Server, i, d) /\ net' \subseteq net \cup new
  BY DEF Takes
<1>8. \A x \in new : x.src = Server /\ x.data = <<>> /\ "FIN" \notin x.flags /\ x.ack = B
  BY <1>1, <1>3 DEF Sends
<1>9. isn'[Server] \in Nat /\ isn[Server] <= isn'[Server]
  BY IsnTypes
<1> QED
  BY <1>1, <1>3, <1>4, <1>6, <1>7, <1>8, <1>9, HandLink

-----------------------------------------------------------------------------
(* The connection comes up                                                 *)

\* What a SYN of the server makes the base of its stream
LEMMA NewBase ==
  ASSUME TypeInv, NumbersFit, Shape, NEW s \in net, s.src = Server, "SYN" \in s.flags
  PROVE  \E b \in Seq32 : /\ b = s.seq + 1 /\ b = Plus(s.seq, 1) /\ b # B /\ s.ack = B
                          /\ b + Writes[Server] + 1 < MOD
<1>1. s \in Segments
  BY DEF TypeInv, NetOK
<1>2. PICK x \in Nat : x = s.seq
  BY <1>1, SegmentFields
<1>3. s.ack = B /\ (x = B \/ (Isn[Server] <= x /\ x + STEP <= isn[Server] + 1))
  BY <1>2 DEF Shape, SegsOK, SegOK
<1>4. PICK p \in Nat, q \in Nat, w \in Nat, v \in Nat, f \in Nat, y \in Nat :
        /\ p = Isn[Client] /\ q = Isn[Server] /\ w = Writes[Server] /\ v = Writes[Client]
        /\ f = Far(MaxFaults + 1) /\ y = isn[Server]
  <2>1. Far(MaxFaults + 1) \in Nat
    BY IsnTypes, FarUp
  <2> QED
    BY <2>1, IsnTypes
<1>5. STEP \in Nat /\ MOD \in Nat /\ B = p + 1
  BY <1>4, IsnTypes DEF B
<1>6. STEP > w + 1 /\ p + v + w + 3 < MOD /\ p \notin q .. f
  BY <1>4 DEF NumbersFit
<1>7. y <= f /\ y + 1 < MOD
  BY <1>4, IsnFar
<1>8. x + 1 # B /\ x + 1 + w + 1 < MOD
  <2>1. CASE x = B
    BY <1>5, <1>6, <2>1
  <2>2. CASE q <= x /\ x + STEP <= y + 1
    BY <1>5, <1>6, <1>7, <2>2
  <2> QED
    BY <1>3, <1>4, <2>1, <2>2
<1>9. x + 1 < MOD
  BY <1>5, <1>8
<1>10. Plus(x, 1) = x + 1 /\ x + 1 \in Seq32
  <2>1. Plus(x, 1) = x + 1
    BY <1>9, PlusIs
  <2>2. Plus(x, 1) \in Seq32
    BY PlusIn
  <2> QED
    BY <2>1, <2>2
<1> QED
  BY <1>2, <1>3, <1>4, <1>8, <1>10

\* The slot of a connect in progress is the one of the client.
LEMMA Starting ==
  ASSUME TypeInv, Shape, NEW i \in Slot[Client], conns[Client][i].state = "SYN_SENT"
  PROVE  /\ pending[Client] = None /\ Mine(conns[Client][i]) /\ conns[Client][i].seq = B
         /\ \A j \in Slot[Client] : j = i \/ Untouched(conns[Client][j])
<1>1. PICK k \in Slot[Client] : /\ \A j \in Slot[Client] : j = k \/ Untouched(conns[Client][j])
                                /\ Before(k) \/ Begun(k)
  BY DEF Shape, ClientOK
<1>2. \A c : Untouched(c) => c.state = "CLOSED"
  BY ZeroIs DEF Untouched
<1>3. i = k
  BY <1>1, <1>2
<1>4. ~Before(k)
  BY <1>2, <1>3 DEF Before
<1> QED
  BY <1>1, <1>3, <1>4 DEF Begun

LEMMA FirstWays ==
  ASSUME TypeInv, Quiet, NEW b \in Nat, NEW i \in Slot[Client], NEW d, Set(Client, i, d),
         d.state = "ESTABLISHED", d.ack = b, d.seq = B, d.rx = <<>>, d.tx = <<>>, ~d.eof,
         NEW new, net' \subseteq net \cup new,
         \A s \in new : s.src = Client /\ s.data = <<>> /\ s.flags = {"ACK"} /\ s.ack = b,
         UNCHANGED <<sent, stored, got, cut>>
  PROVE  WayOf(Client, B)' /\ WayOf(Server, b)' /\ Fresh(b)'
<1>1. /\ conns'[Client][i] = d /\ conns'[Server] = conns[Server]
      /\ \A j \in Slot[Client] : j = i \/ conns'[Client][j] = conns[Client][j]
      /\ DOMAIN conns'[Client] = Slot[Client] /\ DOMAIN conns'[Server] = Slot[Server]
  BY SlotSet, Hosts
<1>2. By(Client)' \subseteq By(Client) \cup new /\ By(Server)' \subseteq By(Server)
  BY ByIs, Hosts
<1>3. Up(d) /\ Talks(d) /\ ~Heard(d)
  BY DEF Up, Talks, Heard
<1>4. \A j \in Slot[Server] : /\ ~Up(conns'[Server][j]) /\ ~conns'[Server][j].eof
                              /\ conns'[Server][j].rx = <<>> /\ conns'[Server][j].tx = <<>>
  BY <1>1, NotBlank, Hosts DEF Quiet
<1>5. \A j \in Slot[Client] : j = i \/ /\ ~Up(conns'[Client][j]) /\ ~conns'[Client][j].eof
                                       /\ conns'[Client][j].rx = <<>>
                                       /\ conns'[Client][j].tx = <<>>
  BY <1>1, NotBlank, Hosts DEF Quiet
<1>6. \A s \in By(Client)' \cup By(Server)' : s.data = <<>> /\ "FIN" \notin s.flags
  BY <1>2 DEF Quiet, Mute, By
<1>7. \A s \in By(Server)' : "ACK" \in s.flags => s.ack = B
  BY <1>2 DEF Quiet
<1>8. \A s \in By(Client)' : "ACK" \in s.flags => s.ack = b
  BY <1>2 DEF Quiet
<1>9. sent' = sent /\ stored' = stored /\ got' = got
      /\ \A h \in Host : sent[h] = 0 /\ stored[h] = 0 /\ got[h] = <<>>
  BY DEF Quiet
<1>10. WayOf(Client, B)'
  <2>1. PICK S, R, out, back, gone : /\ S = conns'[Client] /\ R = conns'[Server] /\ gone = cut'
                                     /\ out = By(Client)' /\ back = By(Server)'
    OBVIOUS
  <2>2. \A j \in DOMAIN S : S[j].tx = <<>> /\ (Up(S[j]) => Talks(S[j]) /\ S[j].seq = B)
    BY <1>1, <1>3, <1>5, <2>1
  <2>3. \A j \in DOMAIN R : /\ R[j].rx = <<>> /\ ~R[j].eof
                            /\ Up(R[j]) => ~Heard(R[j]) /\ R[j].ack = B
    BY <1>1, <1>4, <2>1
  <2>4. \A s \in out : s.data = <<>> /\ "FIN" \notin s.flags
    BY <1>6, <2>1
  <2>5. \A s \in back : "ACK" \in s.flags => s.ack = B
    BY <1>7, <2>1
  <2>6. B \in Nat
    BY IsnTypes
  <2>7. Way(B, S, R, out, back, 0, 0, <<>>, Client, gone)
    BY <2>2, <2>3, <2>4, <2>5, <2>6, WayNew
  <2>8. WayOf(Client, B)' = Way(B, S, R, out, back, 0, 0, <<>>, Client, gone)
    BY <1>9, <2>1, Hosts DEF WayOf, B
  <2> QED
    BY <2>7, <2>8
<1>11. WayOf(Server, b)'
  <2>1. PICK S, R, out, back, gone : /\ S = conns'[Server] /\ R = conns'[Client] /\ gone = cut'
                                     /\ out = By(Server)' /\ back = By(Client)'
    OBVIOUS
  <2>2. \A j \in DOMAIN S : S[j].tx = <<>> /\ (Up(S[j]) => Talks(S[j]) /\ S[j].seq = b)
    BY <1>1, <1>4, <2>1
  <2>3. \A j \in DOMAIN R : /\ R[j].rx = <<>> /\ ~R[j].eof
                            /\ Up(R[j]) => ~Heard(R[j]) /\ R[j].ack = b
    BY <1>1, <1>3, <1>5, <2>1
  <2>4. \A s \in out : s.data = <<>> /\ "FIN" \notin s.flags
    BY <1>6, <2>1
  <2>5. \A s \in back : "ACK" \in s.flags => s.ack = b
    BY <1>8, <2>1
  <2>6. Way(b, S, R, out, back, 0, 0, <<>>, Server, gone)
    BY <2>2, <2>3, <2>4, <2>5, WayNew
  <2>7. WayOf(Server, b)' = Way(b, S, R, out, back, 0, 0, <<>>, Server, gone)
    BY <1>9, <2>1, Hosts DEF WayOf
  <2> QED
    BY <2>6, <2>7
<1>12. Fresh(b)'
  <2>1. Silent(conns'[Server])
    BY <1>1 DEF Quiet
  <2>2. Mute(By(Server)')
    BY <1>6 DEF Mute
  <2>3. \A j \in Slot[Client] : ~conns'[Client][j].eof
    BY <1>1, <1>5
  <2> QED
    BY <1>8, <1>9, <2>1, <2>2, <2>3, Hosts DEF Fresh
<1> QED
  BY <1>10, <1>11, <1>12

LEMMA UpLink ==
  ASSUME TypeInv, NumbersFit, Shape, LinkInv, NEW i \in Slot[Client], NEW s \in net, s.src = Server,
         "SYN" \in s.flags, NEW air \in SUBSET net, NEW d, NEW new,
         Takes(Client, i, d, air, new), conns[Client][i].state = "SYN_SENT",
         Connected(d, conns[Client][i], s), Sends(new, Client, d, {"ACK"}, <<>>),
         UNCHANGED <<sent, stored, got, cut, pending, isn>>
  PROVE  LinkInv'
<1>1. PICK b0 \in Seq32 : Link(b0)
  BY DEF LinkInv
<1>2. Quiet
  BY <1>1 DEF Link, Linked
<1>3. PICK b \in Seq32 : /\ b = Plus(s.seq, 1) /\ b # B /\ s.ack = B
                         /\ b + Writes[Server] + 1 < MOD
  BY NewBase
<1>4. b \in Nat
  BY Seq32In
<1>5. /\ pending[Client] = None /\ Mine(conns[Client][i])
      /\ \A j \in Slot[Client] : j = i \/ Untouched(conns[Client][j])
  BY Starting
<1>6. conns[Client][i].rx = <<>> /\ conns[Client][i].tx = <<>> /\ ~conns[Client][i].eof
  BY <1>2, NotBlank, Hosts DEF Quiet
<1>7. d.state = "ESTABLISHED" /\ d.ack = b /\ d.seq = B /\ d.rx = <<>> /\ d.tx = <<>> /\ ~d.eof
  BY <1>3, <1>6 DEF Connected
<1>8. Set(Client, i, d) /\ net' \subseteq net \cup new
  BY DEF Takes
<1>9. \A x \in new : x.src = Client /\ x.data = <<>> /\ x.flags = {"ACK"} /\ x.ack = b
  BY <1>7 DEF Sends
<1>10. WayOf(Client, B)' /\ WayOf(Server, b)' /\ Fresh(b)'
  BY <1>2, <1>4, <1>7, <1>8, <1>9, FirstWays
<1>11. /\ conns'[Client][i] = d
       /\ \A j \in Slot[Client] : j = i \/ conns'[Client][j] = conns[Client][j]
  BY <1>8, SlotSet, Hosts
<1>12. Mine(conns'[Client][i])
  BY <1>5, <1>11 DEF Mine, Connected
<1>13. \A j \in Slot[Client] : conns'[Client][j].state # "SYN_SENT"
  BY <1>5, <1>7, <1>11, ZeroIs DEF Untouched
<1>14. Linked(b)'
  BY <1>3, <1>5, <1>10, <1>12, <1>13 DEF Linked, B
<1>15. ASSUME NEW g \in Host PROVE One(conns'[g]) /\ sent'[g] <= Writes[g]
  <2>1. One(conns[g]) /\ sent[g] <= Writes[g]
    BY <1>1 DEF Link
  <2>2. Silent(conns[Client])
    BY <1>2 DEF Quiet
  <2> QED
    BY <1>8, <2>1, <2>2, OneKept, Hosts
<1>16. B + Writes[Client] + 1 < MOD
  <2>1. Isn[Client] \in Nat /\ Writes[Client] \in Nat /\ Writes[Server] \in Nat /\ MOD \in Nat
    BY IsnTypes
  <2>2. Isn[Client] + Writes[Client] + Writes[Server] + 3 < MOD
    BY DEF NumbersFit
  <2> QED
    BY <2>1, <2>2 DEF B
<1>17. ASSUME NEW g \in Host PROVE WayOf(g, Base(g, b))' /\ Base(g, b) + Writes[g] + 1 < MOD
  <2>1. CASE g = Client
    BY <1>10, <1>16, <2>1 DEF Base, B
  <2>2. CASE g = Server
    BY <1>3, <1>10, <2>2, Hosts DEF Base
  <2> QED
    BY <2>1, <2>2 DEF Host
<1>18. \A g \in Host : Base(g, b)' = Base(g, b)
  BY DEF Base, B
<1>19. Link(b)'
  BY <1>14, <1>15, <1>17, <1>18 DEF Link
<1> QED
  BY <1>19 DEF LinkInv, Seq32

\* An ACK of the client tells a child in its handshake from the others.
LEMMA ThirdSegment ==
  ASSUME TypeInv, NumbersFit, Shape, NEW b \in Nat, Link(b), NEW i \in Slot[Server], NEW s \in net,
         s.src = Client, conns[Server][i].state = "SYN_RCVD", "ACK" \in s.flags,
         s.ack = conns[Server][i].seq
  PROVE  Linked(b) /\ Fresh(b) /\ s.ack = b /\ Counted(b)
<1>1. s \in By(Client) /\ s \in Segments
  BY DEF By, TypeInv, NetOK
<1>2. Linked(b)
  BY <1>1 DEF Link, Quiet
<1>3. PICK x \in Nat, m \in Nat, w \in Nat : x = s.ack /\ m = sent[Server] /\ w = Writes[Server]
  BY <1>1, SegmentFields, Hosts, IsnTypes DEF TypeInv, HistOK
<1>4. WayOf(Server, b) /\ m <= w
  BY <1>3, Hosts, BaseIs DEF Link
<1>5. b <= x /\ x <= b + m + 1
  <2>1. Comes(s, b, sent[Server])
    BY <1>1, <1>4, Hosts DEF WayOf, Way
  <2> QED
    BY <1>3, <2>1 DEF Comes
<1>6. ~Met(b)
  <2>1. x \in b .. b + w + 1
    BY <1>3, <1>4, <1>5
  <2> QED
    BY <1>3, <2>1 DEF Met
<1>7. Fresh(b)
  BY <1>2, <1>6 DEF Linked
<1>8. s.ack = b
  BY <1>1, <1>7 DEF Fresh
<1>9. Counted(s.ack)
  BY DEF Shape, ServerOK, ServerSlot
<1> QED
  BY <1>2, <1>7, <1>8, <1>9

\* Both ways at their beginning, for a connection of the server that comes up in slot i.
LEMMA SecondWays ==
  ASSUME TypeInv, NEW b \in Nat, Link(b), Fresh(b), NEW i \in Slot[Server], NEW d,
         Set(Server, i, d), d.state = "ESTABLISHED", d.ack = B, d.seq = b,
         d.rx = <<>>, d.tx = <<>>, d.eof = FALSE, net' \subseteq net,
         UNCHANGED <<sent, stored, got, cut>>
  PROVE  WayOf(Client, B)' /\ WayOf(Server, b)'
<1>1. /\ conns'[Server][i] = d /\ conns'[Client] = conns[Client]
      /\ \A j \in Slot[Server] : j = i \/ conns'[Server][j] = conns[Server][j]
      /\ DOMAIN conns'[Client] = Slot[Client] /\ DOMAIN conns'[Server] = Slot[Server]
  BY SlotSet, Hosts
<1>2. By(Client)' \subseteq By(Client) /\ By(Server)' \subseteq By(Server)
  BY DEF By
<1>3. Up(d) /\ Talks(d)
  BY DEF Up, Talks
<1>4. WayOf(Server, b) /\ WayOf(Client, B)
  BY Hosts, BaseIs DEF Link
<1>5. PICK S, R, out, back, gone : /\ S = conns'[Server] /\ R = conns'[Client] /\ gone = cut'
                                   /\ out = By(Server)' /\ back = By(Client)'
  OBVIOUS
<1>6. \A j \in Slot[Server] : j = i \/ (~Up(S[j]) /\ S[j].tx = <<>>)
  BY <1>1, <1>5, NotBlank, Hosts DEF Fresh
<1>7. PICK g \in Seq(Nat), k \in Seq(Nat) : g = got[Server] /\ k = got[Client]
  BY Hosts DEF TypeInv, HistOK
<1>8. /\ sent[Server] = 0 /\ stored[Server] \in Nat /\ stored[Client] = 0
      /\ stored[Server] <= sent[Server] /\ Len(g) <= stored[Server] /\ Len(k) <= stored[Client]
  BY <1>4, <1>7, Hosts DEF TypeInv, HistOK, WayOf, Way, Fresh
<1>9. stored[Server] = 0 /\ g = <<>> /\ k = <<>>
  <2>1. Len(g) \in Nat /\ Len(k) \in Nat
    BY <1>7
  <2>2. stored[Server] = 0 /\ Len(g) = 0 /\ Len(k) = 0
    BY <1>8, <2>1
  <2> QED
    BY <1>7, <2>2
<1>10. ASSUME NEW j \in Slot[Client]
       PROVE  /\ conns[Client][j].rx = <<>> /\ ~conns[Client][j].eof
              /\ Up(conns[Client][j]) => ~Heard(conns[Client][j]) /\ conns[Client][j].ack = b
  <2>1. PICK c \in Conns : c = conns[Client][j]
    BY Hosts DEF TypeInv, TablesOK, Sized
  <2>2. Rcv(c, b, 0, 0, 0)
    <3>1. Rcv(c, b, sent[Server], stored[Server], Len(g))
      BY <1>4, <1>7, <2>1, Hosts DEF WayOf, Way, TypeInv, TablesOK
    <3>2. Len(g) = 0
      BY <1>9
    <3> QED
      BY <1>8, <1>9, <3>1, <3>2
  <2>3. ~c.eof
    BY <2>1 DEF Fresh
  <2>4. c.rx \in Seq(Nat) /\ Len(c.rx) \in Nat
    BY <2>1, Fields
  <2>5. c.rx = <<>>
    BY <2>2, <2>4 DEF Rcv
  <2>6. Up(c) => ~Heard(c) /\ c.ack = b
    BY <2>2, <2>3 DEF Rcv
  <2> QED
    BY <2>1, <2>3, <2>5, <2>6
<1>11. WayOf(Server, b)'
  <2>1. \A j \in DOMAIN S : S[j].tx = <<>> /\ (Up(S[j]) => Talks(S[j]) /\ S[j].seq = b)
    BY <1>1, <1>3, <1>5, <1>6
  <2>2. \A j \in DOMAIN R : /\ R[j].rx = <<>> /\ ~R[j].eof
                            /\ Up(R[j]) => ~Heard(R[j]) /\ R[j].ack = b
    BY <1>1, <1>5, <1>10
  <2>3. \A s \in out : s.data = <<>> /\ "FIN" \notin s.flags
    BY <1>2, <1>5 DEF Fresh, Mute
  <2>4. \A s \in back : "ACK" \in s.flags => s.ack = b
    BY <1>2, <1>5 DEF Fresh
  <2>5. Way(b, S, R, out, back, 0, 0, <<>>, Server, gone)
    BY <2>1, <2>2, <2>3, <2>4, WayNew
  <2>6. WayOf(Server, b)' = Way(b, S, R, out, back, 0, 0, <<>>, Server, gone)
    BY <1>5, <1>7, <1>8, <1>9, Hosts DEF WayOf
  <2> QED
    BY <2>5, <2>6
<1>12. WayOf(Client, B)'
  <2>1. PICK m : m = sent[Client]
    OBVIOUS
  <2>2. Way(B, R, conns[Server], By(Client), By(Server), m, 0, k, Client, gone)
    BY <1>1, <1>4, <1>5, <1>7, <1>8, <2>1, Hosts DEF WayOf
  <2>3. Way(B, R, conns[Server], back, out, m, 0, k, Client, gone)
    BY <1>2, <1>5, <2>2, WayLess
  <2>4. Put(S, conns[Server], i, d)
    BY <1>5, PutIs, Hosts
  <2>5. B \in Nat
    BY IsnTypes
  <2>6. Way(B, R, S, back, out, m, 0, k, Client, gone)
    BY <1>9, <2>3, <2>4, <2>5, WayUp
  <2>7. WayOf(Client, B)' = Way(B, R, S, back, out, m, 0, k, Client, gone)
    BY <1>5, <1>7, <1>8, <2>1, Hosts DEF WayOf, B
  <2> QED
    BY <2>6, <2>7
<1> QED
  BY <1>11, <1>12

LEMMA MeetLink ==
  ASSUME TypeInv, NumbersFit, Shape, NEW b \in Nat, Link(b), NEW i \in Slot[Server], NEW s \in net,
         s.src = Client, NEW air \in SUBSET net, NEW d, Takes(Server, i, d, air, {}),
         conns[Server][i].state = "SYN_RCVD", "ACK" \in s.flags, s.ack = conns[Server][i].seq,
         KeptFields(d, conns[Server][i]), d.state = "ESTABLISHED", d.ack = conns[Server][i].ack,
         d.eof = conns[Server][i].eof, UNCHANGED <<sent, stored, got, cut, pending, isn>>
  PROVE  Link(b)'
<1>1. Linked(b) /\ Fresh(b) /\ s.ack = b /\ Counted(b)
  BY ThirdSegment
<1>2. PICK c : c = conns[Server][i]
  OBVIOUS
<1>3. c.ack = B /\ IsChild(c)
  BY <1>2 DEF Shape, ServerOK, ServerSlot, IsChild
<1>4. c.rx = <<>> /\ c.tx = <<>> /\ ~c.eof
  BY <1>1, <1>2, NotBlank, Hosts DEF Fresh
<1>5. d.ack = B /\ d.seq = b /\ d.rx = <<>> /\ d.tx = <<>>
  BY <1>1, <1>2, <1>3, <1>4 DEF KeptFields
<1>6. d.eof = FALSE
  <2>1. Sized(Server, conns[Server][i])
    BY Hosts DEF TypeInv, TablesOK
  <2>2. c.eof \in BOOLEAN
    BY <1>2, <2>1, Fields DEF Sized
  <2> QED
    BY <1>2, <1>4, <2>2
<1>7. Set(Server, i, d) /\ net' \subseteq net
  BY DEF Takes
<1>8. WayOf(Client, B)' /\ WayOf(Server, b)'
  BY <1>1, <1>5, <1>6, <1>7, SecondWays
<1>9. /\ conns'[Server][i] = d /\ conns'[Client] = conns[Client]
      /\ \A j \in Slot[Server] : j = i \/ conns'[Server][j] = conns[Server][j]
  BY <1>7, SlotSet, Hosts
<1>10. \A j \in Slot[Server] : conns'[Server][j].state # "SYN_RCVD"
  <2>1. \A j \in Slot[Server] : conns[Server][j].state = "SYN_RCVD" => j = i
    BY <1>2, <1>3 DEF Shape, ServerOK, IsChild
  <2> QED
    BY <1>9, <2>1
<1>11. b + Writes[Server] < isn[Server] /\ B \notin b .. b + Writes[Server] + 1
  <2>1. PICK p \in Nat, q \in Nat, w \in Nat, f \in Nat, y \in Nat :
          /\ p = Isn[Client] /\ q = Isn[Server] /\ w = Writes[Server]
          /\ f = Far(MaxFaults + 1) /\ y = isn[Server]
    <3>1. Far(MaxFaults + 1) \in Nat
      BY IsnTypes, FarUp
    <3> QED
      BY <3>1, IsnTypes
  <2>2. STEP \in Nat /\ STEP > w + 1 /\ p \notin q .. f /\ B = p + 1 /\ y <= f
    BY <2>1, IsnTypes, IsnFar DEF NumbersFit, B
  <2>3. q + 1 <= b /\ b + STEP <= y + 1
    BY <1>1, <2>1 DEF Counted, Linked
  <2>4. b + w < y /\ B \notin b .. b + w + 1
    BY <2>2, <2>3
  <2> QED
    BY <2>1, <2>4
<1>12. Met(b)'
  BY <1>10, <1>11 DEF Met, B
<1>13. Linked(b)'
  BY <1>1, <1>9, <1>12 DEF Linked, Mine, B
<1>14. ASSUME NEW g \in Host PROVE One(conns'[g]) /\ sent'[g] <= Writes[g]
  <2>1. One(conns[g]) /\ sent[g] <= Writes[g]
    BY DEF Link
  <2>2. Silent(conns[Server])
    BY <1>1 DEF Fresh
  <2> QED
    BY <1>7, <2>1, <2>2, OneKept, Hosts
<1>15. PICK h \in Host : h = Server /\ Peer(h) = Client
  BY Hosts
<1>16. WayOf(h, Base(h, b))' /\ WayOf(Peer(h), Base(Peer(h), b))'
  BY <1>8, <1>15, Hosts DEF Base, B
<1> QED
  BY <1>13, <1>14, <1>16, LinkFrom

-----------------------------------------------------------------------------
(* Every step                                                              *)

LEMMA LinkIn == ASSUME NEW b \in Seq32, Link(b)' PROVE LinkInv'
BY DEF LinkInv, Seq32

LEMMA SynSentLink ==
  ASSUME TypeInv, NumbersFit, Shape, LinkInv, NEW h \in Host, NEW i \in Slot[h], NEW s \in net,
         s.src = Peer(h), NEW air \in SUBSET net, SynSent(h, i, s, air),
         UNCHANGED <<sent, got, cut, pending>>
  PROVE  LinkInv'
<1>1. s \in Segments
  BY DEF TypeInv, NetOK
<1>2. PICK b \in Seq32 : Link(b) /\ b \in Nat
  BY Seq32In DEF LinkInv
<1>3. conns[h][i].state = "SYN_SENT" /\ isn' = isn /\ stored' = stored
  BY <1>1, SynSentDoes
<1>4. h = Client
  <2>1. h # Server
    BY <1>3 DEF Shape, ServerOK, ServerSlot
  <2> QED
    BY <2>1 DEF Host
<1>5. CASE conns' = conns /\ net' = air
  <2>1. net' \subseteq net
    BY <1>5
  <2>2. Link(b)'
    BY <1>2, <1>3, <1>5, <2>1, StillLink
  <2> QED
    BY <2>2, LinkIn
<1>6. ASSUME NEW d, NEW new, Takes(h, i, d, air, new), Connected(d, conns[h][i], s),
             Sends(new, h, d, {"ACK"}, <<>>), "SYN" \in s.flags
      PROVE  LinkInv'
  <2>1. s.src = Server /\ i \in Slot[Client] /\ conns[Client][i].state = "SYN_SENT"
    BY <1>3, <1>4, Hosts
  <2>2. /\ Takes(Client, i, d, air, new) /\ Connected(d, conns[Client][i], s)
        /\ Sends(new, Client, d, {"ACK"}, <<>>)
    BY <1>4, <1>6
  <2> QED
    BY <1>3, <1>6, <2>1, <2>2, UpLink
<1>7. \/ conns' = conns /\ net' = air
      \/ /\ {"SYN", "ACK"} \subseteq s.flags
         /\ \E d, new : /\ Takes(h, i, d, air, new) /\ Connected(d, conns[h][i], s)
                        /\ Sends(new, h, d, {"ACK"}, <<>>)
  BY <1>1, SynSentDoes
<1> QED
  BY <1>5, <1>6, <1>7

LEMMA SynRcvdLink ==
  ASSUME TypeInv, NumbersFit, Shape, NEW b \in Nat, Link(b), NEW h \in Host, NEW i \in Slot[h],
         NEW s \in net, s.src = Peer(h), NEW air \in SUBSET net, SynRcvd(h, i, s, air),
         UNCHANGED <<sent, got, cut, pending>>
  PROVE  Link(b)'
<1>1. s \in Segments
  BY DEF TypeInv, NetOK
<1>2. conns[h][i].state = "SYN_RCVD" /\ isn' = isn /\ stored' = stored
  BY <1>1, SynRcvdDoes
<1>3. h = Server
  BY <1>2, ClientStates DEF Host
<1>4. s.src = Client /\ i \in Slot[Server] /\ conns[Server][i].state = "SYN_RCVD"
  BY <1>2, <1>3, Hosts
<1>5. \/ conns' = conns /\ net' = air
      \/ /\ "ACK" \in s.flags /\ "SYN" \notin s.flags /\ s.ack = conns[Server][i].seq
         /\ \E d : /\ Takes(Server, i, d, air, {}) /\ KeptFields(d, conns[Server][i])
                   /\ d.state = "ESTABLISHED" /\ d.ack = conns[Server][i].ack
                   /\ d.eof = conns[Server][i].eof
      \/ /\ "SYN" \in s.flags
         /\ \E d, new : /\ Takes(Server, i, d, air, new) /\ d.state = "SYN_RCVD"
                        /\ d.seq = Plus(s.seq, 1)
                        /\ d.rx = conns[Server][i].rx /\ d.tx = conns[Server][i].tx
                        /\ d.eof = conns[Server][i].eof
                        /\ Sends(new, Server, conns[Server][i], {"SYN", "ACK"}, <<>>)
  BY <1>1, <1>3, SynRcvdDoes
<1>6. CASE conns' = conns /\ net' = air
  <2>1. net' \subseteq net
    BY <1>6
  <2> QED
    BY <1>2, <1>6, <2>1, StillLink
<1>7. ASSUME "ACK" \in s.flags, s.ack = conns[Server][i].seq,
             NEW d, Takes(Server, i, d, air, {}), KeptFields(d, conns[Server][i]),
             d.state = "ESTABLISHED", d.ack = conns[Server][i].ack, d.eof = conns[Server][i].eof
      PROVE  Link(b)'
  BY <1>2, <1>4, <1>7, MeetLink
<1>8. ASSUME "SYN" \in s.flags, NEW d, NEW new, Takes(Server, i, d, air, new),
             d.state = "SYN_RCVD", d.seq = Plus(s.seq, 1), d.rx = conns[Server][i].rx,
             d.tx = conns[Server][i].tx, d.eof = conns[Server][i].eof,
             Sends(new, Server, conns[Server][i], {"SYN", "ACK"}, <<>>)
      PROVE  Link(b)'
  BY <1>2, <1>4, <1>8, ReSynLink
<1> QED
  BY <1>5, <1>6, <1>7, <1>8

LEMMA HandlerLink ==
  ASSUME TypeInv, NumbersFit, Shape, LinkInv, NEW s \in net, NEW air \in SUBSET net,
         net_handle_tcp(s, air), UNCHANGED <<sent, got, cut, pending>>
  PROVE  LinkInv'
<1>1. PICK h \in Host : h = Peer(s.src) /\ s.src = Peer(h) /\ s \in Segments
  <2>1. s \in Segments /\ s.src \in Host
    BY SegmentFields DEF TypeInv, NetOK
  <2> QED
    BY <2>1, Hosts
<1>2. PICK b \in Seq32 : Link(b) /\ b \in Nat
  BY Seq32In DEF LinkInv
<1>3. CASE Matching(h, s) # {}
  <2>1. PICK i \in Slot[h] : i = First(Matching(h, s))
    BY <1>3, MatchIs
  <2>2. Synchronized(h, i, s, air) \/ SynSent(h, i, s, air) \/ SynRcvd(h, i, s, air)
          \/ Reset(h, i, s, air)
    BY <1>1, <1>3, <2>1 DEF net_handle_tcp
  <2>3. CASE Synchronized(h, i, s, air)
    <3>1. Link(b)'
      BY <1>1, <1>2, <2>3, SyncLink
    <3> QED
      BY <3>1, LinkIn
  <2>4. CASE SynSent(h, i, s, air)
    BY <1>1, <2>4, SynSentLink
  <2>5. CASE SynRcvd(h, i, s, air)
    <3>1. Link(b)'
      BY <1>1, <1>2, <2>5, SynRcvdLink
    <3> QED
      BY <3>1, LinkIn
  <2>6. CASE Reset(h, i, s, air)
    <3>1. Link(b)'
      BY <1>1, <1>2, <2>6, ResetLink
    <3> QED
      BY <3>1, LinkIn
  <2> QED
    BY <2>2, <2>3, <2>4, <2>5, <2>6
<1>4. CASE Spawn(h, s, air)
  <2>1. Link(b)'
    BY <1>1, <1>2, <1>4, SpawnLink
  <2> QED
    BY <2>1, LinkIn
<1>5. CASE Dropped(h, s, air)
  <2>1. conns' = conns /\ isn' = isn /\ net' \subseteq net /\ stored' = stored
    BY <1>5 DEF Dropped
  <2>2. Link(b)'
    BY <1>2, <2>1, StillLink
  <2> QED
    BY <2>2, LinkIn
<1> QED
  BY <1>1, <1>3, <1>4, <1>5 DEF net_handle_tcp

LEMMA ProgramLink ==
  ASSUME TypeInv, NEW b \in Nat, Link(b), NEW h \in Host, Program(h)
  PROVE  Link(b)'
<1>1. CASE net_tcp_connect(h)
  BY <1>1, ConnectLink
<1>2. CASE net_tcp_listen(h)
  BY <1>2, ListenLink
<1>3. ASSUME NEW i \in held[h], net_tcp_accept(h, i) PROVE Link(b)'
  BY <1>3, AcceptLink
<1>4. ASSUME NEW i \in held[h], net_tcp_close(h, i) PROVE Link(b)'
  BY <1>4, CloseLink
<1>5. ASSUME NEW i \in held[h], NEW n \in 1 .. MaxLen, net_tcp_send(h, i, n) PROVE Link(b)'
  BY <1>5, SendLink
<1>6. ASSUME NEW i \in held[h], NEW n \in 1 .. Len(conns[h][i].rx), net_tcp_recv(h, i, n)
      PROVE  Link(b)'
  BY <1>6, RecvLink
<1> QED
  BY <1>1, <1>2, <1>3, <1>4, <1>5, <1>6 DEF Program

LEMMA LinkNext == TypeInv /\ NumbersFit /\ Shape /\ LinkInv /\ [TcpNext]_tcpVars => LinkInv'
<1> SUFFICES ASSUME TypeInv, NumbersFit, Shape, LinkInv, [TcpNext]_tcpVars PROVE LinkInv'
  OBVIOUS
<1>1. PICK b \in Seq32 : Link(b) /\ b \in Nat
  BY Seq32In DEF LinkInv
<1>2. CASE UNCHANGED tcpVars
  <2>1. /\ conns' = conns /\ isn' = isn /\ pending' = pending /\ net' \subseteq net
        /\ UNCHANGED <<sent, stored, got, cut>>
    BY <1>2 DEF tcpVars
  <2>2. Link(b)'
    BY <1>1, <2>1, StillLink
  <2> QED
    BY <2>2, LinkIn
<1>3. ASSUME NEW h \in Host, Program(h) PROVE LinkInv'
  <2>1. Link(b)'
    BY <1>1, <1>3, ProgramLink
  <2> QED
    BY <2>1, LinkIn
<1>4. ASSUME NEW h \in Host, ArpReply(h) PROVE LinkInv'
  <2>1. Link(b)'
    BY <1>1, <1>4, ArpLink
  <2> QED
    BY <2>1, LinkIn
<1>5. ASSUME NEW h \in Host, NEW i \in Slot[h],
             ConnectTimeout(h, i) \/ Retransmit(h, i) \/ Forge(h, i)
      PROVE  LinkInv'
  <2>1. Link(b)'
    BY <1>1, <1>5, TimeoutLink, RetransmitLink, ForgeLink
  <2> QED
    BY <2>1, LinkIn
<1>6. ASSUME NEW s \in net, Receive(s) PROVE LinkInv'
  <2>1. PICK air \in SUBSET net : air = net \ {s}
    OBVIOUS
  <2>2. net_handle_tcp(s, air) /\ UNCHANGED <<sent, got, cut, pending>>
    BY <1>6, <2>1 DEF Receive
  <2> QED
    BY <2>2, HandlerLink
<1>7. ASSUME NEW s \in net, Duplicate(s) PROVE LinkInv'
  <2>1. PICK air \in SUBSET net : air = net
    OBVIOUS
  <2>2. net_handle_tcp(s, air) /\ UNCHANGED <<sent, got, cut, pending>>
    BY <1>7, <2>1 DEF Duplicate
  <2> QED
    BY <2>2, HandlerLink
<1>8. ASSUME NEW s \in net, Lose(s) PROVE LinkInv'
  <2>1. Link(b)'
    BY <1>1, <1>8, LoseLink
  <2> QED
    BY <2>1, LinkIn
<1> QED
  BY <1>2, <1>3, <1>4, <1>5, <1>6, <1>7, <1>8 DEF TcpNext

LEMMA LinkInit == NumbersFit /\ TcpInit => LinkInv
<1> SUFFICES ASSUME NumbersFit, TcpInit PROVE LinkInv
  OBVIOUS
<1>1. TypeInv
  BY TypesInit
<1>2. /\ conns = [h \in Host |-> [i \in Slot[h] |-> Zero]] /\ net = {}
      /\ sent = [h \in Host |-> 0] /\ stored = [h \in Host |-> 0] /\ got = [h \in Host |-> <<>>]
  BY DEF TcpInit
<1>3. \A h \in Host : \A i \in DOMAIN conns[h] : conns[h][i] = Zero
  BY <1>2
<1>4. ~Up(Zero) /\ ~Active(Zero) /\ Zero.rx = <<>> /\ Zero.tx = <<>> /\ ~Zero.eof
  BY ZeroIs DEF Up, Active
<1>5. \A h \in Host : By(h) = {}
  BY <1>2 DEF By
<1>6. ASSUME NEW h \in Host, NEW b \in Nat PROVE WayOf(h, b)
  <2>1. PICK S, R, out, back : /\ S = conns[h] /\ R = conns[Peer(h)]
                               /\ out = By(h) /\ back = By(Peer(h))
    OBVIOUS
  <2>2. \A i \in DOMAIN S : S[i].tx = <<>> /\ (Up(S[i]) => Talks(S[i]) /\ S[i].seq = b)
    BY <1>3, <1>4, <2>1
  <2>3. \A i \in DOMAIN R : /\ R[i].rx = <<>> /\ ~R[i].eof
                            /\ Up(R[i]) => ~Heard(R[i]) /\ R[i].ack = b
    BY <1>3, <1>4, <2>1, Hosts
  <2>4. out = {} /\ back = {}
    BY <1>5, <2>1, Hosts
  <2>5. /\ \A s \in out : s.data = <<>> /\ "FIN" \notin s.flags
        /\ \A s \in back : "ACK" \in s.flags => s.ack = b
    BY <2>4
  <2>6. Way(b, S, R, out, back, 0, 0, <<>>, h, cut)
    BY <2>2, <2>3, <2>5, WayNew
  <2> QED
    BY <1>2, <2>1, <2>6 DEF WayOf
<1>7. Silent(conns[Client]) /\ Silent(conns[Server]) /\ \A h \in Host : One(conns[h])
  BY <1>3, <1>4, Hosts DEF Silent, One
<1>8. Quiet
  BY <1>2, <1>5, <1>7, Hosts DEF Quiet, Mute
<1>9. ASSUME NEW h \in Host
      PROVE  Base(h, 0) \in Nat /\ Base(h, 0) + Writes[h] + 1 < MOD /\ sent[h] <= Writes[h]
  <2>1. PICK p \in Nat, v \in Nat, w \in Nat :
          p = Isn[Client] /\ v = Writes[Client] /\ w = Writes[Server]
    BY <1>1, IsnTypes
  <2>2. p + v + w + 3 < MOD /\ MOD \in Nat /\ B = p + 1
    BY <2>1, Seq32In DEF NumbersFit, B
  <2>3. sent[h] = 0 /\ 0 <= v /\ 0 <= w /\ 0 <= Writes[h]
    BY <1>2, <2>1 DEF Host
  <2>4. B \in Nat /\ B + v + 1 < MOD /\ 0 + w + 1 < MOD
    BY <2>2
  <2>5. CASE h = Client
    <3>1. Base(h, 0) = B
      BY <2>5, BaseIs
    <3> QED
      BY <2>1, <2>3, <2>4, <2>5, <3>1
  <2>6. CASE h = Server
    <3>1. Base(h, 0) = 0
      BY <2>6, BaseIs
    <3> QED
      BY <2>1, <2>3, <2>4, <2>6, <3>1
  <2> QED
    BY <2>5, <2>6 DEF Host
<1>10. Link(0)
  BY <1>6, <1>7, <1>8, <1>9 DEF Link
<1> QED
  BY <1>10, Seq32In DEF LinkInv

-----------------------------------------------------------------------------
(* What it is for                                                          *)

\* What waits in the buffer of a receiver is the next it reads.
LEMMA BufferedIs ==
  ASSUME TypeInv, LinkInv, NEW h \in Host
  PROVE  /\ Buffered(Peer(h)) \in Seq(Nat) /\ From(Buffered(Peer(h)), Len(got[h]))
         /\ Len(got[h]) + Len(Buffered(Peer(h))) <= stored[h]
         /\ stored[h] <= sent[h] /\ From(got[h], 0)
<1>1. PICK b \in Seq32 : Link(b) /\ b \in Nat
  BY Seq32In DEF LinkInv
<1>2. PICK g \in Host : g = Peer(h)
  BY Hosts
<1>3. PICK a : a = Base(h, b) /\ WayOf(h, a)
  BY <1>1 DEF Link
<1>4. PICK q \in Seq(Nat), n \in Nat, m \in Nat :
        q = got[h] /\ n = stored[h] /\ m = sent[h] /\ Len(q) \in Nat
  BY DEF TypeInv, HistOK
<1>5. n <= m /\ Len(q) <= n /\ From(q, 0)
  BY <1>3, <1>4 DEF WayOf, Way
<1>6. PICK r : r = {i \in Slot[g] : conns[g][i].rx # <<>>}
  OBVIOUS
<1>7. Buffered(g) = IF r = {} THEN <<>> ELSE conns[g][First(r)].rx
  BY <1>6 DEF Buffered
<1>8. CASE r = {}
  <2>1. Buffered(g) = <<>> /\ Len(<<>>) = 0 /\ <<>> \in Seq(Nat)
    BY <1>7, <1>8
  <2>2. From(<<>>, Len(q))
    BY NoBytes
  <2>3. Len(q) + 0 <= n
    BY <1>4, <1>5
  <2> QED
    BY <1>2, <1>4, <1>5, <2>1, <2>2, <2>3
<1>9. CASE r # {}
  <2>1. r \in SUBSET Nat
    BY <1>6, SlotsAre
  <2>2. PICK i \in Slot[g] : i = First(r) /\ conns[g][i].rx # <<>>
    BY <1>6, <1>9, <2>1, FirstIs
  <2>3. PICK c \in Conns : c = conns[g][i]
    BY DEF TypeInv, TablesOK, Sized
  <2>4. Rcv(c, a, m, n, Len(q))
    BY <1>2, <1>3, <1>4, <2>3 DEF WayOf, Way, TypeInv, TablesOK
  <2>5. c.rx \in Seq(Nat) /\ Len(c.rx) \in Nat /\ c.rx # <<>>
    BY <2>2, <2>3, Fields
  <2>6. Len(q) + Len(c.rx) = n /\ From(c.rx, Len(q))
    BY <2>4, <2>5 DEF Rcv
  <2>7. Len(q) + Len(c.rx) <= n
    <3>1. n <= n
      OBVIOUS
    <3> QED
      BY <2>6, <3>1
  <2>8. Buffered(g) = c.rx
    BY <1>7, <1>9, <2>2, <2>3
  <2> QED
    BY <1>2, <1>4, <1>5, <2>5, <2>6, <2>7, <2>8
<1> QED
  BY <1>8, <1>9

LEMMA LinkStream == TypeInv /\ LinkInv => StreamIntact
<1> SUFFICES ASSUME TypeInv, LinkInv, NEW h \in Host
             PROVE  LET all == got[h] \o Buffered(Peer(h))
                    IN  Len(all) <= sent[h] /\ \A k \in DOMAIN all : all[k] = k
  BY DEF StreamIntact
<1>1. PICK q \in Seq(Nat), r \in Seq(Nat), n \in Nat, m \in Nat :
        q = got[h] /\ r = Buffered(Peer(h)) /\ n = stored[h] /\ m = sent[h]
  BY BufferedIs DEF TypeInv, HistOK
<1>2. From(r, Len(q)) /\ Len(q) + Len(r) <= n /\ n <= m /\ From(q, 0)
  BY <1>1, BufferedIs
<1>3. PICK all : all = q \o r
  OBVIOUS
<1>4. /\ all \in Seq(Nat) /\ Len(all) = Len(q) + Len(r) /\ Len(q) \in Nat /\ Len(r) \in Nat
      /\ \A k \in 1 .. Len(q) + Len(r) : all[k] = IF k <= Len(q) THEN q[k] ELSE r[k - Len(q)]
  BY <1>3, Joined
<1>5. Len(all) <= m
  BY <1>2, <1>4
<1>6. ASSUME NEW k \in DOMAIN all PROVE all[k] = k
  <2>1. PICK x \in Nat, y \in Nat : x = Len(q) /\ y = Len(r)
    BY <1>4
  <2>2. k \in 1 .. x + y
    BY <1>4, <2>1
  <2>3. CASE k <= x
    <3>1. k \in 1 .. Len(q)
      BY <2>1, <2>2, <2>3
    <3>2. q[k] = 0 + k
      BY <1>2, <3>1 DEF From
    <3> QED
      BY <1>4, <2>1, <2>2, <2>3, <3>2
  <2>4. CASE ~(k <= x)
    <3>1. PICK j \in 1 .. y : j = k - x
      BY <2>2, <2>4
    <3>2. r[j] = x + j
      BY <1>2, <2>1, <3>1 DEF From
    <3>3. all[k] = r[j]
      BY <1>4, <2>1, <2>2, <2>4, <3>1
    <3>4. x + j = k
      BY <2>2, <3>1
    <3> QED
      BY <3>2, <3>3, <3>4
  <2> QED
    BY <2>3, <2>4
<1> QED
  BY <1>1, <1>3, <1>5, <1>6

LEMMA LinkKeeps == TypeInv /\ LinkInv => NothingForgotten
<1> SUFFICES ASSUME TypeInv, LinkInv, NEW h \in Host \ cut
             PROVE  /\ (\A i \in Slot[h] : conns[h][i].tx = <<>>) => stored[h] = sent[h]
                    /\ (\E i \in Slot[Peer(h)] : conns[Peer(h)][i].eof) => stored[h] = sent[h]
  BY DEF NothingForgotten
<1>1. PICK b \in Seq32 : Link(b)
  BY DEF LinkInv
<1>2. PICK a : a = Base(h, b) /\ WayOf(h, a)
  BY <1>1 DEF Link
<1>3. DOMAIN conns[h] = Slot[h] /\ DOMAIN conns[Peer(h)] = Slot[Peer(h)]
  BY Hosts DEF TypeInv, TablesOK
<1>4. stored[h] = sent[h] \/ \E i \in Slot[h] : conns[h][i].tx # <<>>
  BY <1>2, <1>3 DEF WayOf, Way
<1>5. ASSUME NEW i \in Slot[Peer(h)], conns[Peer(h)][i].eof PROVE stored[h] = sent[h]
  <2>1. Closing(conns[Peer(h)], By(h), By(Peer(h)), a, stored[h])
    BY <1>3, <1>5 DEF Closing
  <2>2. Over(conns[h], sent[h], stored[h], h, cut)
    BY <1>2, <2>1 DEF WayOf, Way
  <2> QED
    BY <2>2 DEF Over
<1> QED
  BY <1>4, <1>5

(* What a program reads, and what waits for it, are the first bytes its peer  *)
(* sent, each once and in order, however the network loses, doubles and       *)
(* overtakes segments: net_handle_tcp stores a segment only if it is the next *)
(* (c->ack == seq) and fits, and its peer sends one at a time.  The premise    *)
(* is what the code leaves to chance: it compares sequence numbers without     *)
(* regard to a wrap and draws the initial ones at random.                      *)
THEOREM StreamsIntact == NumbersFit => (TcpSpec => []StreamIntact)
<1> SUFFICES ASSUME NumbersFit PROVE TcpSpec => []StreamIntact
  OBVIOUS
<1> DEFINE I == TypeInv /\ Shape /\ LinkInv
<1>1. TcpInit => I
  BY TypesInit, ShapeInit, LinkInit
<1>2. I /\ [TcpNext]_tcpVars => I'
  BY TypesNext, ShapeNext, LinkNext
<1>3. I => StreamIntact
  BY LinkStream
<1> QED
  BY <1>1, <1>2, <1>3, PTL DEF TcpSpec

(* What a sender has dropped from its retransmit buffer, and what came before *)
(* an end of file, is in the hands of the receiver, unless the connection was  *)
(* cut: the ACK that clears c->tx, and the FIN behind the data, come from a     *)
(* peer that has stored it.                                                   *)
THEOREM NothingLost == NumbersFit => (TcpSpec => []NothingForgotten)
<1> SUFFICES ASSUME NumbersFit PROVE TcpSpec => []NothingForgotten
  OBVIOUS
<1> DEFINE I == TypeInv /\ Shape /\ LinkInv
<1>1. TcpInit => I
  BY TypesInit, ShapeInit, LinkInit
<1>2. I /\ [TcpNext]_tcpVars => I'
  BY TypesNext, ShapeNext, LinkNext
<1>3. I => NothingForgotten
  BY LinkKeeps
<1> QED
  BY <1>1, <1>2, <1>3, PTL DEF TcpSpec
=============================================================================
