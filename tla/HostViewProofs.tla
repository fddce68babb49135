--------------------------- MODULE HostViewProofs ---------------------------
(***************************************************************************)
(* Proofs about HostView, for every set of lines, parameters and BLE       *)
(* writes and every bound.  The properties are mostly about quiet states;  *)
(* the invariants say what is still on its way in the others: which place  *)
(* holds the answer of each line, and which text will be the last word on  *)
(* the connection and on each parameter.                                   *)
(***************************************************************************)
EXTENDS HostView, TLAPS

Events == {"DOORLOCK_PIN", "DOORLOCK_PARA"}

Texts ==
  {t \in [kind : {"none", "conn", "value", "set", "restored", "text"},
          p : AllParam \cup {"none"}, v : Int, n : Nat] :
     /\ t.kind = "conn" => t.v \in 0..2
     /\ t.kind = "value" => t.p \in Param}

Waits == [by : {"app", "cmd", "rx"}, text : Texts, log : BOOLEAN]

Messages == States \cup Events
NumberedLines == [n : Nat, line : HostLines]

TypeInv ==
  /\ TypeOK
  /\ appMsgQueue \in Seq(Messages) /\ reports \subseteq Param
  /\ lines \in Seq(NumberedLines)
  /\ sending \in Texts /\ waits \in Seq(Waits)
  /\ answers \in Seq(Nat) /\ connMissed \in BOOLEAN

(* Who waits for the port, and with what; only texts of Log_printf and     *)
(* Log_writeStr are given up.                                              *)
PortInv ==
  /\ tx # "busy" => sending = Silence
  /\ tx = "free" => waits = <<>>
  /\ \A i \in DOMAIN waits :
       /\ waits[i].by = "rx" => waits[i].text = Silence
       /\ waits[i].text.n # Unasked => waits[i].by = "cmd"
       /\ waits[i].log => waits[i].text.kind \notin {"set", "restored"}
  /\ \A i, j \in DOMAIN waits : waits[i].by = "cmd" /\ waits[j].by = "cmd" => i = j

----------------------------------------------------------------------------
(* The answers.                                                            *)

(* The places of a line and of its answer, from the last to the first.     *)
Unhandled == {lines[i].n : i \in DOMAIN lines}
Pending == {waits[i].text.n : i \in DOMAIN waits} \ {Unasked}
Sent == {sending.n} \ {Unasked}
Answered == ToSet(answers)

Precedes(A, B) == \A a \in A, b \in B : a < b

(* Lines 1 to n are in these places, each in one, and none overtakes       *)
(* another.                                                                *)
Accounted(answered, sent, pending, unhandled, given, n) ==
  /\ Precedes(answered, sent \cup pending \cup unhandled)
  /\ Precedes(sent, pending \cup unhandled) /\ Precedes(pending, unhandled)
  /\ answered \cup sent \cup pending \cup unhandled \cup given = 1..n
  /\ given \cap (answered \cup sent \cup pending \cup unhandled) = {}

AnswerInv ==
  /\ \A i, j \in DOMAIN answers : i < j => answers[i] < answers[j]
  /\ \A i, j \in DOMAIN lines : i < j => lines[i].n < lines[j].n
  /\ Accounted(Answered, Sent, Pending, Unhandled, dropped, asked)

----------------------------------------------------------------------------
(* The news.                                                               *)

(* The last of the texts in T that the host has read or will read is one   *)
(* of R, if s is being sent and ws wait; known says that it was, if the    *)
(* host has read it already.                                               *)
LastWord(T, R, known, s, ws) ==
  /\ \A i \in DOMAIN ws :
       ws[i].text \in T /\ (\A j \in DOMAIN ws : j > i => ws[j].text \notin T)
         => ws[i].text \in R
  /\ (\A i \in DOMAIN ws : ws[i].text \notin T) => IF s \in T THEN s \in R ELSE known

ConnNews == {t \in Texts : t.kind = "conn"}
ConnIs(code) == {t \in ConnNews : t.v = code}

(* The last state of the role whose report waits in the queue q is g; or   *)
(* no state waits there.                                                   *)
LastState(q, g) ==
  \A i \in DOMAIN q : q[i] \in States /\ (\A j \in DOMAIN q : j > i => q[j] \notin States)
                        => q[i] = g
NoState(q) == \A i \in DOMAIN q : q[i] \notin States

ConnInv ==
  ~connMissed =>
    /\ LastState(appMsgQueue, gap)
    /\ NoState(appMsgQueue) /\ gap \in {"ADVERTISING", "CONNECTED", "WAITING"}
         => LastWord(ConnNews, ConnIs(ConnCode(gap)), conn = ConnCode(gap), sending, waits)

(* Texts that tell the value of p, and those that tell v.                  *)
NewsOf(p) == {t \in Texts : t.kind = "restored" \/ (t.kind \in {"value", "set"} /\ t.p = p)}
Says(t, p) == IF t.kind = "restored" THEN Shown(p, Default(p)) ELSE t.v
NewsIs(p, v) == {t \in NewsOf(p) : Says(t, p) = v}

(* A message in the queue q makes the application task report p.           *)
Queued(q, p) == \E i \in DOMAIN q : q[i] \in Events /\ p \in ReportsOf(q[i])

ParaInv ==
  \A p \in Param \ missed :
    \/ p \in reports \/ Queued(appMsgQueue, p)
    \/ LastWord(NewsOf(p), NewsIs(p, CustNV_get(p)), told[p] = CustNV_get(p), sending, waits)

VisibleInv ==
  gap = "STARTED" =>
    advert \/ mishaps > 0 \/ \E i \in DOMAIN appMsgQueue : appMsgQueue[i] = "STARTED"

----------------------------------------------------------------------------
(* Sequences.                                                              *)

(* A sequence without its element i.                                       *)
LEMMA Without ==
  ASSUME NEW S, NEW s \in Seq(S), NEW i \in DOMAIN s
  PROVE  /\ RemoveAt(s, i) \in Seq(S) /\ Len(RemoveAt(s, i)) = Len(s) - 1
         /\ \A j \in 1..(Len(s) - 1) :
              RemoveAt(s, i)[j] = IF j < i THEN s[j] ELSE s[j + 1]
<1> DEFINE a == SubSeq(s, 1, i - 1)
           b == SubSeq(s, i + 1, Len(s))
<1>0. Len(s) \in Nat /\ i \in 1..Len(s)
  OBVIOUS
<1>1. a \in Seq(S) /\ Len(a) = i - 1 /\ \A j \in 1..(i - 1) : a[j] = s[j]
  BY <1>0
<1>2. b \in Seq(S) /\ Len(b) = Len(s) - i /\ \A j \in 1..(Len(s) - i) : b[j] = s[i + j]
  BY <1>0
<1>3. RemoveAt(s, i) = a \o b
  BY DEF RemoveAt
<1> HIDE DEF a, b
<1>4. a \o b \in Seq(S) /\ Len(a \o b) = Len(s) - 1
  BY <1>0, <1>1, <1>2
<1>5. ASSUME NEW j \in 1..(Len(s) - 1)
      PROVE  (a \o b)[j] = IF j < i THEN s[j] ELSE s[j + 1]
  <2>0. j \in Int /\ i \in Int
    BY <1>0
  <2>1. CASE j < i
    BY <1>0, <1>1, <1>2, <2>1
  <2>2. CASE j >= i
    <3>1. (a \o b)[j] = b[j - Len(a)]
      BY <1>0, <1>1, <1>2, <2>2
    <3>2. j - Len(a) \in 1..(Len(s) - i) /\ i + (j - Len(a)) = j + 1
      BY <1>0, <1>1, <2>2
    <3> QED
      BY <1>0, <1>2, <2>2, <3>1, <3>2
  <2>3. j < i \/ j >= i
    BY <2>0
  <2> QED
    BY <2>1, <2>2, <2>3
<1> QED
  BY <1>3, <1>4, <1>5

(* A sequence with one more element, and without its first.                *)
LEMMA Extended ==
  ASSUME NEW S, NEW s \in Seq(S), NEW x \in S
  PROVE  /\ Append(s, x) \in Seq(S) /\ Len(Append(s, x)) = Len(s) + 1
         /\ DOMAIN Append(s, x) = 1..(Len(s) + 1) /\ DOMAIN s = 1..Len(s)
         /\ Append(s, x)[Len(s) + 1] = x
         /\ \A i \in DOMAIN s : Append(s, x)[i] = s[i]
         /\ ToSet(Append(s, x)) = ToSet(s) \cup {x}
<1>1. Len(s) \in Nat /\ DOMAIN s = 1..Len(s)
  OBVIOUS
<1>2. /\ Append(s, x) \in Seq(S) /\ Len(Append(s, x)) = Len(s) + 1
      /\ DOMAIN Append(s, x) = 1..(Len(s) + 1) /\ Append(s, x)[Len(s) + 1] = x
      /\ \A i \in DOMAIN s : Append(s, x)[i] = s[i]
  OBVIOUS
<1> QED
  BY <1>1, <1>2 DEF ToSet

(* A sequence without its first element.                                   *)
LEMMA Shortened ==
  ASSUME NEW S, NEW s \in Seq(S), s # <<>>
  PROVE  /\ Tail(s) \in Seq(S) /\ Len(Tail(s)) = Len(s) - 1 /\ Len(s) \in Nat \ {0}
         /\ DOMAIN Tail(s) = 1..(Len(s) - 1) /\ DOMAIN s = 1..Len(s)
         /\ Head(s) = s[1] /\ Head(s) \in S
         /\ \A i \in 1..(Len(s) - 1) : Tail(s)[i] = s[i + 1]
  OBVIOUS

----------------------------------------------------------------------------
(* The port.                                                               *)

(* What the tasks write is a text, with the fields it was made of.         *)
LEMMA TextIsText ==
  ASSUME NEW kind \in {"none", "conn", "value", "set", "restored", "text"},
         NEW p \in AllParam \cup {"none"}, NEW v \in Int, NEW n \in Nat,
         kind = "conn" => v \in 0..2, kind = "value" => p \in Param
  PROVE  /\ Text(kind, p, v, n) \in Texts
         /\ Text(kind, p, v, n).kind = kind /\ Text(kind, p, v, n).p = p
         /\ Text(kind, p, v, n).v = v /\ Text(kind, p, v, n).n = n
<1> DEFINE t == [kind |-> kind, p |-> p, v |-> v, n |-> n]
<1>1. t.kind = kind /\ t.p = p /\ t.v = v /\ t.n = n
  OBVIOUS
<1>2. t \in [kind : {"none", "conn", "value", "set", "restored", "text"},
             p : AllParam \cup {"none"}, v : Int, n : Nat]
  OBVIOUS
<1>3. t \in Texts
  BY <1>1, <1>2 DEF Texts
<1> QED
  BY <1>1, <1>3 DEF Text

(* The receive task's turn of the port carries no text.                    *)
LEMMA SilenceIsText == Silence \in Texts /\ Silence.n = Unasked /\ Silence.kind = "none"
  BY TextIsText DEF Silence, Unasked

(* Texts a task may come with.                                             *)
Comes(by, text, log) ==
  /\ [by |-> by, text |-> text, log |-> log] \in Waits
  /\ by = "rx" => text = Silence
  /\ text.n # Unasked => by = "cmd"
  /\ log => text.kind \notin {"set", "restored"}
  /\ by = "cmd" => ~Waiting("cmd")

(* A task that comes to pend goes to the end of the queue, or to work.     *)
LEMMA PendsCases ==
  ASSUME TypeInv, PortInv, NEW by, NEW text, NEW log,
         Comes(by, text, log), Pends(by, text, log)
  PROVE  \/ /\ tx = "free" /\ sending = Silence /\ waits = <<>>
            /\ tx' = Taken(by) /\ sending' = text /\ waits' = <<>>
         \/ /\ tx # "free" /\ UNCHANGED <<tx, sending>>
            /\ waits' = Append(waits, [by |-> by, text |-> text, log |-> log])
  BY DEF PortInv, Pends

(* A task that comes keeps the order of the port.                          *)
LEMMA PendsPort ==
  ASSUME TypeInv, PortInv, NEW by, NEW text, NEW log,
         Comes(by, text, log), Pends(by, text, log)
  PROVE  /\ PortInv' /\ sending' \in Texts /\ waits' \in Seq(Waits)
         /\ tx' \in {"free", "busy", "shut"}
<1> DEFINE w == [by |-> by, text |-> text, log |-> log]
<1>1. w \in Waits /\ w.by = by /\ w.text = text /\ w.log = log /\ text \in Texts
  BY DEF Comes, Waits
<1>2. waits \in Seq(Waits) /\ sending \in Texts /\ tx \in {"free", "busy", "shut"}
  BY DEF TypeInv, TypeOK
<1>3. CASE tx = "free"
  <2>1. tx' = Taken(by) /\ sending' = text /\ waits' = <<>>
    BY <1>3, PendsCases
  <2>2. tx' \in {"busy", "shut"} /\ (tx' = "shut" => sending' = Silence)
    BY <2>1 DEF Taken, Comes
  <2> QED
    BY <1>1, <2>1, <2>2 DEF PortInv
<1>4. CASE tx # "free"
  <2>1. UNCHANGED <<tx, sending>> /\ waits' = Append(waits, w)
    BY <1>4, PendsCases
  <2> HIDE DEF w
  <2>2. /\ waits' \in Seq(Waits) /\ DOMAIN waits' = 1..(Len(waits) + 1)
        /\ DOMAIN waits = 1..Len(waits) /\ Len(waits) \in Nat
        /\ waits'[Len(waits) + 1] = w /\ \A i \in DOMAIN waits : waits'[i] = waits[i]
    BY <1>1, <1>2, <2>1, Extended
  <2>3. \A i \in DOMAIN waits' :
          /\ waits'[i].by = "rx" => waits'[i].text = Silence
          /\ waits'[i].text.n # Unasked => waits'[i].by = "cmd"
          /\ waits'[i].log => waits'[i].text.kind \notin {"set", "restored"}
    <3> TAKE i \in DOMAIN waits'
    <3>1. i \in DOMAIN waits \/ waits'[i] = w
      BY <2>2
    <3> QED
      BY <3>1, <2>2, <1>1 DEF PortInv, Comes
  <2>4. \A i \in DOMAIN waits : by = "cmd" => waits[i].by # "cmd"
    BY DEF Comes, Waiting
  <2>5. \A i, j \in DOMAIN waits' : waits'[i].by = "cmd" /\ waits'[j].by = "cmd" => i = j
    <3> SUFFICES ASSUME NEW i \in DOMAIN waits', NEW j \in DOMAIN waits',
                        waits'[i].by = "cmd", waits'[j].by = "cmd"
                 PROVE  i = j
      OBVIOUS
    <3>1. CASE i \in DOMAIN waits /\ j \in DOMAIN waits
      BY <3>1, <2>2 DEF PortInv
    <3>2. CASE i \notin DOMAIN waits \/ j \notin DOMAIN waits
      BY <3>2, <2>2, <2>4, <1>1
    <3> QED
      BY <3>1, <3>2
  <2> QED
    BY <1>2, <1>4, <2>1, <2>2, <2>3, <2>5 DEF PortInv
<1> QED
  BY <1>3, <1>4

(* The one that leaves the port gives it to the first that waits.          *)
LEMMA PostPort ==
  ASSUME TypeInv, PortInv, Post
  PROVE  /\ PortInv' /\ sending' \in Texts /\ waits' \in Seq(Waits)
         /\ tx' \in {"free", "busy", "shut"}
<1>1. waits \in Seq(Waits) /\ tx \in {"free", "busy", "shut"}
  BY DEF TypeInv, TypeOK
<1>2. CASE waits = <<>>
  <2>1. tx' = "free" /\ sending' = Silence /\ waits' = <<>>
    BY <1>2 DEF Post
  <2> QED
    BY <2>1, SilenceIsText DEF PortInv
<1>3. CASE waits # <<>>
  <2>1. tx' = Taken(Head(waits).by) /\ sending' = Head(waits).text /\ waits' = Tail(waits)
    BY <1>3 DEF Post
  <2>2. /\ waits' \in Seq(Waits) /\ DOMAIN waits' = 1..(Len(waits) - 1)
        /\ DOMAIN waits = 1..Len(waits) /\ Len(waits) \in Nat \ {0}
        /\ Head(waits) = waits[1] /\ Head(waits) \in Waits
        /\ \A i \in 1..(Len(waits) - 1) : waits'[i] = waits[i + 1]
    BY <1>1, <1>3, <2>1, Shortened
  <2>3. sending' \in Texts
    BY <2>1, <2>2 DEF Waits
  <2>4. tx' \in {"busy", "shut"} /\ (tx' = "shut" => sending' = Silence)
    BY <2>1, <2>2 DEF Taken, PortInv
  <2>5. \A i \in DOMAIN waits' : i + 1 \in DOMAIN waits /\ waits'[i] = waits[i + 1]
    BY <2>2
  <2>6. \A i \in DOMAIN waits' :
          /\ waits'[i].by = "rx" => waits'[i].text = Silence
          /\ waits'[i].text.n # Unasked => waits'[i].by = "cmd"
          /\ waits'[i].log => waits'[i].text.kind \notin {"set", "restored"}
    BY <2>5 DEF PortInv
  <2>7. \A i, j \in DOMAIN waits' : waits'[i].by = "cmd" /\ waits'[j].by = "cmd" => i = j
    <3> TAKE i, j \in DOMAIN waits'
    <3>1. waits'[i].by = "cmd" /\ waits'[j].by = "cmd" => i + 1 = j + 1
      BY <2>5 DEF PortInv
    <3>2. i \in Int /\ j \in Int
      BY <2>2
    <3> QED
      BY <3>1, <3>2
  <2> QED
    BY <2>2, <2>3, <2>4, <2>6, <2>7 DEF PortInv
<1> QED
  BY <1>2, <1>3

(* One that gives up leaves the queue.                                     *)
LEMMA DropPort ==
  ASSUME TypeInv, PortInv, NEW k \in DOMAIN waits,
         waits' = RemoveAt(waits, k), UNCHANGED <<tx, sending>>
  PROVE  PortInv' /\ waits' \in Seq(Waits)
<1>1. waits \in Seq(Waits)
  BY DEF TypeInv
<1>2. /\ waits' \in Seq(Waits) /\ Len(waits') = Len(waits) - 1
      /\ \A j \in 1..(Len(waits) - 1) :
           waits'[j] = IF j < k THEN waits[j] ELSE waits[j + 1]
  BY <1>1, Without
<1>3. /\ DOMAIN waits' = 1..(Len(waits) - 1) /\ DOMAIN waits = 1..Len(waits)
      /\ Len(waits) \in Nat
  BY <1>1, <1>2
<1> DEFINE old(j) == IF j < k THEN j ELSE j + 1
<1>4. \A j \in DOMAIN waits' : old(j) \in DOMAIN waits /\ waits'[j] = waits[old(j)]
  BY <1>2, <1>3
<1>5. \A i, j \in DOMAIN waits' : old(i) = old(j) => i = j
  BY <1>3
<1> HIDE DEF old
<1>6. \A i \in DOMAIN waits' :
        /\ waits'[i].by = "rx" => waits'[i].text = Silence
        /\ waits'[i].text.n # Unasked => waits'[i].by = "cmd"
        /\ waits'[i].log => waits'[i].text.kind \notin {"set", "restored"}
  BY <1>4 DEF PortInv
<1>7. \A i, j \in DOMAIN waits' : waits'[i].by = "cmd" /\ waits'[j].by = "cmd" => i = j
  BY <1>4, <1>5 DEF PortInv
<1>8. tx # "free"
  BY DEF PortInv
<1> QED
  BY <1>2, <1>6, <1>7, <1>8 DEF PortInv

----------------------------------------------------------------------------
(* Where the numbers of the lines go.                                      *)

(* The number of a line that is answered joins those that wait, or is      *)
(* sent.                                                                   *)
LEMMA PendsNumbers ==
  ASSUME TypeInv, PortInv, NEW by, NEW text, NEW log,
         Comes(by, text, log), Pends(by, text, log)
  PROVE  \/ /\ Sent = {} /\ Pending = {}
            /\ Sent' = {text.n} \ {Unasked} /\ Pending' = {}
         \/ Sent' = Sent /\ Pending' = Pending \cup ({text.n} \ {Unasked})
<1> DEFINE w == [by |-> by, text |-> text, log |-> log]
<1>1. CASE tx = "free"
  <2>1. sending = Silence /\ waits = <<>> /\ sending' = text /\ waits' = <<>>
    BY <1>1, PendsCases
  <2> QED
    BY <2>1, SilenceIsText DEF Sent, Pending
<1>2. CASE tx # "free"
  <2>1. sending' = sending /\ waits' = Append(waits, w)
    BY <1>2, PendsCases
  <2>2. w \in Waits /\ w.text = text
    BY DEF Comes
  <2> HIDE DEF w
  <2>3. /\ DOMAIN waits' = 1..(Len(waits) + 1) /\ DOMAIN waits = 1..Len(waits)
        /\ Len(waits) \in Nat /\ waits'[Len(waits) + 1] = w
        /\ \A i \in DOMAIN waits : waits'[i] = waits[i]
    BY <2>1, <2>2, Extended DEF TypeInv
  <2>4. {waits'[i].text.n : i \in DOMAIN waits'}
          = {waits[i].text.n : i \in DOMAIN waits} \cup {text.n}
    BY <2>2, <2>3
  <2> QED
    BY <2>1, <2>4 DEF Sent, Pending
<1> QED
  BY <1>1, <1>2

(* The numbers that wait go on waiting, or are sent, one at a time.        *)
LEMMA PostNumbers ==
  ASSUME TypeInv, PortInv, Post
  PROVE  Sent' \cup Pending' = Pending /\ (Sent' = {} \/ Pending' = {})
<1>1. CASE waits = <<>>
  BY <1>1, SilenceIsText DEF Post, Sent, Pending
<1>2. CASE waits # <<>>
  <2>1. sending' = Head(waits).text /\ waits' = Tail(waits)
    BY <1>2 DEF Post
  <2>2. /\ DOMAIN waits' = 1..(Len(waits) - 1) /\ DOMAIN waits = 1..Len(waits)
        /\ Len(waits) \in Nat \ {0} /\ Head(waits) = waits[1]
        /\ \A i \in 1..(Len(waits) - 1) : waits'[i] = waits[i + 1]
    BY <1>2, <2>1, Shortened DEF TypeInv
  <2>3. {waits[i].text.n : i \in DOMAIN waits}
          = {waits'[i].text.n : i \in DOMAIN waits'} \cup {sending'.n}
    <3>1. \A i \in DOMAIN waits \ {1} : i - 1 \in DOMAIN waits' /\ waits'[i - 1] = waits[i]
      BY <2>2
    <3>2. \A i \in DOMAIN waits' : i + 1 \in DOMAIN waits /\ waits'[i] = waits[i + 1]
      BY <2>2
    <3>3. 1 \in DOMAIN waits /\ sending' = waits[1].text
      BY <2>1, <2>2
    <3> QED
      BY <3>1, <3>2, <3>3
  <2>4. ASSUME sending'.n # Unasked, NEW i \in DOMAIN waits', waits'[i].text.n # Unasked
        PROVE  FALSE
    <3>1. i + 1 \in DOMAIN waits /\ waits[i + 1].by = "cmd" /\ 1 \in DOMAIN waits
      BY <2>2, <2>4 DEF PortInv
    <3>2. waits[1].by = "cmd"
      BY <2>1, <2>2, <2>4, <3>1 DEF PortInv
    <3>3. i + 1 = 1
      BY <3>1, <3>2 DEF PortInv
    <3> QED
      BY <3>3, <2>2
  <2> QED
    BY <2>3, <2>4 DEF Sent, Pending
<1> QED
  BY <1>1, <1>2

(* The number of an answer that is given up no longer waits.               *)
LEMMA DropNumbers ==
  ASSUME TypeInv, PortInv, NEW k \in DOMAIN waits, waits' = RemoveAt(waits, k)
  PROVE  Pending' = Pending \ {waits[k].text.n}
<1>1. /\ DOMAIN waits' = 1..(Len(waits) - 1) /\ DOMAIN waits = 1..Len(waits)
      /\ Len(waits) \in Nat
      /\ \A j \in 1..(Len(waits) - 1) :
           waits'[j] = IF j < k THEN waits[j] ELSE waits[j + 1]
  BY Without DEF TypeInv
<1>2. ASSUME NEW j \in DOMAIN waits'
      PROVE  \E i \in DOMAIN waits \ {k} : waits'[j] = waits[i]
  <2>1. CASE j < k
    BY <1>1, <2>1
  <2>2. CASE ~(j < k)
    <3>1. j + 1 \in DOMAIN waits \ {k} /\ waits'[j] = waits[j + 1]
      BY <1>1, <2>2
    <3> QED
      BY <3>1
  <2> QED
    BY <2>1, <2>2
<1>3. ASSUME NEW i \in DOMAIN waits \ {k}
      PROVE  \E j \in DOMAIN waits' : waits'[j] = waits[i]
  <2>1. CASE i < k
    BY <1>1, <2>1
  <2>2. CASE ~(i < k)
    <3>1. i - 1 \in DOMAIN waits' /\ waits'[i - 1] = waits[i]
      BY <1>1, <2>2
    <3> QED
      BY <3>1
  <2> QED
    BY <2>1, <2>2
<1>4. \A i \in DOMAIN waits \ {k} :
        waits[i].text.n # Unasked => waits[i].text.n # waits[k].text.n
  BY DEF PortInv
<1> QED
  BY <1>2, <1>3, <1>4 DEF Pending

----------------------------------------------------------------------------
(* Steps of the lines from place to place.                                 *)

(* The host sends the next line.                                           *)
LEMMA LineIsSent ==
  ASSUME NEW n \in Nat,
         NEW A, NEW S, NEW P, NEW U, NEW D, Accounted(A, S, P, U, D, n)
  PROVE  Accounted(A, S, P, U \cup {n + 1}, D, n + 1)
  BY DEF Accounted, Precedes

(* A line is handled, and its answer pends or is sent.                     *)
LEMMA LineIsHandled ==
  ASSUME NEW n \in Nat, NEW A, NEW S, NEW P, NEW U, NEW D, NEW u,
         Accounted(A, S, P, U \cup {u}, D, n), \A v \in U : u < v
  PROVE  /\ u \in 1..n
         /\ Accounted(A, S, P \cup {u}, U, D, n)
         /\ S = {} /\ P = {} => Accounted(A, {u}, {}, U, D, n)
<1>1. u \in 1..n /\ U \subseteq 1..n /\ u \notin U
  BY DEF Accounted
<1> QED
  BY <1>1 DEF Accounted, Precedes

(* What was sent is read, and the next text is sent, or none.              *)
LEMMA AnswerIsRead ==
  ASSUME NEW n \in Nat, NEW A, NEW S, NEW P, NEW U, NEW D, NEW S2, NEW P2,
         Accounted(A, S, P, U, D, n), S2 \cup P2 = P, S2 = {} \/ P2 = {}
  PROVE  Accounted(A \cup S, S2, P2, U, D, n)
  BY DEF Accounted, Precedes

(* An answer is given up.                                                  *)
LEMMA AnswerIsDropped ==
  ASSUME NEW n \in Nat, NEW A, NEW S, NEW P, NEW U, NEW D, NEW x \in P,
         Accounted(A, S, P, U, D, n)
  PROVE  Accounted(A, S, P \ {x}, U, D \cup {x}, n)
<1>1. A \cup S \cup P \cup U \cup D = 1..n
  BY DEF Accounted
<1>2. A \cup S \cup (P \ {x}) \cup U \cup (D \cup {x}) = 1..n
  BY <1>1
<1>3. x \in Int /\ x \notin A /\ x \notin S /\ x \notin U
  BY <1>1 DEF Accounted, Precedes
<1> QED
  BY <1>2, <1>3 DEF Accounted, Precedes

----------------------------------------------------------------------------
(* What the tasks bring to the port.                                       *)

(* The values of the parameters, as they are kept, saved and shown.        *)
LEMMA Values ==
  /\ \A p \in AllParam : Legal(p) \subseteq Pin /\ Default(p) \in Pin
  /\ \A p \in AllParam, b \in Pin : Shown(p, b) \in Int
  /\ \A p \in AllParam, raw \in Int :
       (p = "pin" => raw \in Pin) /\ Accepts(p, raw) => Stored(p, raw) \in Pin
<1>1. ASSUME NEW p \in AllParam PROVE Legal(p) \subseteq Pin /\ Default(p) \in Pin
  BY DEF AllParam, Legal, Default, Pin, DigitPin
<1>2. ASSUME NEW p \in AllParam, NEW b \in Pin PROVE Shown(p, b) \in Int
  <2>1. b \in Int
    BY DEF Pin, DigitPin, NotDigits
  <2> QED
    BY <2>1 DEF Shown
<1>3. ASSUME NEW p \in AllParam, NEW raw \in Int, p = "pin" => raw \in Pin, Accepts(p, raw)
      PROVE  Stored(p, raw) \in Pin
  <2>1. CASE p = "pin"
    BY <1>3, <2>1 DEF Stored
  <2>2. CASE p = "timeZone" /\ Int8(raw) < 0
    <3>1. Int8(raw) \in -12..12
      BY <1>3, <2>2 DEF Accepts
    <3>2. Stored(p, raw) = 240 + (-Int8(raw))
      BY <2>2 DEF Stored
    <3> QED
      BY <2>2, <3>1, <3>2 DEF Pin, DigitPin
  <2>3. CASE p # "pin" /\ ~(p = "timeZone" /\ Int8(raw) < 0)
    <3>1. Stored(p, raw) = raw % 256
      BY <2>3 DEF Stored
    <3> QED
      BY <3>1 DEF Pin, DigitPin
  <2> QED
    BY <2>1, <2>2, <2>3
<1> QED
  BY <1>1, <1>2, <1>3

(* A getter answers a number.                                              *)
LEMMA Getter == ASSUME TypeInv, NEW p \in Param PROVE CustNV_get(p) \in Int
  BY Values, ParamAssumption DEF TypeInv, TypeOK, CustNV_get

(* The line in hand is one the host has sent, and leaves the queue.        *)
LEMMA LineInHand ==
  ASSUME TypeInv, NEW do, Handles(do)
  PROVE  /\ Head(lines).n \in Nat /\ Head(lines).line \in HostLines
         /\ lines' \in Seq(NumberedLines)
<1>1. lines \in Seq(NumberedLines) /\ lines # <<>> /\ lines' = Tail(lines)
  BY DEF TypeInv, Handles
<1>2. Head(lines) \in NumberedLines /\ Tail(lines) \in Seq(NumberedLines)
  BY <1>1, Shortened
<1> QED
  BY <1>1, <1>2 DEF NumberedLines

(* The application task's texts may be given up and are nobody's answer.   *)
LEMMA AppComes ==
  ASSUME TypeInv, NEW kind \in {"conn", "value"}, NEW p \in Param \cup {"none"}, NEW v \in Int,
         kind = "conn" => v \in 0..2, kind = "value" => p \in Param
  PROVE  /\ Comes("app", Text(kind, p, v, Unasked), TRUE)
         /\ Text(kind, p, v, Unasked) \in Texts
<1>1. Unasked \in Nat
  BY DEF Unasked
<1>2. p \in AllParam \cup {"none"}
  BY ParamAssumption
<1>3. /\ Text(kind, p, v, Unasked) \in Texts
      /\ Text(kind, p, v, Unasked).kind = kind /\ Text(kind, p, v, Unasked).n = Unasked
  BY <1>1, <1>2, TextIsText
<1> QED
  BY <1>3 DEF Comes, Waits

(* The command task's texts answer the line in hand; an OK is never given  *)
(* up.                                                                     *)
LEMMA CmdComes ==
  ASSUME TypeInv, NEW do, Handles(do), NEW kind \in {"value", "set", "restored", "text"},
         NEW p \in Param \cup {"none"}, NEW v \in Int, NEW log \in BOOLEAN,
         kind = "value" => p \in Param, log => kind \notin {"set", "restored"}
  PROVE  /\ Comes("cmd", Text(kind, p, v, Head(lines).n), log)
         /\ Text(kind, p, v, Head(lines).n) \in Texts
         /\ Text(kind, p, v, Head(lines).n).n = Head(lines).n
         /\ Text(kind, p, v, Head(lines).n).kind = kind
<1>1. Head(lines).n \in Nat
  BY LineInHand
<1>2. p \in AllParam \cup {"none"}
  BY ParamAssumption
<1>3. /\ Text(kind, p, v, Head(lines).n) \in Texts
      /\ Text(kind, p, v, Head(lines).n).kind = kind
      /\ Text(kind, p, v, Head(lines).n).n = Head(lines).n
  BY <1>1, <1>2, TextIsText
<1> QED
  BY <1>3 DEF Comes, Waits, Handles

(* The plan for the line in hand is about a parameter in use.              *)
LEMMA PlanInHand ==
  ASSUME TypeInv, NEW do, Handles(do)
  PROVE  /\ PlanFor(Head(lines).line).do \in do
         /\ PlanFor(Head(lines).line).do \in {"get", "set"}
              => PlanFor(Head(lines).line).p \in Param
         /\ PlanFor(Head(lines).line).do = "set"
              => /\ PlanFor(Head(lines).line).raw \in Int
                 /\ PlanFor(Head(lines).line).p = "pin" => PlanFor(Head(lines).line).raw \in Pin
<1>1. Head(lines).line \in HostLines
  BY LineInHand
<1>2. Pin \subseteq Int
  BY DEF Pin, DigitPin, NotDigits
<1> QED
  BY <1>1, <1>2, LinesAssumption DEF Handles


(* Whatever a line asks for, it leaves the queue and its answer comes.     *)
LEMMA CmdReplies ==
  ASSUME TypeInv, CmdTask
  PROVE  /\ lines # <<>> /\ lines' = Tail(lines)
         /\ UNCHANGED <<gap, advert, appMsgQueue, reports, asked, host, dropped, connMissed>>
         /\ custParas' \in [Param -> Pin] /\ missed' \subseteq Param
         /\ mishaps' \in 0..MaxMishaps /\ mishaps' >= mishaps
         /\ \E text \in Texts, log \in BOOLEAN :
              /\ text.n = Head(lines).n /\ text.kind # "conn"
              /\ Comes("cmd", text, log) /\ Pends("cmd", text, log)
<1> DEFINE plan == PlanFor(Head(lines).line)
           n == Head(lines).n
           Answered2 == \E text \in Texts, log \in BOOLEAN :
                          /\ text.n = Head(lines).n /\ text.kind # "conn"
                          /\ Comes("cmd", text, log) /\ Pends("cmd", text, log)
<1>0. /\ custParas \in [Param -> Pin] /\ missed \subseteq Param /\ mishaps \in 0..MaxMishaps
      /\ "none" \in Param \cup {"none"} /\ 0 \in Int
      /\ MaxMishaps \in Nat
  BY BoundsAssumption DEF TypeInv, TypeOK
<1>1. ASSUME NEW do, Handles(do), NEW kind \in {"value", "set", "restored", "text"},
             NEW p \in Param \cup {"none"}, NEW v \in Int, NEW log \in BOOLEAN,
             kind = "value" => p \in Param, log => kind \notin {"set", "restored"},
             Reply(kind, p, v, log)
      PROVE  Answered2
  BY <1>1, CmdComes DEF Reply
<1>2. ASSUME NEW do, Handles(do)
      PROVE  /\ lines # <<>> /\ lines' = Tail(lines)
             /\ UNCHANGED <<gap, advert, appMsgQueue, reports, asked, host>>
  BY <1>2 DEF Handles
<1>3. Mishap => mishaps' \in 0..MaxMishaps /\ mishaps' >= mishaps
  BY <1>0 DEF Mishap
<1>4. ASSUME NEW do, Handles(do), NEW kind \in {"restored", "text"}, Replies(kind)
      PROVE  Answered2
  BY <1>0, <1>1, <1>4 DEF Replies
<1> HIDE DEF Answered2
<1>5. CASE CmdSays
  <2>1. Answered2
    <3>1. IsLogged(PlanFor(Head(lines).line)) \in BOOLEAN
      BY DEF IsLogged
    <3> QED
      BY <1>0, <1>1, <1>5, <3>1 DEF CmdSays
  <2> QED
    BY <1>0, <1>2, <1>5, <2>1 DEF CmdSays, history, Answered2
<1>6. CASE CmdGets
  <2>1. plan.p \in Param
    BY <1>6, PlanInHand DEF CmdGets
  <2>2. Answered2
    <3>1. CASE Reply("value", plan.p, CustNV_get(plan.p), TRUE)
      BY <1>1, <1>6, <2>1, <3>1, Getter DEF CmdGets
    <3>2. CASE Replies("text")
      BY <1>4, <1>6, <3>2 DEF CmdGets
    <3> QED
      BY <1>6, <3>1, <3>2 DEF CmdGets
  <2>3. UNCHANGED <<custParas, dropped, connMissed>> /\ (UNCHANGED mishaps \/ Mishap)
    BY <1>6 DEF CmdGets
  <2>4. missed' \subseteq missed
    BY <1>6 DEF CmdGets
  <2> QED
    BY <1>0, <1>2, <1>3, <1>6, <2>2, <2>3, <2>4 DEF CmdGets, Answered2
<1>7. CASE CmdSets
  <2>1. plan.p \in Param /\ plan.raw \in Int /\ (plan.p = "pin" => plan.raw \in Pin)
    BY <1>7, PlanInHand DEF CmdSets
  <2>2. Answered2
    <3>1. CASE Reply("set", plan.p, plan.raw, FALSE)
      BY <1>1, <1>7, <2>1, <3>1 DEF CmdSets
    <3>2. CASE Replies("text")
      BY <1>4, <1>7, <3>2 DEF CmdSets
    <3> QED
      BY <1>7, <3>1, <3>2 DEF CmdSets
  <2>3. custParas' \in [Param -> Pin]
    <3>1. Accepts(plan.p, plan.raw) => Stored(plan.p, plan.raw) \in Pin
      BY <2>1, Values, ParamAssumption
    <3> QED
      BY <1>0, <1>7, <3>1 DEF CmdSets
  <2>4. missed' \subseteq Param /\ UNCHANGED <<dropped, connMissed>>
    BY <1>0, <1>7, <2>1 DEF CmdSets
  <2>5. mishaps' \in 0..MaxMishaps /\ mishaps' >= mishaps
    <3>1. UNCHANGED mishaps \/ Mishap
      BY <1>7 DEF CmdSets
    <3> QED
      BY <1>0, <1>3, <3>1
  <2> QED
    BY <1>2, <1>7, <2>2, <2>3, <2>4, <2>5 DEF CmdSets, Answered2
<1>8. CASE CmdRestores
  <2>1. Answered2
    BY <1>4, <1>8 DEF CmdRestores
  <2>2. Defaults \in [Param -> Pin]
    BY Values, ParamAssumption DEF Defaults
  <2> QED
    BY <1>0, <1>2, <1>3, <1>8, <2>1, <2>2 DEF CmdRestores, Answered2
<1> QED
  BY <1>5, <1>6, <1>7, <1>8 DEF CmdTask


(* The application task reports a state: the text for it comes.            *)
LEMMA StateIsReported ==
  ASSUME TypeInv, AppReportsState
  PROVE  \E state \in {"ADVERTISING", "CONNECTED", "WAITING"} :
         \E text \in ConnIs(ConnCode(state)) :
           /\ AppTakes(state) /\ ConnCode(state) \in 0..2
           /\ text.n = Unasked /\ text.kind = "conn"
           /\ Comes("app", text, TRUE) /\ Pends("app", text, TRUE)
           /\ UNCHANGED <<advert, reports, history>>
<1>1. PICK state \in {"ADVERTISING", "CONNECTED", "WAITING"} :
        /\ AppTakes(state)
        /\ Pends("app", Text("conn", "none", ConnCode(state), Unasked), TRUE)
        /\ UNCHANGED <<advert, reports, history>>
  BY DEF AppReportsState
<1>2. ConnCode(state) \in Int /\ ConnCode(state) \in 0..2
  BY DEF ConnCode
<1> DEFINE text == Text("conn", "none", ConnCode(state), Unasked)
<1>3. Comes("app", text, TRUE) /\ text \in Texts
  BY <1>2, AppComes
<1>4. text.n = Unasked /\ text.kind = "conn" /\ text.v = ConnCode(state)
  BY DEF Text
<1> HIDE DEF text
<1>5. text \in ConnIs(ConnCode(state))
  BY <1>3, <1>4 DEF ConnIs, ConnNews
<1>6. Pends("app", text, TRUE)
  BY <1>1 DEF text
<1> QED
  BY <1>1, <1>2, <1>3, <1>4, <1>5, <1>6

(* The application task reports a parameter: the text with its value comes. *)
LEMMA ValueIsReported ==
  ASSUME TypeInv, Cmd_onValueChanged
  PROVE  \E p \in reports : \E text \in NewsIs(p, CustNV_get(p)) :
           /\ p \in Param /\ CustNV_get(p) \in Int
           /\ text.n = Unasked /\ text.kind = "value" /\ text.p = p
           /\ Comes("app", text, TRUE) /\ Pends("app", text, TRUE)
           /\ missed' = missed \ {p} /\ reports' = reports \ {p}
           /\ UNCHANGED <<gap, advert, appMsgQueue, custParas, lines, asked, host, dropped,
                          connMissed, mishaps>>
<1>1. PICK i \in DOMAIN ReportOrder :
        /\ ReportOrder[i] \in reports
        /\ Pends("app", Text("value", ReportOrder[i], CustNV_get(ReportOrder[i]), Unasked), TRUE)
        /\ missed' = missed \ {ReportOrder[i]} /\ reports' = reports \ {ReportOrder[i]}
  BY DEF Cmd_onValueChanged
<1> DEFINE p == ReportOrder[i]
<1>2. p \in Param
  BY <1>1 DEF TypeInv
<1>3. CustNV_get(p) \in Int
  BY <1>2, Getter
<1> HIDE DEF p
<1> DEFINE text == Text("value", p, CustNV_get(p), Unasked)
<1>4. Comes("app", text, TRUE) /\ text \in Texts
  BY <1>2, <1>3, AppComes
<1>5. /\ text.n = Unasked /\ text.kind = "value" /\ text.p = p
      /\ text.v = CustNV_get(p)
  BY DEF Text
<1> HIDE DEF text
<1>6. text \in NewsIs(p, CustNV_get(p))
  BY <1>4, <1>5 DEF NewsIs, NewsOf, Says
<1>7. /\ p \in reports /\ Pends("app", text, TRUE)
      /\ missed' = missed \ {p} /\ reports' = reports \ {p}
  BY <1>1 DEF text, p
<1>8. UNCHANGED <<gap, advert, appMsgQueue, custParas, lines, asked, host, dropped,
                  connMissed, mishaps>>
  BY DEF Cmd_onValueChanged
<1> QED
  BY <1>2, <1>3, <1>4, <1>5, <1>6, <1>7, <1>8

(* What the application task brings is nobody's answer.                    *)
LEMMA AppBrings ==
  ASSUME TypeInv, AppReportsState \/ Cmd_onValueChanged
  PROVE  /\ UNCHANGED <<gap, advert, custParas, lines, asked, host, dropped, connMissed, mishaps>>
         /\ missed' \subseteq missed /\ reports' \subseteq Param
         /\ \E text \in Texts :
              /\ text.n = Unasked /\ Comes("app", text, TRUE) /\ Pends("app", text, TRUE)
<1>1. CASE AppReportsState
  <2>0. PICK state \in {"ADVERTISING", "CONNECTED", "WAITING"} :
          \E text \in ConnIs(ConnCode(state)) :
            /\ AppTakes(state) /\ UNCHANGED <<advert, reports, history>>
            /\ text.n = Unasked /\ Comes("app", text, TRUE) /\ Pends("app", text, TRUE)
    BY <1>1, StateIsReported
  <2>1. PICK text \in ConnIs(ConnCode(state)) :
          /\ AppTakes(state) /\ UNCHANGED <<advert, reports, history>>
          /\ text.n = Unasked /\ Comes("app", text, TRUE) /\ Pends("app", text, TRUE)
    BY <2>0
  <2>2. text \in Texts
    BY DEF ConnIs, ConnNews
  <2> QED
    BY <2>1, <2>2 DEF AppTakes, history, TypeInv
<1>2. CASE Cmd_onValueChanged
  <2>0. PICK p \in reports :
          \E text \in NewsIs(p, CustNV_get(p)) :
            /\ text.n = Unasked /\ Comes("app", text, TRUE) /\ Pends("app", text, TRUE)
            /\ missed' = missed \ {p} /\ reports' = reports \ {p}
            /\ UNCHANGED <<gap, advert, appMsgQueue, custParas, lines, asked, host, dropped,
                           connMissed, mishaps>>
    BY <1>2, ValueIsReported
  <2>1. PICK text \in NewsIs(p, CustNV_get(p)) :
          /\ text.n = Unasked /\ Comes("app", text, TRUE) /\ Pends("app", text, TRUE)
          /\ missed' = missed \ {p} /\ reports' = reports \ {p}
          /\ UNCHANGED <<gap, advert, appMsgQueue, custParas, lines, asked, host, dropped,
                         connMissed, mishaps>>
    BY <2>0
  <2>2. text \in Texts
    BY DEF NewsIs, NewsOf
  <2> QED
    BY <2>1, <2>2 DEF TypeInv
<1> QED
  BY <1>1, <1>2

----------------------------------------------------------------------------
(* Every step keeps the answers accounted for.                             *)

(* A text that answers no line moves no number.                            *)
LEMMA OtherTextPends ==
  ASSUME TypeInv, PortInv, AnswerInv, NEW by, NEW text, NEW log, text.n = Unasked,
         Comes(by, text, log), Pends(by, text, log),
         UNCHANGED <<answers, lines, asked, dropped>>
  PROVE  AnswerInv'
<1>1. Sent' = Sent /\ Pending' = Pending
  BY PendsNumbers
<1>2. Unhandled' = Unhandled /\ Answered' = Answered
  BY DEF Unhandled, Answered
<1> QED
  BY <1>1, <1>2 DEF AnswerInv

(* The answer to the line in hand comes after all earlier ones.            *)
LEMMA AnswerPends ==
  ASSUME TypeInv, PortInv, AnswerInv, CmdTask
  PROVE  AnswerInv'
<1>1. /\ lines # <<>> /\ lines' = Tail(lines) /\ UNCHANGED <<answers, asked, dropped>>
  BY CmdReplies DEF host
<1>2. PICK text \in Texts, log \in BOOLEAN :
        text.n = Head(lines).n /\ Comes("cmd", text, log) /\ Pends("cmd", text, log)
  BY CmdReplies
<1>3. /\ DOMAIN lines' = 1..(Len(lines) - 1) /\ DOMAIN lines = 1..Len(lines)
      /\ Len(lines) \in Nat \ {0} /\ Head(lines) = lines[1]
      /\ \A i \in 1..(Len(lines) - 1) : lines'[i] = lines[i + 1]
  BY <1>1, Shortened DEF TypeInv
<1> DEFINE u == Head(lines).n
<1>4. Unhandled = Unhandled' \cup {u} /\ \A v \in Unhandled' : u < v
  <2>1. \A i \in DOMAIN lines \ {1} : i - 1 \in DOMAIN lines' /\ lines'[i - 1] = lines[i]
    BY <1>3
  <2>2. \A i \in DOMAIN lines' : i + 1 \in DOMAIN lines /\ lines'[i] = lines[i + 1] /\ 1 < i + 1
    BY <1>3
  <2>3. 1 \in DOMAIN lines /\ u = lines[1].n
    BY <1>3
  <2>4. Unhandled = Unhandled' \cup {u}
    BY <2>1, <2>2, <2>3 DEF Unhandled
  <2>5. \A v \in Unhandled' : u < v
    BY <2>2, <2>3 DEF Unhandled, AnswerInv
  <2> QED
    BY <2>4, <2>5
<1>5. \A i, j \in DOMAIN lines' : i < j => lines'[i].n < lines'[j].n
  <2> TAKE i, j \in DOMAIN lines'
  <2>1. /\ i + 1 \in DOMAIN lines /\ j + 1 \in DOMAIN lines
        /\ lines'[i] = lines[i + 1] /\ lines'[j] = lines[j + 1]
        /\ i < j => i + 1 < j + 1
    BY <1>3
  <2> QED
    BY <2>1 DEF AnswerInv
<1> HIDE DEF u
<1>6. asked \in Nat /\ Accounted(Answered, Sent, Pending, Unhandled' \cup {u}, dropped, asked)
  BY <1>4, BoundsAssumption DEF AnswerInv, TypeInv, TypeOK
<1>7. /\ u \in 1..asked
      /\ Accounted(Answered, Sent, Pending \cup {u}, Unhandled', dropped, asked)
      /\ Sent = {} /\ Pending = {} => Accounted(Answered, {u}, {}, Unhandled', dropped, asked)
  BY <1>4, <1>6, LineIsHandled
<1>8. text.n = u /\ {u} \ {Unasked} = {u}
  BY <1>2, <1>6, <1>7 DEF u, Unasked
<1>9. \/ Sent = {} /\ Pending = {} /\ Sent' = {u} /\ Pending' = {}
      \/ Sent' = Sent /\ Pending' = Pending \cup {u}
  BY <1>2, <1>8, PendsNumbers
<1>10. Accounted(Answered, Sent', Pending', Unhandled', dropped, asked)
  BY <1>7, <1>9
<1> QED
  BY <1>1, <1>5, <1>10 DEF AnswerInv, Answered

(* Every step keeps each line in one place, in order.                      *)
LEMMA AnswerStep ==
  ASSUME TypeInv, PortInv, AnswerInv, [Next]_vars
  PROVE  AnswerInv'
<1>0. /\ asked \in Nat /\ Accounted(Answered, Sent, Pending, Unhandled, dropped, asked)
      /\ answers \in Seq(Nat) /\ sending \in Texts
  BY BoundsAssumption DEF AnswerInv, TypeInv, TypeOK
<1>1. CASE UNCHANGED <<answers, lines, asked, dropped, sending, waits>>
  BY <1>1 DEF AnswerInv, Answered, Sent, Pending, Unhandled
<1>2. CASE uart_writeCallBack
  <2>1. /\ Post /\ UNCHANGED <<lines, asked, dropped>>
        /\ answers' = IF sending.n = Unasked THEN answers ELSE Append(answers, sending.n)
    BY <1>2 DEF uart_writeCallBack, history
  <2>2. Unhandled' = Unhandled
    BY <2>1 DEF Unhandled
  <2>3. sending.n \in Nat
    BY <1>0 DEF Texts
  <2>4. Answered' = Answered \cup Sent
    BY <1>0, <2>1, <2>3, Extended DEF Answered, Sent
  <2>5. Accounted(Answered \cup Sent, Sent', Pending', Unhandled, dropped, asked)
    BY <1>0, <2>1, PostNumbers, AnswerIsRead
  <2>6. \A i, j \in DOMAIN answers' : i < j => answers'[i] < answers'[j]
    <3>1. CASE sending.n = Unasked
      BY <2>1, <3>1 DEF AnswerInv
    <3>2. CASE sending.n # Unasked
      <4>1. /\ DOMAIN answers' = 1..(Len(answers) + 1) /\ DOMAIN answers = 1..Len(answers)
            /\ Len(answers) \in Nat /\ answers'[Len(answers) + 1] = sending.n
            /\ \A i \in DOMAIN answers : answers'[i] = answers[i]
        BY <1>0, <2>1, <2>3, <3>2, Extended
      <4>2. \A i \in DOMAIN answers : answers[i] < sending.n
        BY <1>0, <3>2 DEF Accounted, Precedes, Answered, Sent, ToSet
      <4> QED
        BY <4>1, <4>2 DEF AnswerInv
    <3> QED
      BY <3>1, <3>2
  <2> QED
    BY <2>1, <2>2, <2>4, <2>5, <2>6 DEF AnswerInv
<1>3. CASE RxSuspends
  <2>1. /\ Pends("rx", Silence, FALSE) /\ UNCHANGED <<answers, lines, asked, dropped>>
        /\ Silence.n = Unasked
    BY <1>3, SilenceIsText DEF RxSuspends, host, history
  <2>2. Comes("rx", Silence, FALSE)
    BY SilenceIsText DEF Comes, Waits
  <2> QED
    BY <2>1, <2>2, OtherTextPends
<1>4. CASE RxResumes
  <2>1. tx = "shut" /\ Post /\ UNCHANGED <<answers, lines, asked, dropped>>
    BY <1>4 DEF RxResumes, host, history
  <2>2. Sent = {}
    BY <2>1, SilenceIsText DEF PortInv, Sent
  <2>3. Accounted(Answered \cup {}, Sent', Pending', Unhandled, dropped, asked)
    BY <1>0, <2>1, <2>2, PostNumbers, AnswerIsRead
  <2> QED
    BY <2>1, <2>3 DEF AnswerInv, Answered, Unhandled
<1>5. CASE Log_printf_GivesUp
  <2>1. PICK k \in DOMAIN waits :
          /\ waits' = RemoveAt(waits, k)
          /\ dropped' = dropped \cup ({waits[k].text.n} \ {Unasked})
    BY <1>5 DEF Log_printf_GivesUp
  <2>2. UNCHANGED <<answers, lines, asked, sending>>
    BY <1>5 DEF Log_printf_GivesUp, host
  <2>3. Pending' = Pending \ {waits[k].text.n}
    BY <2>1, DropNumbers
  <2>4. CASE waits[k].text.n = Unasked
    <3>1. Pending' = Pending /\ dropped' = dropped
      BY <2>1, <2>3, <2>4 DEF Pending
    <3> QED
      BY <2>2, <3>1 DEF AnswerInv, Answered, Sent, Unhandled
  <2>5. CASE waits[k].text.n # Unasked
    <3>1. waits[k].text.n \in Pending /\ dropped' = dropped \cup {waits[k].text.n}
      BY <2>1, <2>5 DEF Pending
    <3>2. Accounted(Answered, Sent, Pending', Unhandled, dropped', asked)
      BY <1>0, <2>3, <3>1, AnswerIsDropped
    <3> QED
      BY <2>2, <3>2 DEF AnswerInv, Answered, Sent, Unhandled
  <2> QED
    BY <2>4, <2>5
<1>6. CASE AppReportsState \/ Cmd_onValueChanged
  BY <1>6, AppBrings, OtherTextPends DEF host
<1>7. CASE HostSends
  <2>1. PICK l \in HostLines : lines' = Append(lines, [n |-> asked', line |-> l])
    BY <1>7 DEF HostSends
  <2>2. asked' = asked + 1 /\ UNCHANGED <<answers, dropped, sending, waits>>
    BY <1>7 DEF HostSends, host, history, port
  <2> DEFINE x == [n |-> asked', line |-> l]
  <2>3. x.n = asked + 1 /\ x \in NumberedLines /\ lines \in Seq(NumberedLines)
    BY <1>0, <2>2 DEF TypeInv, NumberedLines
  <2> HIDE DEF x
  <2>4. /\ DOMAIN lines' = 1..(Len(lines) + 1) /\ DOMAIN lines = 1..Len(lines)
        /\ Len(lines) \in Nat /\ lines'[Len(lines) + 1] = x
        /\ \A i \in DOMAIN lines : lines'[i] = lines[i]
    BY <2>1, <2>3, Extended DEF x
  <2>5. Unhandled' = Unhandled \cup {asked + 1}
    BY <2>3, <2>4 DEF Unhandled
  <2>6. \A i \in DOMAIN lines : lines[i].n \in 1..asked
    BY <1>0 DEF Accounted, Unhandled
  <2>7. \A i, j \in DOMAIN lines' : i < j => lines'[i].n < lines'[j].n
    BY <1>0, <2>3, <2>4, <2>6 DEF AnswerInv
  <2>8. Accounted(Answered, Sent, Pending, Unhandled', dropped, asked')
    BY <1>0, <2>2, <2>5, LineIsSent
  <2> QED
    BY <2>2, <2>7, <2>8 DEF AnswerInv, Answered, Sent, Pending
<1>8. CASE CmdTask
  BY <1>8, AnswerPends
<1>9. CASE RoleStarts \/ RoleAdvertises \/ RoleChanges \/ BleWrites
  <2>1. UNCHANGED <<answers, lines, asked, dropped, sending, waits>>
    BY <1>9 DEF RoleStarts, RoleAdvertises, RoleChanges, BleWrites, RoleBecomes,
                SimpleBLEPeripheral_enqueueMsg, host, port
  <2> QED
    BY <1>1, <2>1
<1>10. CASE \/ AppStarts \/ AppSeesTimeout
            \/ \E event \in {"DOORLOCK_PIN", "DOORLOCK_PARA"} :
                 SimpleBLEPeripheral_processCharValueChangeEvt(event)
  <2>1. UNCHANGED <<answers, lines, asked, dropped, sending, waits>>
    BY <1>10 DEF AppStarts, AppSeesTimeout, SimpleBLEPeripheral_processCharValueChangeEvt,
                 AppTakes, host, port, history
  <2> QED
    BY <1>1, <2>1
<1>11. UNCHANGED vars => UNCHANGED <<answers, lines, asked, dropped, sending, waits>>
  BY DEF vars, host, port, history
<1> QED
  BY <1>1, <1>2, <1>3, <1>4, <1>5, <1>6, <1>7, <1>8, <1>9, <1>10, <1>11 DEF Next, App

(* Every step keeps the order of the port.                                 *)
LEMMA PortStep ==
  ASSUME TypeInv, PortInv, [Next]_vars
  PROVE  /\ PortInv' /\ sending' \in Texts /\ waits' \in Seq(Waits)
         /\ tx' \in {"free", "busy", "shut"}
<1>0. sending \in Texts /\ waits \in Seq(Waits) /\ tx \in {"free", "busy", "shut"}
  BY DEF TypeInv, TypeOK
<1>1. CASE UNCHANGED <<tx, sending, waits>>
  BY <1>0, <1>1 DEF PortInv
<1>2. CASE uart_writeCallBack \/ RxResumes
  BY <1>2, PostPort DEF uart_writeCallBack, RxResumes
<1>3. CASE RxSuspends
  <2>1. Comes("rx", Silence, FALSE) /\ Pends("rx", Silence, FALSE)
    BY <1>3, SilenceIsText DEF RxSuspends, Comes, Waits
  <2> QED
    BY <2>1, PendsPort
<1>4. CASE Log_printf_GivesUp
  <2>1. UNCHANGED <<tx, sending>> /\ \E k \in DOMAIN waits : waits' = RemoveAt(waits, k)
    BY <1>4 DEF Log_printf_GivesUp
  <2> QED
    BY <1>0, <2>1, DropPort
<1>5. CASE AppReportsState \/ Cmd_onValueChanged
  BY <1>5, AppBrings, PendsPort
<1>6. CASE CmdTask
  BY <1>6, CmdReplies, PendsPort
<1>7. CASE RoleStarts \/ RoleAdvertises \/ RoleChanges \/ BleWrites \/ HostSends
  BY <1>1, <1>7 DEF RoleStarts, RoleAdvertises, RoleChanges, BleWrites, RoleBecomes,
                    HostSends, port
<1>8. CASE \/ AppStarts \/ AppSeesTimeout
           \/ \E event \in {"DOORLOCK_PIN", "DOORLOCK_PARA"} :
                SimpleBLEPeripheral_processCharValueChangeEvt(event)
  BY <1>1, <1>8 DEF AppStarts, AppSeesTimeout,
                    SimpleBLEPeripheral_processCharValueChangeEvt, port
<1>9. UNCHANGED vars => UNCHANGED <<tx, sending, waits>>
  BY DEF vars, port
<1> QED
  BY <1>1, <1>2, <1>3, <1>4, <1>5, <1>6, <1>7, <1>8, <1>9 DEF Next, App

(* The application task's queue takes one of its messages.                 *)
LEMMA EnqueueTypes ==
  ASSUME TypeInv, NEW event \in Messages, NEW changed \in SUBSET Param,
         SimpleBLEPeripheral_enqueueMsg(event, changed)
  PROVE  /\ appMsgQueue' \in Seq(Messages) /\ UNCHANGED dropped
         /\ missed' \subseteq Param /\ connMissed' \in BOOLEAN
         /\ mishaps' \in 0..MaxMishaps
<1>1. /\ appMsgQueue \in Seq(Messages) /\ missed \subseteq Param
      /\ connMissed \in BOOLEAN /\ mishaps \in 0..MaxMishaps /\ MaxMishaps \in Nat
  BY BoundsAssumption DEF TypeInv, TypeOK
<1>2. Append(appMsgQueue, event) \in Seq(Messages)
  BY <1>1, Extended
<1>3. Mishap => mishaps' \in 0..MaxMishaps
  BY <1>1 DEF Mishap
<1> QED
  BY <1>1, <1>2, <1>3 DEF SimpleBLEPeripheral_enqueueMsg

(* Taking a message changes the queue alone.                               *)
LEMMA TakeTypes ==
  ASSUME TypeInv, NEW event, AppTakes(event)
  PROVE  /\ appMsgQueue' \in Seq(Messages)
         /\ UNCHANGED <<gap, custParas, lines, asked, conn, told, answers>>
<1>1. appMsgQueue \in Seq(Messages) /\ appMsgQueue # <<>>
      /\ appMsgQueue' = Tail(appMsgQueue)
  BY DEF TypeInv, AppTakes
<1> QED
  BY <1>1, Shortened DEF AppTakes, host

(* A write over BLE changes parameters that its message makes known.       *)
LEMMA BleTypes ==
  ASSUME TypeInv, BleWrites
  PROVE  /\ custParas' \in [Param -> Pin]
         /\ UNCHANGED <<gap, advert, reports, lines, asked, tx, sending, waits, conn, told,
                        answers>>
         /\ gap = "CONNECTED"
         /\ \E event \in Events :
              /\ SimpleBLEPeripheral_enqueueMsg(event, ReportsOf(event))
              /\ \A p \in Param \ ReportsOf(event) : custParas'[p] = custParas[p]
<1>1. custParas \in [Param -> Pin]
  BY DEF TypeInv, TypeOK
<1>2. ASSUME NEW pin \in BlePins
      PROVE  /\ [custParas EXCEPT !["pin"] = pin] \in [Param -> Pin]
             /\ \A p \in Param \ {"pin"} : [custParas EXCEPT !["pin"] = pin][p] = custParas[p]
  BY <1>1, BleAssumption, ParamAssumption DEF Pin
<1>3. ASSUME NEW b \in BleParas
      PROVE  [p \in Param |-> IF p = "pin" THEN custParas[p] ELSE b[p]] \in [Param -> Pin]
  <2>1. \A p \in Param \ {"pin"} : b[p] \in Pin
    BY BleAssumption, ParamAssumption, Values
  <2> QED
    BY <1>1, <2>1
<1>4. UNCHANGED <<gap, advert, reports, lines, asked, tx, sending, waits, conn, told, answers>>
      /\ gap = "CONNECTED"
  BY DEF BleWrites, port, host
<1>5. CASE \E pin \in BlePins :
             /\ custParas' = [custParas EXCEPT !["pin"] = pin]
             /\ SimpleBLEPeripheral_enqueueMsg("DOORLOCK_PIN", {"pin"})
  <2>1. "DOORLOCK_PIN" \in Events /\ ReportsOf("DOORLOCK_PIN") = {"pin"}
    BY DEF Events, ReportsOf
  <2> QED
    BY <1>2, <1>4, <1>5, <2>1
<1>6. CASE \E b \in BleParas :
             /\ custParas' = [p \in Param |-> IF p = "pin" THEN custParas[p] ELSE b[p]]
             /\ SimpleBLEPeripheral_enqueueMsg("DOORLOCK_PARA", Param \ {"pin"})
  <2>1. "DOORLOCK_PARA" \in Events /\ ReportsOf("DOORLOCK_PARA") = Param \ {"pin"}
    BY DEF Events, ReportsOf
  <2>2. \A p \in Param \ ReportsOf("DOORLOCK_PARA") : p = "pin"
    BY <2>1
  <2>3. \A p \in Param \ ReportsOf("DOORLOCK_PARA") : custParas'[p] = custParas[p]
    BY <1>6, <2>2, ParamAssumption
  <2> QED
    BY <1>3, <1>4, <1>6, <2>1, <2>3
<1> QED
  BY <1>5, <1>6 DEF BleWrites

(* Every step keeps the types.                                             *)
LEMMA TypeStep ==
  ASSUME TypeInv, PortInv, AnswerInv, [Next]_vars
  PROVE  TypeInv' /\ PortInv' /\ AnswerInv'
<1>0. /\ asked \in 0..MaxAsked /\ mishaps \in 0..MaxMishaps /\ MaxMishaps \in Nat
      /\ MaxAsked \in Nat /\ answers \in Seq(Nat) /\ sending \in Texts /\ missed \subseteq Param
      /\ lines \in Seq(NumberedLines) /\ told \in [Param -> Int]
      /\ custParas \in [Param -> Pin] /\ connMissed \in BOOLEAN /\ reports \subseteq Param
      /\ gap \in States /\ advert \in BOOLEAN /\ conn \in -1..2
      /\ appMsgQueue \in Seq(Messages)
  BY BoundsAssumption DEF TypeInv, TypeOK
<1>1. /\ PortInv' /\ AnswerInv' /\ sending' \in Texts /\ waits' \in Seq(Waits)
      /\ tx' \in {"free", "busy", "shut"}
  BY PortStep, AnswerStep
<1> SUFFICES TypeInv'
  BY <1>1
<1>2. dropped' \subseteq 1..asked'
  BY <1>1 DEF AnswerInv, Accounted
<1>3. ASSUME /\ gap' \in States /\ advert' \in BOOLEAN
             /\ custParas' \in [Param -> Pin] /\ told' \in [Param -> Int]
             /\ conn' \in -1..2 /\ asked' \in 0..MaxAsked /\ mishaps' \in 0..MaxMishaps
             /\ missed' \subseteq Param /\ appMsgQueue' \in Seq(Messages)
             /\ reports' \subseteq Param /\ lines' \in Seq(NumberedLines)
             /\ answers' \in Seq(Nat) /\ connMissed' \in BOOLEAN
      PROVE  TypeInv'
  BY <1>1, <1>2, <1>3 DEF TypeInv, TypeOK
<1>4. CASE uart_writeCallBack
  <2>1. conn' \in -1..2
    BY <1>0, <1>4 DEF uart_writeCallBack, Texts
  <2>2. told' \in [Param -> Int]
    <3>1. [p \in Param |-> Shown(p, Default(p))] \in [Param -> Int]
      BY Values, ParamAssumption
    <3>2. sending.v \in Int
      BY <1>0 DEF Texts
    <3>3. [told EXCEPT ![sending.p] = sending.v] \in [Param -> Int]
      BY <1>0, <3>2
    <3>4. told' \in {told, [p \in Param |-> Shown(p, Default(p))],
                     [told EXCEPT ![sending.p] = sending.v]}
      BY <1>4 DEF uart_writeCallBack
    <3> QED
      BY <1>0, <3>1, <3>3, <3>4
  <2>3. answers' \in Seq(Nat)
    <3>1. sending.n \in Nat
      BY <1>0 DEF Texts
    <3> QED
      BY <1>0, <1>4, <3>1, Extended DEF uart_writeCallBack
  <2> QED
    BY <1>0, <1>3, <1>4, <2>1, <2>2, <2>3 DEF uart_writeCallBack, history
<1>5. CASE RxSuspends \/ RxResumes
  BY <1>0, <1>3, <1>5 DEF RxSuspends, RxResumes, host, history
<1>6. CASE Log_printf_GivesUp
  <2>1. PICK k \in DOMAIN waits :
          /\ missed' = IF waits[k].text.kind = "value" THEN missed \cup {waits[k].text.p}
                       ELSE missed
          /\ connMissed' = (connMissed \/ waits[k].text.kind = "conn")
    BY <1>6 DEF Log_printf_GivesUp
  <2>2. waits[k].text \in Texts
    <3>1. waits[k] \in Waits
      BY DEF TypeInv
    <3> QED
      BY <3>1 DEF Waits
  <2>3. missed' \subseteq Param
    BY <1>0, <2>1, <2>2 DEF Texts
  <2>4. UNCHANGED <<mishaps, gap, advert, appMsgQueue, custParas, reports, lines, asked, host>>
    BY <1>6 DEF Log_printf_GivesUp
  <2>5. connMissed' \in BOOLEAN
    BY <2>1
  <2> QED
    BY <1>0, <1>3, <2>3, <2>4, <2>5 DEF host
<1>7. ASSUME NEW state \in States, RoleBecomes(state)
      PROVE  TypeInv'
  <2>1. gap' = state /\ UNCHANGED <<advert, custParas, reports, lines, asked, host>>
    BY <1>7 DEF RoleBecomes
  <2>2. /\ appMsgQueue' \in Seq(Messages) /\ missed' \subseteq Param
        /\ connMissed' \in BOOLEAN /\ mishaps' \in 0..MaxMishaps
    <3>1. state \in Messages /\ {} \in SUBSET Param
      BY DEF Messages
    <3> QED
      BY <1>7, <3>1, EnqueueTypes DEF RoleBecomes
  <2> QED
    BY <1>0, <1>3, <2>1, <2>2 DEF host
<1>8. CASE RoleStarts \/ RoleAdvertises \/ RoleChanges
  BY <1>7, <1>8 DEF RoleStarts, RoleAdvertises, RoleChanges, States
<1>9. CASE BleWrites
  <2>1. PICK event \in Events : SimpleBLEPeripheral_enqueueMsg(event, ReportsOf(event))
    BY <1>9, BleTypes
  <2>2. ReportsOf(event) \in SUBSET Param /\ event \in Messages
    BY ParamAssumption DEF ReportsOf, Messages
  <2>3. /\ appMsgQueue' \in Seq(Messages) /\ missed' \subseteq Param
        /\ connMissed' \in BOOLEAN /\ mishaps' \in 0..MaxMishaps
    BY <2>1, <2>2, EnqueueTypes
  <2>4. /\ custParas' \in [Param -> Pin]
        /\ UNCHANGED <<gap, advert, reports, lines, asked, conn, told, answers>>
    BY <1>9, BleTypes
  <2> QED
    BY <1>0, <1>3, <2>3, <2>4
<1>10. Mishap => mishaps' \in 0..MaxMishaps
  BY <1>0 DEF Mishap
<1>11. CASE AppStarts
  <2>1. /\ appMsgQueue' \in Seq(Messages)
        /\ UNCHANGED <<gap, custParas, lines, asked, conn, told, answers>>
    BY <1>11, TakeTypes DEF AppStarts
  <2>2. /\ UNCHANGED <<reports, missed, connMissed>> /\ advert' \in {advert, TRUE}
        /\ UNCHANGED mishaps \/ Mishap
    BY <1>11 DEF AppStarts, history
  <2> QED
    BY <1>0, <1>3, <1>10, <2>1, <2>2
<1>12. CASE AppReportsState \/ Cmd_onValueChanged
  <2>1. appMsgQueue' \in Seq(Messages)
    BY <1>0, <1>12, TakeTypes DEF AppReportsState, Cmd_onValueChanged
  <2>2. /\ UNCHANGED <<gap, advert, custParas, lines, asked, host, connMissed, mishaps>>
        /\ missed' \subseteq missed /\ reports' \subseteq Param
    BY <1>12, AppBrings
  <2> QED
    BY <1>0, <1>3, <2>1, <2>2 DEF host
<1>13. CASE AppSeesTimeout
  BY <1>0, <1>3, <1>13, TakeTypes DEF AppSeesTimeout, history
<1>14. CASE \E event \in {"DOORLOCK_PIN", "DOORLOCK_PARA"} :
              SimpleBLEPeripheral_processCharValueChangeEvt(event)
  <2>1. PICK event \in {"DOORLOCK_PIN", "DOORLOCK_PARA"} :
          SimpleBLEPeripheral_processCharValueChangeEvt(event)
    BY <1>14
  <2>2. /\ appMsgQueue' \in Seq(Messages)
        /\ UNCHANGED <<gap, custParas, lines, asked, conn, told, answers>>
    BY <2>1, TakeTypes DEF SimpleBLEPeripheral_processCharValueChangeEvt
  <2>3. ReportsOf(event) \subseteq Param
    BY ParamAssumption DEF ReportsOf
  <2>4. /\ UNCHANGED <<advert, connMissed>> /\ (UNCHANGED mishaps \/ Mishap)
        /\ missed' \in {missed, missed \cup ReportsOf(event)}
        /\ reports' \in {reports, ReportsOf(event)}
    BY <2>1 DEF SimpleBLEPeripheral_processCharValueChangeEvt, history
  <2> QED
    BY <1>0, <1>3, <1>10, <2>2, <2>3, <2>4
<1>15. CASE HostSends
  <2>1. PICK l \in HostLines : lines' = Append(lines, [n |-> asked', line |-> l])
    BY <1>15 DEF HostSends
  <2>2. asked' = asked + 1 /\ asked < MaxAsked
    BY <1>15 DEF HostSends
  <2> DEFINE x == [n |-> asked', line |-> l]
  <2>3. x \in NumberedLines
    BY <1>0, <2>2 DEF NumberedLines
  <2> HIDE DEF x
  <2>4. lines' \in Seq(NumberedLines)
    BY <1>0, <2>1, <2>3, Extended DEF x
  <2>5. UNCHANGED <<gap, advert, appMsgQueue, custParas, reports, host, history>>
    BY <1>15 DEF HostSends
  <2> QED
    BY <1>0, <1>3, <2>2, <2>4, <2>5 DEF host, history
<1>16. CASE CmdTask
  <2>1. /\ UNCHANGED <<gap, advert, appMsgQueue, reports, asked, host, connMissed>>
        /\ custParas' \in [Param -> Pin] /\ missed' \subseteq Param
        /\ mishaps' \in 0..MaxMishaps
    BY <1>16, CmdReplies
  <2>2. lines' \in Seq(NumberedLines)
    BY <1>16, LineInHand DEF CmdTask, CmdSays, CmdGets, CmdSets, CmdRestores
  <2> QED
    BY <1>0, <1>3, <2>1, <2>2 DEF host
<1>17. CASE UNCHANGED vars
  BY <1>0, <1>3, <1>17 DEF vars, host, history
<1> QED
  BY <1>1, <1>4, <1>5, <1>6, <1>8, <1>9, <1>11, <1>12, <1>13, <1>14, <1>15, <1>16, <1>17
     DEF Next, App

----------------------------------------------------------------------------
(* The last word.                                                          *)

(* A text that pends is the last word, if it is about T.                   *)
LEMMA WordPends ==
  ASSUME TypeInv, PortInv, NEW by, NEW text, NEW log,
         Comes(by, text, log), Pends(by, text, log),
         NEW T, NEW R \in SUBSET T, NEW known \in BOOLEAN, Silence \notin T,
         text \in R \/ (text \notin T /\ LastWord(T, R, known, sending, waits))
  PROVE  LastWord(T, R, known, sending', waits')
<1> DEFINE w == [by |-> by, text |-> text, log |-> log]
<1>1. w \in Waits /\ w.text = text
  BY DEF Comes
<1>2. CASE tx = "free"
  <2>1. sending = Silence /\ waits = <<>> /\ sending' = text /\ waits' = <<>>
    BY <1>2, PendsCases
  <2> QED
    BY <2>1 DEF LastWord
<1>3. CASE tx # "free"
  <2>1. sending' = sending /\ waits' = Append(waits, w)
    BY <1>3, PendsCases
  <2> HIDE DEF w
  <2>2. /\ DOMAIN waits' = 1..(Len(waits) + 1) /\ DOMAIN waits = 1..Len(waits)
        /\ Len(waits) \in Nat /\ waits'[Len(waits) + 1] = w
        /\ \A i \in DOMAIN waits : waits'[i] = waits[i]
    BY <1>1, <2>1, Extended DEF TypeInv
  <2>3. CASE text \in R
    <3>1. \A i \in DOMAIN waits' : i = Len(waits) + 1 \/ Len(waits) + 1 > i
      BY <2>2
    <3>2. Len(waits) + 1 \in DOMAIN waits' /\ waits'[Len(waits) + 1].text \in T
      BY <1>1, <2>2, <2>3
    <3> QED
      BY <1>1, <2>2, <2>3, <3>1, <3>2 DEF LastWord
  <2>4. CASE text \notin T /\ LastWord(T, R, known, sending, waits)
    <3>1. ASSUME NEW i \in DOMAIN waits', waits'[i].text \in T,
                 \A j \in DOMAIN waits' : j > i => waits'[j].text \notin T
          PROVE  waits'[i].text \in R
      <4>1. i \in DOMAIN waits /\ waits'[i] = waits[i]
        BY <1>1, <2>2, <2>4, <3>1
      <4>2. \A j \in DOMAIN waits : j > i => waits[j].text \notin T
        BY <2>2, <3>1
      <4> QED
        BY <2>4, <3>1, <4>1, <4>2 DEF LastWord
    <3>2. ASSUME \A i \in DOMAIN waits' : waits'[i].text \notin T
          PROVE  IF sending' \in T THEN sending' \in R ELSE known
      <4>1. \A i \in DOMAIN waits : waits[i].text \notin T
        BY <2>2, <3>2
      <4> QED
        BY <2>1, <2>4, <4>1 DEF LastWord
    <3> QED
      BY <3>1, <3>2 DEF LastWord
  <2> QED
    BY <2>3, <2>4
<1> QED
  BY <1>2, <1>3

(* What was sent is known, and the rest is still to come.                  *)
LEMMA WordIsRead ==
  ASSUME TypeInv, PortInv, Post,
         NEW T, NEW R \in SUBSET T, NEW known \in BOOLEAN, NEW known2 \in BOOLEAN,
         Silence \notin T, LastWord(T, R, known, sending, waits),
         (IF sending \in T THEN sending \in R ELSE known) => known2
  PROVE  LastWord(T, R, known2, sending', waits')
<1>1. CASE waits = <<>>
  <2>1. sending' = Silence /\ waits' = <<>>
    BY <1>1 DEF Post
  <2> QED
    BY <1>1, <2>1 DEF LastWord
<1>2. CASE waits # <<>>
  <2>1. sending' = Head(waits).text /\ waits' = Tail(waits)
    BY <1>2 DEF Post
  <2>2. /\ DOMAIN waits' = 1..(Len(waits) - 1) /\ DOMAIN waits = 1..Len(waits)
        /\ Len(waits) \in Nat \ {0} /\ Head(waits) = waits[1]
        /\ \A i \in 1..(Len(waits) - 1) : waits'[i] = waits[i + 1]
    BY <1>2, <2>1, Shortened DEF TypeInv
  <2>3. \A j \in DOMAIN waits \ {1} :
          j > 1 /\ j - 1 \in DOMAIN waits' /\ waits'[j - 1] = waits[j]
    BY <2>2
  <2>4. ASSUME NEW i \in DOMAIN waits', waits'[i].text \in T,
               \A j \in DOMAIN waits' : j > i => waits'[j].text \notin T
        PROVE  waits'[i].text \in R
    <3>1. i + 1 \in DOMAIN waits /\ waits'[i] = waits[i + 1]
      BY <2>2
    <3>2. \A j \in DOMAIN waits : j > i + 1 => waits[j].text \notin T
      <4> TAKE j \in DOMAIN waits
      <4>1. j > i + 1 => j # 1 /\ j - 1 > i
        BY <2>2
      <4> QED
        BY <2>3, <2>4, <4>1
    <3> QED
      BY <2>4, <3>1, <3>2 DEF LastWord
  <2>5. ASSUME \A i \in DOMAIN waits' : waits'[i].text \notin T
        PROVE  IF sending' \in T THEN sending' \in R ELSE known2
    <3>1. \A j \in DOMAIN waits \ {1} : waits[j].text \notin T
      BY <2>3, <2>5
    <3>2. 1 \in DOMAIN waits /\ sending' = waits[1].text
      BY <2>1, <2>2
    <3>3. CASE sending' \in T
      <4>1. \A j \in DOMAIN waits : j > 1 => waits[j].text \notin T
        BY <3>1
      <4> QED
        BY <3>2, <3>3, <4>1 DEF LastWord
    <3>4. CASE sending' \notin T
      BY <3>1, <3>2, <3>4 DEF LastWord
    <3> QED
      BY <3>3, <3>4
  <2> QED
    BY <2>4, <2>5 DEF LastWord
<1> QED
  BY <1>1, <1>2

(* A text that is not about T may be given up.                             *)
LEMMA WordIsKept ==
  ASSUME TypeInv, NEW k \in DOMAIN waits, waits' = RemoveAt(waits, k), sending' = sending,
         NEW T, NEW R \in SUBSET T, NEW known \in BOOLEAN,
         waits[k].text \notin T, LastWord(T, R, known, sending, waits)
  PROVE  LastWord(T, R, known, sending', waits')
<1>1. /\ DOMAIN waits' = 1..(Len(waits) - 1) /\ DOMAIN waits = 1..Len(waits)
      /\ Len(waits) \in Nat
      /\ \A j \in 1..(Len(waits) - 1) :
           waits'[j] = IF j < k THEN waits[j] ELSE waits[j + 1]
  BY Without DEF TypeInv
<1> DEFINE old(j) == IF j < k THEN j ELSE j + 1
           new(i) == IF i < k THEN i ELSE i - 1
<1>2. \A j \in DOMAIN waits' : old(j) \in DOMAIN waits /\ waits'[j] = waits[old(j)]
  BY <1>1
<1>3. \A i \in DOMAIN waits \ {k} :
        /\ new(i) \in DOMAIN waits' /\ waits'[new(i)] = waits[i]
        /\ \A j \in DOMAIN waits' : i > old(j) => new(i) > j
  BY <1>1
<1> HIDE DEF old, new
<1>4. ASSUME NEW j \in DOMAIN waits', waits'[j].text \in T,
             \A i \in DOMAIN waits' : i > j => waits'[i].text \notin T
      PROVE  waits'[j].text \in R
  <2>1. \A i \in DOMAIN waits : i > old(j) => waits[i].text \notin T
    BY <1>3, <1>4
  <2> QED
    BY <1>2, <1>4, <2>1 DEF LastWord
<1>5. ASSUME \A j \in DOMAIN waits' : waits'[j].text \notin T
      PROVE  IF sending' \in T THEN sending' \in R ELSE known
  <2>1. \A i \in DOMAIN waits : waits[i].text \notin T
    BY <1>3, <1>5
  <2> QED
    BY <2>1 DEF LastWord
<1> QED
  BY <1>4, <1>5 DEF LastWord

----------------------------------------------------------------------------

(* The queue of the application task.                                      *)

(* A state is no event.                                                    *)
LEMMA StatesAreNoEvents == States \cap Events = {}
  BY DEF States, Events

(* The message taken is the first of the queue, and what it leaves.        *)
LEMMA TakeQueue ==
  ASSUME TypeInv, NEW event, AppTakes(event)
  PROVE  /\ 1 \in DOMAIN appMsgQueue /\ appMsgQueue[1] = event
         /\ \A i \in DOMAIN appMsgQueue' :
              i + 1 \in DOMAIN appMsgQueue /\ appMsgQueue'[i] = appMsgQueue[i + 1]
         /\ \A i \in DOMAIN appMsgQueue \ {1} :
              i - 1 \in DOMAIN appMsgQueue' /\ appMsgQueue'[i - 1] = appMsgQueue[i]
<1>1. /\ appMsgQueue \in Seq(Messages) /\ appMsgQueue # <<>>
      /\ Head(appMsgQueue) = event /\ appMsgQueue' = Tail(appMsgQueue)
  BY DEF TypeInv, AppTakes
<1>2. /\ DOMAIN appMsgQueue' = 1..(Len(appMsgQueue) - 1)
      /\ DOMAIN appMsgQueue = 1..Len(appMsgQueue)
      /\ Len(appMsgQueue) \in Nat \ {0} /\ Head(appMsgQueue) = appMsgQueue[1]
      /\ \A i \in 1..(Len(appMsgQueue) - 1) : appMsgQueue'[i] = appMsgQueue[i + 1]
  BY <1>1, Shortened
<1> QED
  BY <1>1, <1>2

(* The last state in the queue is the last of the rest; if that has none,  *)
(* it is the one taken.                                                    *)
LEMMA TakeState ==
  ASSUME TypeInv, NEW event, AppTakes(event), NEW g, LastState(appMsgQueue, g)
  PROVE  /\ LastState(appMsgQueue', g)
         /\ NoState(appMsgQueue') /\ event \in States => event = g
         /\ NoState(appMsgQueue') /\ event \notin States => NoState(appMsgQueue)
<1>1. /\ 1 \in DOMAIN appMsgQueue /\ appMsgQueue[1] = event
      /\ \A i \in DOMAIN appMsgQueue' :
           i + 1 \in DOMAIN appMsgQueue /\ appMsgQueue'[i] = appMsgQueue[i + 1]
      /\ \A i \in DOMAIN appMsgQueue \ {1} :
           i - 1 \in DOMAIN appMsgQueue' /\ appMsgQueue'[i - 1] = appMsgQueue[i]
  BY TakeQueue
<1>2. DOMAIN appMsgQueue \subseteq Nat \ {0} /\ DOMAIN appMsgQueue' \subseteq Nat \ {0}
  BY TakeTypes DEF TypeInv
<1>3. ASSUME NEW i \in DOMAIN appMsgQueue', appMsgQueue'[i] \in States,
             \A j \in DOMAIN appMsgQueue' : j > i => appMsgQueue'[j] \notin States
      PROVE  appMsgQueue'[i] = g
  <2>1. \A j \in DOMAIN appMsgQueue : j > i + 1 => appMsgQueue[j] \notin States
    <3> TAKE j \in DOMAIN appMsgQueue
    <3>1. j > i + 1 => j # 1 /\ j - 1 > i
      BY <1>2
    <3> QED
      BY <1>1, <1>3, <3>1
  <2> QED
    BY <1>1, <1>3, <2>1 DEF LastState
<1>4. ASSUME NoState(appMsgQueue')
      PROVE  \A j \in DOMAIN appMsgQueue \ {1} : appMsgQueue[j] \notin States
  BY <1>1, <1>4 DEF NoState
<1>5. ASSUME NoState(appMsgQueue'), event \in States
      PROVE  event = g
  <2>1. \A j \in DOMAIN appMsgQueue : j > 1 => appMsgQueue[j] \notin States
    BY <1>4, <1>5
  <2> QED
    BY <1>1, <1>5, <2>1 DEF LastState
<1>6. ASSUME NoState(appMsgQueue'), event \notin States
      PROVE  NoState(appMsgQueue)
  BY <1>1, <1>4, <1>6 DEF NoState
<1> QED
  BY <1>3, <1>5, <1>6 DEF LastState

(* A new message of the role is the last; any other leaves the last be.    *)
LEMMA PutState ==
  ASSUME TypeInv, NEW event \in Messages, appMsgQueue' = Append(appMsgQueue, event)
  PROVE  /\ event \in States => LastState(appMsgQueue', event) /\ ~NoState(appMsgQueue')
         /\ event \notin States =>
              /\ NoState(appMsgQueue') <=> NoState(appMsgQueue)
              /\ \A g : LastState(appMsgQueue, g) => LastState(appMsgQueue', g)
<1> DEFINE n == Len(appMsgQueue)
<1>1. /\ DOMAIN appMsgQueue' = 1..(n + 1) /\ DOMAIN appMsgQueue = 1..n
      /\ n \in Nat /\ appMsgQueue'[n + 1] = event
      /\ \A i \in DOMAIN appMsgQueue : appMsgQueue'[i] = appMsgQueue[i]
  BY Extended DEF TypeInv
<1> HIDE DEF n
<1>2. n + 1 \in DOMAIN appMsgQueue' /\ \A i \in DOMAIN appMsgQueue' : i # n + 1 => n + 1 > i
  BY <1>1
<1>3. ASSUME event \in States
      PROVE  LastState(appMsgQueue', event) /\ ~NoState(appMsgQueue')
  BY <1>1, <1>2, <1>3 DEF LastState, NoState
<1>4. \A i \in DOMAIN appMsgQueue' : i \in DOMAIN appMsgQueue \/ i = n + 1
  BY <1>1
<1>5. DOMAIN appMsgQueue \subseteq DOMAIN appMsgQueue'
  BY <1>1
<1>6. ASSUME event \notin States
      PROVE  NoState(appMsgQueue') <=> NoState(appMsgQueue)
  BY <1>1, <1>4, <1>5, <1>6 DEF NoState
<1>7. ASSUME event \notin States, NEW g, LastState(appMsgQueue, g)
      PROVE  LastState(appMsgQueue', g)
  <2> SUFFICES ASSUME NEW i \in DOMAIN appMsgQueue', appMsgQueue'[i] \in States,
                      \A j \in DOMAIN appMsgQueue' : j > i => appMsgQueue'[j] \notin States
               PROVE  appMsgQueue'[i] = g
    BY DEF LastState
  <2>1. i \in DOMAIN appMsgQueue /\ appMsgQueue'[i] = appMsgQueue[i]
    BY <1>1, <1>4, <1>7
  <2>2. \A j \in DOMAIN appMsgQueue : j > i => appMsgQueue[j] \notin States
    BY <1>1, <1>5
  <2> QED
    BY <1>7, <2>1, <2>2 DEF LastState
<1> QED
  BY <1>3, <1>6, <1>7

(* A report that waits in the queue goes on waiting there, unless it is    *)
(* taken.                                                                  *)
LEMMA QueuedStays ==
  ASSUME TypeInv, NEW p, Queued(appMsgQueue, p)
  PROVE  /\ \A e \in Messages : appMsgQueue' = Append(appMsgQueue, e) => Queued(appMsgQueue', p)
         /\ \A e \in Messages : AppTakes(e) /\ (e \in Events => p \notin ReportsOf(e))
              => Queued(appMsgQueue', p)
<1>1. PICK i \in DOMAIN appMsgQueue : appMsgQueue[i] \in Events /\ p \in ReportsOf(appMsgQueue[i])
  BY DEF Queued
<1>2. ASSUME NEW e \in Messages, appMsgQueue' = Append(appMsgQueue, e)
      PROVE  Queued(appMsgQueue', p)
  <2>1. /\ DOMAIN appMsgQueue' = 1..(Len(appMsgQueue) + 1)
        /\ DOMAIN appMsgQueue = 1..Len(appMsgQueue) /\ Len(appMsgQueue) \in Nat
        /\ \A j \in DOMAIN appMsgQueue : appMsgQueue'[j] = appMsgQueue[j]
    BY <1>2, Extended DEF TypeInv
  <2>2. i \in DOMAIN appMsgQueue' /\ appMsgQueue'[i] = appMsgQueue[i]
    BY <2>1
  <2> QED
    BY <1>1, <2>2 DEF Queued
<1>3. ASSUME NEW e \in Messages, AppTakes(e), e \in Events => p \notin ReportsOf(e)
      PROVE  Queued(appMsgQueue', p)
  <2>1. appMsgQueue[1] = e
    BY <1>3, TakeQueue
  <2>2. i # 1
    BY <1>1, <1>3, <2>1
  <2>3. i - 1 \in DOMAIN appMsgQueue' /\ appMsgQueue'[i - 1] = appMsgQueue[i]
    BY <1>3, <2>2, TakeQueue
  <2> QED
    BY <1>1, <2>3 DEF Queued
<1> QED
  BY <1>2, <1>3

----------------------------------------------------------------------------
(* The last word on the connection.                                        *)

(* The states that are reported.                                           *)
Reported == {"ADVERTISING", "CONNECTED", "WAITING"}

ConnWord(code) == LastWord(ConnNews, ConnIs(code), conn = code, sending, waits)

(* Nothing is no news of the connection.                                   *)
LEMMA ConnFacts ==
  /\ Silence \notin ConnNews /\ \A code : ConnIs(code) \in SUBSET ConnNews
  /\ \A t \in Texts : t \in ConnNews <=> t.kind = "conn"
  BY SilenceIsText DEF ConnNews, ConnIs

(* A text about something else leaves the last word be.                    *)
LEMMA ConnWordStays ==
  ASSUME TypeInv, PortInv, ConnInv, NEW by, NEW text \in Texts, NEW log, text.kind # "conn",
         Comes(by, text, log), Pends(by, text, log),
         UNCHANGED <<gap, appMsgQueue, conn, connMissed>>
  PROVE  ConnInv'
<1> DEFINE code == ConnCode(gap)
<1> SUFFICES ASSUME ~connMissed PROVE
      /\ LastState(appMsgQueue, gap)
      /\ NoState(appMsgQueue) /\ gap \in Reported => ConnWord(code)'
  BY DEF ConnInv, ConnWord, Reported
<1>1. LastState(appMsgQueue, gap)
  BY DEF ConnInv
<1>2. ASSUME NoState(appMsgQueue), gap \in Reported
      PROVE  LastWord(ConnNews, ConnIs(code), conn = code, sending', waits')
  <2>1. LastWord(ConnNews, ConnIs(code), conn = code, sending, waits)
    BY <1>2 DEF ConnInv, Reported
  <2>2. text \notin ConnNews /\ Silence \notin ConnNews
        /\ ConnIs(code) \in SUBSET ConnNews /\ (conn = code) \in BOOLEAN
    BY ConnFacts
  <2> HIDE DEF code
  <2> QED
    BY <2>1, <2>2, WordPends
<1> QED
  BY <1>1, <1>2 DEF ConnWord

(* The role's state and its message change together, or the message is lost. *)
LEMMA ConnNewsComes ==
  ASSUME TypeInv, ConnInv, NEW event \in Messages, NEW changed,
         SimpleBLEPeripheral_enqueueMsg(event, changed),
         event \in States => gap' = event, event \notin States => gap' = gap,
         UNCHANGED <<conn, sending, waits>>
  PROVE  ConnInv'
<1>1. CASE /\ appMsgQueue' = Append(appMsgQueue, event)
           /\ connMissed' = (connMissed /\ event \notin States)
  <2>1. CASE event \in States
    BY <1>1, <2>1, PutState DEF ConnInv
  <2>2. CASE event \notin States
    BY <1>1, <2>2, PutState DEF ConnInv
  <2> QED
    BY <2>1, <2>2
<1>2. CASE appMsgQueue' = appMsgQueue /\ connMissed' = (connMissed \/ event \in States)
  BY <1>2 DEF ConnInv
<1> QED
  BY <1>1, <1>2 DEF SimpleBLEPeripheral_enqueueMsg

(* A message that tells nothing of the connection is taken.                *)
LEMMA ConnNewsWaits ==
  ASSUME TypeInv, ConnInv, NEW event \in Messages \ Reported, AppTakes(event),
         UNCHANGED <<sending, waits, connMissed>>
  PROVE  ConnInv'
<1> SUFFICES ASSUME ~connMissed PROVE
      /\ LastState(appMsgQueue', gap)
      /\ NoState(appMsgQueue') /\ gap \in Reported => ConnWord(ConnCode(gap))
  BY TakeTypes DEF ConnInv, ConnWord, Reported
<1>1. /\ LastState(appMsgQueue', gap)
      /\ NoState(appMsgQueue') /\ event \in States => event = gap
      /\ NoState(appMsgQueue') /\ event \notin States => NoState(appMsgQueue)
  BY TakeState DEF ConnInv
<1> QED
  BY <1>1 DEF ConnInv, ConnWord, Reported

(* Every step keeps the last word on the connection.                       *)
LEMMA ConnStep ==
  ASSUME TypeInv, PortInv, ConnInv, [Next]_vars
  PROVE  ConnInv'
<1>0. /\ sending \in Texts /\ \A i \in DOMAIN waits : waits[i].text \in Texts
  <2>1. \A i \in DOMAIN waits : waits[i] \in Waits
    BY DEF TypeInv
  <2> QED
    BY <2>1 DEF TypeInv, Waits
<1> DEFINE code == ConnCode(gap)
<1>1. CASE UNCHANGED <<gap, appMsgQueue, conn, sending, waits, connMissed>>
  BY <1>1 DEF ConnInv
<1>2. CASE uart_writeCallBack \/ RxResumes
  <2>1. /\ Post /\ UNCHANGED <<gap, appMsgQueue, connMissed>>
        /\ conn' = IF sending.kind = "conn" THEN sending.v ELSE conn
    <3>1. RxResumes => sending = Silence
      BY DEF RxResumes, PortInv
    <3> QED
      BY <1>2, <3>1, SilenceIsText DEF uart_writeCallBack, RxResumes, host, history
  <2> SUFFICES ASSUME ~connMissed PROVE
        /\ LastState(appMsgQueue, gap)
        /\ NoState(appMsgQueue) /\ gap \in Reported
             => LastWord(ConnNews, ConnIs(code), conn' = code, sending', waits')
    BY <2>1 DEF ConnInv, Reported
  <2>2. ASSUME NoState(appMsgQueue), gap \in Reported
        PROVE  LastWord(ConnNews, ConnIs(code), conn' = code, sending', waits')
    <3>1. LastWord(ConnNews, ConnIs(code), conn = code, sending, waits)
      BY <2>2 DEF ConnInv, Reported
    <3>2. /\ Silence \notin ConnNews /\ ConnIs(code) \in SUBSET ConnNews
          /\ (conn = code) \in BOOLEAN /\ (conn' = code) \in BOOLEAN
      BY ConnFacts
    <3>3. (IF sending \in ConnNews THEN sending \in ConnIs(code) ELSE conn = code)
             => conn' = code
      BY <1>0, <2>1, ConnFacts DEF ConnIs
    <3> HIDE DEF code
    <3> QED
      BY <2>1, <3>1, <3>2, <3>3, WordIsRead
  <2> QED
    BY <2>2 DEF ConnInv
<1>3. CASE RxSuspends
  <2>1. /\ Comes("rx", Silence, FALSE) /\ Pends("rx", Silence, FALSE)
        /\ UNCHANGED <<gap, appMsgQueue, conn, connMissed>>
    BY <1>3, SilenceIsText DEF RxSuspends, Comes, Waits, host, history
  <2> QED
    BY <2>1, SilenceIsText, ConnWordStays
<1>4. CASE Log_printf_GivesUp
  <2>1. PICK k \in DOMAIN waits :
          /\ waits' = RemoveAt(waits, k)
          /\ connMissed' = (connMissed \/ waits[k].text.kind = "conn")
    BY <1>4 DEF Log_printf_GivesUp
  <2>2. UNCHANGED <<gap, appMsgQueue, conn, sending>>
    BY <1>4 DEF Log_printf_GivesUp, host
  <2> SUFFICES ASSUME ~connMissed, waits[k].text.kind # "conn" PROVE
        /\ LastState(appMsgQueue, gap)
        /\ NoState(appMsgQueue) /\ gap \in Reported
             => LastWord(ConnNews, ConnIs(code), conn = code, sending', waits')
    BY <2>1, <2>2 DEF ConnInv, Reported
  <2>3. ASSUME NoState(appMsgQueue), gap \in Reported
        PROVE  LastWord(ConnNews, ConnIs(code), conn = code, sending', waits')
    <3>1. LastWord(ConnNews, ConnIs(code), conn = code, sending, waits)
      BY <2>3 DEF ConnInv, Reported
    <3>2. /\ ConnIs(code) \in SUBSET ConnNews /\ (conn = code) \in BOOLEAN
          /\ waits[k].text \notin ConnNews
      BY <1>0, ConnFacts
    <3> HIDE DEF code
    <3> QED
      BY <2>1, <2>2, <3>1, <3>2, WordIsKept
  <2> QED
    BY <2>3 DEF ConnInv
<1>5. ASSUME NEW state \in States, RoleBecomes(state)
      PROVE  ConnInv'
  <2>1. /\ gap' = state /\ SimpleBLEPeripheral_enqueueMsg(state, {})
        /\ UNCHANGED <<conn, sending, waits>> /\ state \in Messages
    BY <1>5 DEF RoleBecomes, port, host, Messages
  <2> QED
    BY <2>1, ConnNewsComes
<1>6. CASE RoleStarts \/ RoleAdvertises \/ RoleChanges
  BY <1>5, <1>6 DEF RoleStarts, RoleAdvertises, RoleChanges, States
<1>7. CASE BleWrites
  <2>1. PICK event \in Events : SimpleBLEPeripheral_enqueueMsg(event, ReportsOf(event))
    BY <1>7, BleTypes
  <2>2. event \in Messages /\ event \notin States
    BY StatesAreNoEvents DEF Messages
  <2>3. UNCHANGED <<gap, conn, sending, waits>>
    BY <1>7, BleTypes
  <2> QED
    BY <2>1, <2>2, <2>3, ConnNewsComes
<1>8. CASE \/ AppStarts \/ AppSeesTimeout
           \/ \E event \in {"DOORLOCK_PIN", "DOORLOCK_PARA"} :
                SimpleBLEPeripheral_processCharValueChangeEvt(event)
  <2>1. PICK event \in Messages \ Reported : AppTakes(event)
    <3>1. {"STARTED", "WAITING_AFTER_TIMEOUT", "DOORLOCK_PIN", "DOORLOCK_PARA"}
             \subseteq Messages \ Reported
      BY DEF Messages, States, Events, Reported
    <3> QED
      BY <1>8, <3>1 DEF AppStarts, AppSeesTimeout,
                        SimpleBLEPeripheral_processCharValueChangeEvt
  <2>2. UNCHANGED <<sending, waits, connMissed>>
    BY <1>8 DEF AppStarts, AppSeesTimeout, SimpleBLEPeripheral_processCharValueChangeEvt,
                port, history
  <2> QED
    BY <2>1, <2>2, ConnNewsWaits
<1>9. CASE AppReportsState
  <2>0. PICK state \in Reported :
          \E text \in ConnIs(ConnCode(state)) :
            /\ AppTakes(state) /\ Comes("app", text, TRUE) /\ Pends("app", text, TRUE)
            /\ UNCHANGED history
    BY <1>9, StateIsReported DEF Reported
  <2>1. PICK text \in ConnIs(ConnCode(state)) :
          /\ AppTakes(state) /\ Comes("app", text, TRUE) /\ Pends("app", text, TRUE)
          /\ UNCHANGED history
    BY <2>0
  <2>2. UNCHANGED <<gap, conn, connMissed>>
    BY <2>1, TakeTypes DEF history
  <2> SUFFICES ASSUME ~connMissed PROVE
        /\ LastState(appMsgQueue', gap)
        /\ NoState(appMsgQueue') /\ gap \in Reported
             => LastWord(ConnNews, ConnIs(code), conn = code, sending', waits')
    BY <2>2 DEF ConnInv, Reported
  <2>3. /\ LastState(appMsgQueue', gap)
        /\ NoState(appMsgQueue') /\ state \in States => state = gap
    BY <2>1, TakeState DEF ConnInv
  <2>4. state \in States
    BY DEF Reported, States
  <2>5. ASSUME NoState(appMsgQueue'), gap \in Reported
        PROVE  LastWord(ConnNews, ConnIs(code), conn = code, sending', waits')
    <3>1. text \in ConnIs(code)
      BY <2>3, <2>4, <2>5
    <3>2. /\ Silence \notin ConnNews /\ ConnIs(code) \in SUBSET ConnNews
          /\ (conn = code) \in BOOLEAN
      BY ConnFacts
    <3> HIDE DEF code
    <3> QED
      BY <2>1, <3>1, <3>2, WordPends
  <2> QED
    BY <2>3, <2>5
<1>10. CASE Cmd_onValueChanged
  <2>0. PICK p \in reports :
          \E text \in NewsIs(p, CustNV_get(p)) :
            /\ text.kind = "value" /\ Comes("app", text, TRUE) /\ Pends("app", text, TRUE)
            /\ UNCHANGED <<gap, appMsgQueue, host, connMissed>>
    BY <1>10, ValueIsReported
  <2>1. PICK text \in NewsIs(p, CustNV_get(p)) :
          /\ text.kind = "value" /\ Comes("app", text, TRUE) /\ Pends("app", text, TRUE)
          /\ UNCHANGED <<gap, appMsgQueue, host, connMissed>>
    BY <2>0
  <2>2. text \in Texts /\ UNCHANGED conn
    BY <2>1 DEF NewsIs, NewsOf, host
  <2> QED
    BY <2>1, <2>2, ConnWordStays
<1>11. CASE CmdTask
  <2>1. UNCHANGED <<gap, appMsgQueue, conn, connMissed>>
    BY <1>11, CmdReplies DEF host
  <2>2. PICK text \in Texts, log \in BOOLEAN :
          text.kind # "conn" /\ Comes("cmd", text, log) /\ Pends("cmd", text, log)
    BY <1>11, CmdReplies
  <2> QED
    BY <2>1, <2>2, ConnWordStays
<1>12. CASE HostSends \/ UNCHANGED vars
  BY <1>1, <1>12 DEF HostSends, vars, host, port, history
<1> QED
  BY <1>2, <1>3, <1>4, <1>6, <1>7, <1>8, <1>9, <1>10, <1>11, <1>12 DEF Next, App

----------------------------------------------------------------------------
(* The last word on each parameter.                                        *)

(* A number in the format is read back as it was set.                      *)
LEMMA FormatIsKept ==
  ASSUME NEW p \in AllParam, NEW raw \in Format(p)
  PROVE  Shown(p, Stored(p, raw)) = raw
<1>1. CASE p = "pin"
  BY <1>1 DEF Shown, Stored
<1>2. CASE p = "timeZone"
  <2>1. raw \in -12..12
    BY <1>2 DEF Format
  <2>2. Int8(raw) = raw
    BY <2>1 DEF Int8
  <2>3. CASE raw < 0
    <3>1. Stored(p, raw) = 240 + (-raw)
      BY <1>2, <2>2, <2>3 DEF Stored
    <3>2. (240 + (-raw)) \div 16 = 15 /\ (240 + (-raw)) % 16 = -raw
      BY <2>1, <2>3
    <3> QED
      BY <1>2, <2>1, <3>1, <3>2 DEF Shown
  <2>4. CASE raw >= 0
    <3>1. Stored(p, raw) = raw
      BY <1>2, <2>1, <2>2, <2>4 DEF Stored
    <3>2. raw \div 16 = 0
      BY <2>1, <2>4
    <3> QED
      BY <1>2, <3>1, <3>2 DEF Shown
  <2> QED
    BY <2>1, <2>3, <2>4
<1>3. CASE p \notin {"pin", "timeZone"}
  <2>1. raw \in 0..127
    BY <1>3 DEF Format, AllParam
  <2>2. Stored(p, raw) = raw
    BY <1>3, <2>1 DEF Stored
  <2> QED
    BY <1>3, <2>2 DEF Shown
<1> QED
  BY <1>1, <1>2, <1>3

ParaWord(p) ==
  LastWord(NewsOf(p), NewsIs(p, CustNV_get(p)), told[p] = CustNV_get(p), sending, waits)

(* Which texts are news of a parameter.                                    *)
LEMMA ParaFacts ==
  ASSUME NEW p
  PROVE  /\ Silence \notin NewsOf(p) /\ \A v : NewsIs(p, v) \in SUBSET NewsOf(p)
         /\ \A t \in Texts : t.kind \notin {"value", "set", "restored"} => t \notin NewsOf(p)
         /\ \A t \in Texts : t.kind \in {"value", "set"} /\ t.p # p => t \notin NewsOf(p)
  BY SilenceIsText DEF NewsOf, NewsIs

(* A text comes; it tells the value of a parameter that changes, and what  *)
(* was on its way stays so for the others.                                 *)
LEMMA ParaTold ==
  ASSUME TypeInv, PortInv, ParaInv, NEW by, NEW text, NEW log,
         Comes(by, text, log), Pends(by, text, log), UNCHANGED told,
         \A p \in Param \ missed' :
           \/ text \in NewsIs(p, CustNV_get(p)')
           \/ /\ p \notin missed /\ text \notin NewsOf(p) /\ custParas'[p] = custParas[p]
              /\ p \in reports => p \in reports'
              /\ Queued(appMsgQueue, p) => Queued(appMsgQueue', p)
  PROVE  ParaInv'
<1> SUFFICES ASSUME NEW p \in Param \ missed'
             PROVE  p \in reports' \/ Queued(appMsgQueue', p) \/ ParaWord(p)'
  BY DEF ParaInv, ParaWord
<1> DEFINE T == NewsOf(p)
           R == NewsIs(p, CustNV_get(p)')
           known == told[p] = CustNV_get(p)'
<1>1. Silence \notin T /\ R \in SUBSET T /\ known \in BOOLEAN
  BY ParaFacts
<1>2. CASE text \in R
  <2>1. LastWord(T, R, known, sending', waits')
    <3> HIDE DEF T, R, known
    <3> QED
      BY <1>1, <1>2, WordPends
  <2> QED
    BY <2>1 DEF ParaWord
<1>3. CASE /\ p \notin missed /\ text \notin T /\ custParas'[p] = custParas[p]
           /\ p \in reports => p \in reports'
           /\ Queued(appMsgQueue, p) => Queued(appMsgQueue', p)
  <2>1. CustNV_get(p)' = CustNV_get(p)
    BY <1>3 DEF CustNV_get
  <2>2. CASE ParaWord(p)
    <3>1. LastWord(T, R, known, sending, waits)
      BY <2>1, <2>2 DEF ParaWord
    <3>2. LastWord(T, R, known, sending', waits')
      <4>1. text \notin T
        BY <1>3
      <4> HIDE DEF T, R, known
      <4> QED
        BY <1>1, <4>1, <3>1, WordPends
    <3> QED
      BY <3>2 DEF ParaWord
  <2>3. p \in reports \/ Queued(appMsgQueue, p) \/ ParaWord(p)
    BY <1>3 DEF ParaInv, ParaWord
  <2> QED
    BY <1>3, <2>2, <2>3
<1> QED
  BY <1>2, <1>3

(* Nothing comes; a parameter that changes is to be reported, or its news  *)
(* is missed.                                                              *)
LEMMA ParaKept ==
  ASSUME TypeInv, ParaInv, UNCHANGED <<sending, waits, told>>,
         \A p \in Param \ missed' :
           \/ p \in reports' \/ Queued(appMsgQueue', p)
           \/ /\ p \notin missed /\ custParas'[p] = custParas[p]
              /\ p \in reports => p \in reports'
              /\ Queued(appMsgQueue, p) => Queued(appMsgQueue', p)
  PROVE  ParaInv'
<1> SUFFICES ASSUME NEW p \in Param \ missed'
             PROVE  p \in reports' \/ Queued(appMsgQueue', p) \/ ParaWord(p)'
  BY DEF ParaInv, ParaWord
<1>1. CASE /\ p \notin missed /\ custParas'[p] = custParas[p]
           /\ p \in reports => p \in reports'
           /\ Queued(appMsgQueue, p) => Queued(appMsgQueue', p)
  <2>1. CustNV_get(p)' = CustNV_get(p)
    BY <1>1 DEF CustNV_get
  <2>2. p \in reports \/ Queued(appMsgQueue, p) \/ ParaWord(p)
    BY <1>1 DEF ParaInv, ParaWord
  <2>3. ParaWord(p) => ParaWord(p)'
    BY <2>1 DEF ParaWord
  <2> QED
    BY <1>1, <2>2, <2>3
<1> QED
  BY <1>1

(* The host knows what the text it reads says of a parameter.              *)
LEMMA HostReads ==
  ASSUME TypeInv, uart_writeCallBack, NEW p \in Param
  PROVE  told'[p] = IF sending \in NewsOf(p) THEN Says(sending, p) ELSE told[p]
<1>1. sending \in Texts /\ told \in [Param -> Int]
  BY DEF TypeInv, TypeOK
<1>2. told' = CASE sending.kind = "restored" -> [q \in Param |-> Shown(q, Default(q))]
                [] sending.kind \in {"value", "set"} -> [told EXCEPT ![sending.p] = sending.v]
                [] OTHER -> told
  BY DEF uart_writeCallBack
<1>3. CASE sending.kind = "restored"
  <2>1. told' = [q \in Param |-> Shown(q, Default(q))]
    BY <1>2, <1>3
  <2> QED
    BY <1>1, <1>3, <2>1 DEF NewsOf, Says
<1>4. CASE sending.kind \in {"value", "set"}
  <2>1. told' = [told EXCEPT ![sending.p] = sending.v]
    BY <1>2, <1>4
  <2> QED
    BY <1>1, <1>4, <2>1 DEF NewsOf, Says
<1>5. CASE sending.kind \notin {"value", "set", "restored"}
  <2>1. told' = told
    BY <1>2, <1>5
  <2> QED
    BY <1>5, <2>1 DEF NewsOf
<1> QED
  BY <1>3, <1>4, <1>5

(* The command task's answers say what the parameters are.                 *)
LEMMA CmdTells ==
  ASSUME TypeInv, PortInv, ParaInv, CmdTask
  PROVE  ParaInv'
<1> DEFINE plan == PlanFor(Head(lines).line)
<1> PICK q, raw : q = plan.p /\ raw = plan.raw
  OBVIOUS
<1>0. /\ custParas \in [Param -> Pin] /\ "none" \in Param \cup {"none"} /\ 0 \in Int
      /\ UNCHANGED <<appMsgQueue, reports, told>>
  BY CmdReplies DEF TypeInv, TypeOK, host
<1>1. ASSUME NEW do, Handles(do), NEW log \in BOOLEAN, Reply("text", "none", 0, log),
             \A p \in Param \ missed' : p \notin missed /\ custParas'[p] = custParas[p]
      PROVE  ParaInv'
  <2> DEFINE text == Text("text", "none", 0, Head(lines).n)
  <2>1. Comes("cmd", text, log) /\ text \in Texts /\ text.kind = "text"
    BY <1>0, <1>1, CmdComes
  <2>2. Pends("cmd", text, log)
    BY <1>1 DEF Reply
  <2> HIDE DEF text
  <2>3. \A p : text \notin NewsOf(p)
    BY <2>1, ParaFacts
  <2> QED
    BY <1>0, <1>1, <2>1, <2>2, <2>3, ParaTold
<1>2. CASE CmdSays
  <2>1. IsLogged(plan) \in BOOLEAN
    BY DEF IsLogged
  <2>2. Handles({"say", "format"}) /\ Reply("text", "none", 0, IsLogged(plan))
        /\ UNCHANGED <<custParas, missed>>
    BY <1>2 DEF CmdSays, history
  <2> QED
    BY <1>1, <2>1, <2>2
<1>3. CASE CmdGets
  <2>1. Handles({"get"}) /\ UNCHANGED custParas
    BY <1>3 DEF CmdGets
  <2>2. q \in Param /\ CustNV_get(q) \in Int
    BY <2>1, PlanInHand, Getter
  <2>3. CASE Reply("value", q, CustNV_get(q), TRUE) /\ missed' = missed \ {q}
    <3> DEFINE text == Text("value", q, CustNV_get(q), Head(lines).n)
    <3>1. /\ Comes("cmd", text, TRUE) /\ text \in Texts /\ text.kind = "value"
      BY <2>1, <2>2, CmdComes
    <3>2. text.p = q /\ text.v = CustNV_get(q)
      BY DEF Text
    <3>3. Pends("cmd", text, TRUE)
      BY <2>3 DEF Reply
    <3> HIDE DEF text
    <3>4. text \in NewsIs(q, CustNV_get(q)) /\ \A p : p # q => text \notin NewsOf(p)
      BY <3>1, <3>2, ParaFacts DEF NewsIs, NewsOf, Says
    <3>5. CustNV_get(q)' = CustNV_get(q)
      BY <2>1 DEF CustNV_get
    <3> QED
      BY <1>0, <2>1, <2>3, <3>1, <3>3, <3>4, <3>5, ParaTold
  <2>4. CASE Replies("text") /\ UNCHANGED missed
    BY <1>1, <2>1, <2>4 DEF Replies
  <2> QED
    BY <1>3, <2>3, <2>4 DEF CmdGets
<1>4. CASE CmdSets
  <2>1. Handles({"set"})
    BY <1>4 DEF CmdSets
  <2>2. /\ q \in Param /\ raw \in Int /\ (q = "pin" => raw \in Pin)
        /\ q \in AllParam
    BY <2>1, PlanInHand, ParamAssumption
  <2>3. CASE Replies("text") /\ UNCHANGED <<custParas, missed>>
    BY <1>1, <2>1, <2>3 DEF Replies
  <2>4. CASE /\ custParas' = [custParas EXCEPT ![q] = Stored(q, raw)]
             /\ Reply("set", q, raw, FALSE)
             /\ missed' = IF raw \in Format(q) THEN missed \ {q} ELSE missed \cup {q}
    <3> DEFINE text == Text("set", q, raw, Head(lines).n)
    <3>1. /\ Comes("cmd", text, FALSE) /\ text \in Texts /\ text.kind = "set"
      BY <2>1, <2>2, CmdComes
    <3>2. text.p = q /\ text.v = raw
      BY DEF Text
    <3>3. Pends("cmd", text, FALSE)
      BY <2>4 DEF Reply
    <3> HIDE DEF text
    <3>4. text \in NewsIs(q, raw) /\ \A p : p # q => text \notin NewsOf(p)
      BY <3>1, <3>2, ParaFacts DEF NewsIs, NewsOf, Says
    <3>5. raw \in Format(q) => CustNV_get(q)' = raw
      <4>1. CustNV_get(q)' = Shown(q, Stored(q, raw))
        BY <1>0, <2>2, <2>4 DEF CustNV_get
      <4> QED
        BY <2>2, <4>1, FormatIsKept
    <3>6. \A p \in Param \ {q} : custParas'[p] = custParas[p]
      BY <1>0, <2>4
    <3>7. q \notin missed' => raw \in Format(q)
      BY <2>4
    <3>8. \A p \in Param \ {q} : p \in missed => p \in missed'
      BY <2>4
    <3>9. \A p \in Param \ missed' :
            \/ text \in NewsIs(p, CustNV_get(p)')
            \/ p \notin missed /\ text \notin NewsOf(p) /\ custParas'[p] = custParas[p]
      BY <3>4, <3>5, <3>6, <3>7, <3>8
    <3> QED
      BY <1>0, <3>1, <3>3, <3>9, ParaTold
  <2>5. CASE /\ custParas' = [custParas EXCEPT ![q] = Stored(q, raw)]
             /\ Replies("text") /\ missed' = missed \cup {q}
    <3>1. \A p \in Param \ missed' : p \notin missed /\ custParas'[p] = custParas[p]
      BY <1>0, <2>5
    <3> QED
      BY <1>1, <2>1, <2>5, <3>1 DEF Replies
  <2> QED
    BY <1>4, <2>3, <2>4, <2>5 DEF CmdSets
<1>5. CASE CmdRestores
  <2>1. Handles({"restore"}) /\ custParas' = Defaults
    BY <1>5 DEF CmdRestores
  <2>2. CASE Replies("restored")
    <3> DEFINE text == Text("restored", "none", 0, Head(lines).n)
    <3>1. Comes("cmd", text, FALSE) /\ text \in Texts /\ text.kind = "restored"
      BY <1>0, <2>1, CmdComes
    <3>2. Pends("cmd", text, FALSE)
      BY <2>2 DEF Replies, Reply
    <3> HIDE DEF text
    <3>3. \A p \in Param : CustNV_get(p)' = Shown(p, Default(p))
      BY <2>1 DEF CustNV_get, Defaults
    <3>4. \A p \in Param : text \in NewsIs(p, CustNV_get(p)')
      BY <3>1, <3>3 DEF NewsIs, NewsOf, Says
    <3> QED
      BY <1>0, <3>1, <3>2, <3>4, ParaTold
  <2>3. CASE Replies("text") /\ missed' = Param
    BY <1>1, <2>1, <2>3 DEF Replies
  <2> QED
    BY <1>5, <2>2, <2>3 DEF CmdRestores
<1> QED
  BY <1>2, <1>3, <1>4, <1>5 DEF CmdTask

(* Every step keeps the last word on each parameter.                       *)
LEMMA ParaStep ==
  ASSUME TypeInv, PortInv, ParaInv, [Next]_vars
  PROVE  ParaInv'
<1>0. /\ sending \in Texts /\ \A i \in DOMAIN waits : waits[i].text \in Texts
      /\ custParas \in [Param -> Pin]
  <2>1. \A i \in DOMAIN waits : waits[i] \in Waits
    BY DEF TypeInv
  <2> QED
    BY <2>1 DEF TypeInv, TypeOK, Waits
<1>1. CASE UNCHANGED <<appMsgQueue, custParas, reports, told, sending, waits, missed>>
  BY <1>1, ParaKept
<1>2. CASE uart_writeCallBack \/ RxResumes
  <2>1. Post /\ UNCHANGED <<appMsgQueue, custParas, reports, missed>>
    BY <1>2 DEF uart_writeCallBack, RxResumes, history
  <2> SUFFICES ASSUME NEW p \in Param \ missed, ParaWord(p)
               PROVE  ParaWord(p)'
    <3>1. UNCHANGED <<reports, missed>> /\ \A p : Queued(appMsgQueue', p) = Queued(appMsgQueue, p)
      BY <2>1
    <3> QED
      BY <3>1 DEF ParaInv, ParaWord
  <2> DEFINE T == NewsOf(p)
             R == NewsIs(p, CustNV_get(p))
             known == told[p] = CustNV_get(p)
             known2 == told'[p] = CustNV_get(p)
  <2>2. /\ Silence \notin T /\ R \in SUBSET T /\ known \in BOOLEAN /\ known2 \in BOOLEAN
    BY ParaFacts
  <2>3. told'[p] = IF sending \in NewsOf(p) THEN Says(sending, p) ELSE told[p]
    <3>1. CASE uart_writeCallBack
      BY <3>1, HostReads
    <3>2. CASE RxResumes
      <4>1. sending = Silence /\ told' = told
        BY <3>2 DEF RxResumes, PortInv, host
      <4> QED
        BY <4>1, ParaFacts
    <3> QED
      BY <1>2, <3>1, <3>2
  <2>4. (IF sending \in T THEN sending \in R ELSE known) => known2
    BY <2>3 DEF NewsIs
  <2>5. LastWord(T, R, known, sending, waits)
    BY DEF ParaWord
  <2>6. LastWord(T, R, known2, sending', waits')
    <3> HIDE DEF T, R, known, known2
    <3> QED
      BY <2>1, <2>2, <2>4, <2>5, WordIsRead
  <2>7. CustNV_get(p)' = CustNV_get(p)
    BY <2>1 DEF CustNV_get
  <2> QED
    BY <2>6, <2>7 DEF ParaWord
<1>3. CASE RxSuspends
  <2>1. /\ Comes("rx", Silence, FALSE) /\ Pends("rx", Silence, FALSE)
        /\ UNCHANGED <<appMsgQueue, custParas, reports, told, missed>>
    BY <1>3, SilenceIsText DEF RxSuspends, Comes, Waits, host, history
  <2>2. \A p : Silence \notin NewsOf(p)
    BY ParaFacts
  <2> QED
    BY <2>1, <2>2, ParaTold
<1>4. CASE Log_printf_GivesUp
  <2>1. PICK k \in DOMAIN waits :
          /\ waits[k].log /\ waits' = RemoveAt(waits, k)
          /\ missed' = IF waits[k].text.kind = "value" THEN missed \cup {waits[k].text.p}
                       ELSE missed
    BY <1>4 DEF Log_printf_GivesUp
  <2>2. UNCHANGED <<appMsgQueue, custParas, reports, told, sending>>
    BY <1>4 DEF Log_printf_GivesUp, host
  <2>3. \A p \in Param \ missed' : p \notin missed /\ waits[k].text \notin NewsOf(p)
    <3>1. waits[k].text.kind \notin {"set", "restored"} /\ waits[k].text \in Texts
      BY <1>0, <2>1 DEF PortInv
    <3>2. CASE waits[k].text.kind = "value"
      BY <2>1, <3>1, <3>2, ParaFacts
    <3>3. CASE waits[k].text.kind # "value"
      BY <2>1, <3>1, <3>3, ParaFacts
    <3> QED
      BY <3>2, <3>3
  <2> SUFFICES ASSUME NEW p \in Param \ missed', ParaWord(p)
               PROVE  ParaWord(p)'
    <3>1. UNCHANGED reports /\ \A p : Queued(appMsgQueue', p) = Queued(appMsgQueue, p)
      BY <2>2
    <3> QED
      BY <2>3, <3>1 DEF ParaInv, ParaWord
  <2> DEFINE T == NewsOf(p)
             R == NewsIs(p, CustNV_get(p))
             known == told[p] = CustNV_get(p)
  <2>4. R \in SUBSET T /\ known \in BOOLEAN /\ waits[k].text \notin T
    BY <2>3, ParaFacts
  <2>5. LastWord(T, R, known, sending, waits)
    BY DEF ParaWord
  <2>6. LastWord(T, R, known, sending', waits')
    <3> HIDE DEF T, R, known
    <3> QED
      BY <2>1, <2>2, <2>4, <2>5, WordIsKept
  <2> QED
    BY <2>2, <2>6 DEF ParaWord, CustNV_get
<1>5. ASSUME NEW state \in States, RoleBecomes(state)
      PROVE  ParaInv'
  <2>1. /\ SimpleBLEPeripheral_enqueueMsg(state, {}) /\ state \in Messages
        /\ UNCHANGED <<custParas, reports, told, sending, waits>>
    BY <1>5 DEF RoleBecomes, port, host, Messages
  <2>2. missed \subseteq missed'
    BY <2>1 DEF SimpleBLEPeripheral_enqueueMsg
  <2>3. \A p : Queued(appMsgQueue, p) => Queued(appMsgQueue', p)
    BY <2>1, QueuedStays DEF SimpleBLEPeripheral_enqueueMsg
  <2> QED
    BY <2>1, <2>2, <2>3, ParaKept
<1>6. CASE RoleStarts \/ RoleAdvertises \/ RoleChanges
  BY <1>5, <1>6 DEF RoleStarts, RoleAdvertises, RoleChanges, States
<1>7. CASE BleWrites
  <2>1. PICK event \in Events :
          /\ SimpleBLEPeripheral_enqueueMsg(event, ReportsOf(event))
          /\ \A p \in Param \ ReportsOf(event) : custParas'[p] = custParas[p]
    BY <1>7, BleTypes
  <2>2. UNCHANGED <<reports, told, sending, waits>> /\ event \in Messages
    BY <1>7, BleTypes DEF Messages
  <2>3. \A p : Queued(appMsgQueue, p) => Queued(appMsgQueue', p)
    BY <2>1, <2>2, QueuedStays DEF SimpleBLEPeripheral_enqueueMsg
  <2>4. missed \subseteq missed'
    BY <2>1 DEF SimpleBLEPeripheral_enqueueMsg
  <2>5. CASE appMsgQueue' = Append(appMsgQueue, event)
    <3>1. /\ Len(appMsgQueue) + 1 \in DOMAIN appMsgQueue'
          /\ appMsgQueue'[Len(appMsgQueue) + 1] = event
      BY <2>2, <2>5, Extended DEF TypeInv
    <3>2. \A p \in ReportsOf(event) : Queued(appMsgQueue', p)
      BY <3>1 DEF Queued
    <3> QED
      BY <2>1, <2>2, <2>3, <2>4, <3>2, ParaKept
  <2>6. CASE missed' = missed \cup ReportsOf(event)
    BY <2>1, <2>2, <2>3, <2>6, ParaKept
  <2> QED
    BY <2>1, <2>5, <2>6 DEF SimpleBLEPeripheral_enqueueMsg
<1>8. ASSUME NEW event \in States, AppTakes(event)
      PROVE  /\ \A p : Queued(appMsgQueue, p) => Queued(appMsgQueue', p)
             /\ UNCHANGED <<custParas, told>>
  <2>1. event \in Messages /\ event \notin Events
    BY StatesAreNoEvents DEF Messages
  <2> QED
    BY <1>8, <2>1, QueuedStays, TakeTypes
<1>9. CASE AppStarts \/ AppSeesTimeout
  <2>1. PICK event \in States : AppTakes(event)
    BY <1>9 DEF AppStarts, AppSeesTimeout, States
  <2>2. UNCHANGED <<reports, sending, waits, missed>>
    BY <1>9 DEF AppStarts, AppSeesTimeout, port, history
  <2> QED
    BY <1>8, <2>1, <2>2, ParaKept
<1>10. CASE AppReportsState
  <2>1. PICK state \in Reported : \E text \in ConnIs(ConnCode(state)) :
          /\ AppTakes(state) /\ text.kind = "conn"
          /\ Comes("app", text, TRUE) /\ Pends("app", text, TRUE)
          /\ UNCHANGED <<advert, reports, history>>
    BY <1>10, StateIsReported DEF Reported
  <2>2. PICK text \in ConnIs(ConnCode(state)) :
          /\ text.kind = "conn" /\ Comes("app", text, TRUE) /\ Pends("app", text, TRUE)
    BY <2>1
  <2>3. \A p : text \notin NewsOf(p)
    BY <2>2, ParaFacts DEF ConnIs, ConnNews
  <2>4. state \in States /\ AppTakes(state) /\ UNCHANGED <<reports, missed>>
    BY <2>1 DEF Reported, States, history
  <2> QED
    BY <1>8, <2>2, <2>3, <2>4, ParaTold
<1>11. CASE Cmd_onValueChanged
  <2>1. PICK q \in reports : \E text \in NewsIs(q, CustNV_get(q)) :
          /\ text.kind = "value" /\ text.p = q
          /\ Comes("app", text, TRUE) /\ Pends("app", text, TRUE)
          /\ missed' = missed \ {q} /\ reports' = reports \ {q}
          /\ UNCHANGED <<appMsgQueue, custParas, host>>
    BY <1>11, ValueIsReported
  <2>2. PICK text \in NewsIs(q, CustNV_get(q)) :
          /\ text.kind = "value" /\ text.p = q
          /\ Comes("app", text, TRUE) /\ Pends("app", text, TRUE)
    BY <2>1
  <2>3. \A p : p # q => text \notin NewsOf(p)
    BY <2>2, ParaFacts DEF NewsIs, NewsOf
  <2>4. CustNV_get(q)' = CustNV_get(q) /\ told' = told
    BY <2>1 DEF CustNV_get, host
  <2> QED
    BY <2>1, <2>2, <2>3, <2>4, ParaTold
<1>12. CASE \E event \in {"DOORLOCK_PIN", "DOORLOCK_PARA"} :
              SimpleBLEPeripheral_processCharValueChangeEvt(event)
  <2>1. PICK event \in Events : SimpleBLEPeripheral_processCharValueChangeEvt(event)
    BY <1>12 DEF Events
  <2>2. /\ AppTakes(event) /\ reports = {} /\ event \in Messages
        /\ UNCHANGED <<sending, waits>>
        /\ \/ reports' = ReportsOf(event) /\ UNCHANGED missed
           \/ UNCHANGED reports /\ missed' = missed \cup ReportsOf(event)
    BY <2>1 DEF SimpleBLEPeripheral_processCharValueChangeEvt, AppTakes, Messages, port, history
  <2>3. \A p : p \notin ReportsOf(event) /\ Queued(appMsgQueue, p) => Queued(appMsgQueue', p)
    BY <2>2, QueuedStays
  <2>4. UNCHANGED <<custParas, told>>
    BY <2>2, TakeTypes
  <2> QED
    BY <2>2, <2>3, <2>4, ParaKept
<1>13. CASE CmdTask
  BY <1>13, CmdTells
<1>14. CASE HostSends \/ UNCHANGED vars
  BY <1>1, <1>14 DEF HostSends, vars, host, port, history
<1> QED
  BY <1>2, <1>3, <1>4, <1>6, <1>7, <1>9, <1>10, <1>11, <1>12, <1>13, <1>14 DEF Next, App

----------------------------------------------------------------------------
(* Advertising is enabled, or about to be, or memory has failed.           *)

(* The role leaves "STARTED" at once or stays there; its message stays in  *)
(* the queue until the application task enables advertising.               *)
LEMMA VisibleStep ==
  ASSUME TypeInv, VisibleInv, [Next]_vars
  PROVE  VisibleInv'
<1>0. mishaps \in Nat
  BY BoundsAssumption DEF TypeInv, TypeOK
<1>1. CASE UNCHANGED <<gap, advert, appMsgQueue>> /\ mishaps' >= mishaps /\ mishaps' \in Nat
  <2>1. mishaps > 0 => mishaps' > 0
    BY <1>0, <1>1
  <2> QED
    BY <1>1, <2>1 DEF VisibleInv
<1>2. CASE RoleStarts
  <2>1. SimpleBLEPeripheral_enqueueMsg("STARTED", {})
    BY <1>2 DEF RoleStarts, RoleBecomes
  <2>2. CASE appMsgQueue' = Append(appMsgQueue, "STARTED")
    <3>1. "STARTED" \in Messages
      BY DEF Messages, States
    <3>2. /\ Len(appMsgQueue) + 1 \in DOMAIN appMsgQueue'
          /\ appMsgQueue'[Len(appMsgQueue) + 1] = "STARTED"
      BY <2>2, <3>1, Extended DEF TypeInv
    <3> QED
      BY <3>2 DEF VisibleInv
  <2>3. CASE Mishap
    BY <1>0, <2>3 DEF Mishap, VisibleInv
  <2> QED
    BY <2>1, <2>2, <2>3 DEF SimpleBLEPeripheral_enqueueMsg
<1>3. CASE RoleAdvertises \/ RoleChanges
  <2>1. gap' # "STARTED"
    BY <1>3 DEF RoleAdvertises, RoleChanges, RoleBecomes
  <2> QED
    BY <2>1 DEF VisibleInv
<1>4. CASE BleWrites
  BY <1>4 DEF BleWrites, VisibleInv
<1>5. CASE AppStarts
  <2>1. advert' = TRUE \/ mishaps' = mishaps + 1
    BY <1>5 DEF AppStarts, Mishap
  <2> QED
    BY <1>0, <2>1 DEF VisibleInv
<1>6. ASSUME NEW event, event # "STARTED", AppTakes(event), UNCHANGED advert,
             mishaps' \in {mishaps, mishaps + 1}
      PROVE  VisibleInv'
  <2> SUFFICES ASSUME gap = "STARTED", ~advert, ~(mishaps > 0)
               PROVE  mishaps' > 0 \/ \E i \in DOMAIN appMsgQueue' : appMsgQueue'[i] = "STARTED"
    BY <1>0, <1>6 DEF VisibleInv, AppTakes
  <2>1. PICK i \in DOMAIN appMsgQueue : appMsgQueue[i] = "STARTED"
    BY DEF VisibleInv
  <2>2. i # 1
    BY <1>6, <2>1, TakeQueue
  <2>3. i - 1 \in DOMAIN appMsgQueue' /\ appMsgQueue'[i - 1] = "STARTED"
    BY <1>6, <2>1, <2>2, TakeQueue
  <2> QED
    BY <2>3
<1>7. CASE AppReportsState \/ AppSeesTimeout
  BY <1>6, <1>7 DEF AppReportsState, AppSeesTimeout, history
<1>8. CASE \E event \in {"DOORLOCK_PIN", "DOORLOCK_PARA"} :
             SimpleBLEPeripheral_processCharValueChangeEvt(event)
  BY <1>6, <1>8 DEF SimpleBLEPeripheral_processCharValueChangeEvt, history, Mishap
<1>9. CASE CmdTask
  <2>1. UNCHANGED <<gap, advert, appMsgQueue>> /\ mishaps' >= mishaps /\ mishaps' \in Nat
    BY <1>9, CmdReplies
  <2> QED
    BY <1>1, <2>1
<1>10. CASE \/ uart_writeCallBack \/ RxSuspends \/ RxResumes \/ Log_printf_GivesUp
            \/ Cmd_onValueChanged \/ HostSends \/ UNCHANGED vars
  <2>1. UNCHANGED <<gap, advert, appMsgQueue, mishaps>>
    BY <1>10 DEF uart_writeCallBack, RxSuspends, RxResumes, Log_printf_GivesUp,
                 Cmd_onValueChanged, HostSends, vars, history
  <2> QED
    BY <1>0, <1>1, <2>1
<1> QED
  BY <1>2, <1>3, <1>4, <1>5, <1>7, <1>8, <1>9, <1>10 DEF Next, App

----------------------------------------------------------------------------
(* The theorems.                                                           *)

AllInv == TypeInv /\ PortInv /\ AnswerInv /\ ConnInv /\ ParaInv /\ VisibleInv

(* At power-up nothing has been said.                                      *)
LEMMA InitInv == Init => AllInv
<1> SUFFICES ASSUME Init PROVE AllInv
  OBVIOUS
<1>0. /\ appMsgQueue = <<>> /\ lines = <<>> /\ waits = <<>> /\ answers = <<>>
      /\ sending = Silence /\ asked = 0 /\ dropped = {} /\ missed = Param /\ mishaps = 0
      /\ gap = "INIT" /\ tx = "free" /\ custParas = Defaults /\ told = Defaults
      /\ conn = -1 /\ reports = {} /\ advert = FALSE /\ connMissed = FALSE
  BY DEF Init
<1>1. Defaults \in [Param -> Pin]
  BY Values, ParamAssumption DEF Defaults
<1>2. Pin \subseteq Int
  BY DEF Pin, DigitPin, NotDigits
<1>3. MaxAsked \in Nat /\ MaxMishaps \in Nat
  BY BoundsAssumption
<1>4. Defaults \in [Param -> Int]
  BY <1>1, <1>2
<1>5. TypeInv
  <2>1. /\ gap \in States /\ advert \in BOOLEAN /\ tx \in {"free", "busy", "shut"}
        /\ custParas \in [Param -> Pin] /\ told \in [Param -> Int]
    <3> HIDE DEF Defaults
    <3> QED
      BY <1>0, <1>1, <1>4 DEF States
  <2>2. /\ conn \in -1..2 /\ asked \in 0..MaxAsked /\ mishaps \in 0..MaxMishaps
        /\ dropped \subseteq 1..asked /\ missed \subseteq Param
    BY <1>0, <1>3
  <2>3. \A S : <<>> \in Seq(S)
    OBVIOUS
  <2> QED
    BY <1>0, <2>1, <2>2, <2>3, SilenceIsText DEF TypeInv, TypeOK
<1>6. PortInv
  BY <1>0 DEF PortInv
<1>7. AnswerInv
  <2>1. Answered = {} /\ Pending = {} /\ Unhandled = {} /\ Sent = {}
    BY <1>0, SilenceIsText DEF Answered, Pending, Unhandled, Sent, ToSet
  <2>2. Accounted({}, {}, {}, {}, {}, 0)
    BY DEF Accounted, Precedes
  <2> QED
    BY <1>0, <2>1, <2>2 DEF AnswerInv
<1>8. ConnInv
  BY <1>0 DEF ConnInv, LastState
<1>9. ParaInv /\ VisibleInv
  BY <1>0 DEF ParaInv, VisibleInv
<1> QED
  BY <1>5, <1>6, <1>7, <1>8, <1>9 DEF AllInv

(* All of it together holds in every state.                                *)
LEMMA Inductive == Spec => []AllInv
<1>1. AllInv /\ [Next]_vars => AllInv'
  BY TypeStep, ConnStep, ParaStep, VisibleStep DEF AllInv
<1> QED
  BY <1>1, InitInv, PTL DEF Spec

(* Every variable has its type, in every state of every run.               *)
THEOREM TypeCorrect == Spec => []TypeOK
<1>1. AllInv => TypeOK
  BY DEF AllInv, TypeInv
<1> QED
  BY <1>1, Inductive, PTL

(* Every line is answered once and in order, and only answers that         *)
(* Log_printf gave up are missing: cmd.c handles one line after the other, *)
(* and no answer overtakes another at cmdTxSem.                            *)
THEOREM OneAnswerEachInvariant == Spec => []OneAnswerEach
<1>1. AllInv => OneAnswerEach
  <2> SUFFICES ASSUME AllInv PROVE OneAnswerEach
    OBVIOUS
  <2>1. Accounted(Answered, Sent, Pending, Unhandled, dropped, asked)
    BY DEF AllInv, AnswerInv
  <2>2. ToSet(answers) \cap dropped = {}
    BY <2>1 DEF Accounted, Answered
  <2>3. ASSUME Quiet, lines = <<>>
        PROVE  ToSet(answers) \cup dropped = 1..asked
    <3>1. Unhandled = {} /\ Pending = {}
      BY <2>3 DEF Unhandled, Pending, Quiet
    <3>2. Sent = {}
      BY <2>3, SilenceIsText DEF Sent, Quiet, AllInv, PortInv
    <3> QED
      BY <2>1, <3>1, <3>2 DEF Accounted, Answered
  <2> QED
    BY <2>2, <2>3 DEF OneAnswerEach, AllInv, AnswerInv
<1> QED
  BY <1>1, Inductive, PTL

(* Once nothing is on its way, the last "+CONN" the host has read is the   *)
(* state of the connection, unless that news was lost: the messages of the *)
(* role's callback and the texts of the application task keep their order. *)
THEOREM ConnIsToldInvariant == Spec => []ConnIsTold
<1>1. AllInv => ConnIsTold
  <2> SUFFICES ASSUME AllInv, Quiet, ~connMissed, gap \in {"ADVERTISING", "CONNECTED", "WAITING"}
               PROVE  conn = ConnCode(gap)
    BY DEF ConnIsTold
  <2>1. NoState(appMsgQueue)
    BY DEF NoState, Quiet
  <2>2. LastWord(ConnNews, ConnIs(ConnCode(gap)), conn = ConnCode(gap), sending, waits)
    BY <2>1 DEF AllInv, ConnInv
  <2>3. sending = Silence /\ waits = <<>>
    BY DEF Quiet, AllInv, PortInv
  <2>4. sending \notin ConnNews
    BY <2>3, ConnFacts
  <2> QED
    BY <2>2, <2>3, <2>4 DEF LastWord
<1> QED
  BY <1>1, Inductive, PTL

(* Once nothing is on its way, the host knows each parameter whose news it *)
(* did not miss: of the answers of the command task and the reports of     *)
(* Cmd_onValueChanged, the last one read has the parameter's value.        *)
THEOREM ParametersAreToldInvariant == Spec => []ParametersAreTold
<1>1. AllInv => ParametersAreTold
  <2> SUFFICES ASSUME AllInv, Quiet, NEW p \in Param \ missed
               PROVE  told[p] = CustNV_get(p)
    BY DEF ParametersAreTold
  <2>1. p \notin reports /\ ~Queued(appMsgQueue, p)
    BY DEF Quiet, Queued
  <2>2. LastWord(NewsOf(p), NewsIs(p, CustNV_get(p)), told[p] = CustNV_get(p), sending, waits)
    BY <2>1 DEF AllInv, ParaInv
  <2>3. sending = Silence /\ waits = <<>>
    BY DEF Quiet, AllInv, PortInv
  <2>4. sending \notin NewsOf(p)
    BY <2>3, ParaFacts
  <2> QED
    BY <2>2, <2>3, <2>4 DEF LastWord
<1> QED
  BY <1>1, Inductive, PTL

(* Advertising is enabled after the start, unless memory failed: the       *)
(* message of the start is in the queue until the task has acted on it.    *)
THEOREM VisibleOnceStartedInvariant == Spec => []VisibleOnceStarted
<1>1. AllInv => VisibleOnceStarted
  BY DEF AllInv, VisibleInv, VisibleOnceStarted, Quiet
<1> QED
  BY <1>1, Inductive, PTL
=============================================================================
