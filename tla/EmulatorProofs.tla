---------------------------- MODULE EmulatorProofs ----------------------------
(***************************************************************************)
(* Theorems about the demo broker and its shim for every number of         *)
(* clients, events and crashes.                                            *)
(*                                                                         *)
(* What a client was given, what its iterator has buffered, what lies on   *)
(* its socket and what waits for a session form one lane, in the order of  *)
(* the stream.  A step moves an entry along the lane, drops one from it,   *)
(* or adds the newest event of the stream at its end.                      *)
(***************************************************************************)
EXTENDS Emulator, SequenceTheorems, FiniteSetTheorems, TLAPS

\* Event e is carried by an element of s.
In(s, e) == \E i \in 1..Len(s) : s[i] # Started /\ s[i].event = e

\* Event d precedes e in the stream st.
Before(st, d, e) == \E m, n \in 1..Len(st) : m < n /\ st[m] = d /\ st[n] = e

\* The events of s are in the order of the stream.
Rises(st, s) ==
    \A i, j \in 1..Len(s) :
        i < j /\ s[i] # Started /\ s[j] # Started => Before(st, s[i].event, s[j].event)

\* All events of s precede those of t.
Ahead(st, s, t) == \A d, e : In(s, d) /\ In(t, e) => Before(st, d, e)

From(st, s) == \A e : In(s, e) => \E i \in 1..Len(st) : st[i] = e

----------------------------------------------------------------------------
(* Sequences.                                                              *)

LEMMA EmptyLane == \A st, s : ~In(<<>>, s) /\ Rises(st, <<>>) /\ Rises(st, <<Started>>) /\ ~In(<<Started>>, s)
BY DEF In, Rises

LEMMA TailParts ==
  ASSUME NEW S, NEW s \in Seq(S), s # <<>>
  PROVE  /\ Tail(s) \in Seq(S) /\ Head(s) \in S /\ Head(s) = s[1] /\ 1 \in 1..Len(s)
         /\ \A i \in 1..Len(Tail(s)) : i \in Nat /\ i + 1 \in 1..Len(s) /\ Tail(s)[i] = s[i + 1] /\ 1 < i + 1
<1>1. Len(s) \in Nat /\ Len(s) # 0
  BY EmptySeq, LenProperties
<1>2. /\ Tail(s) \in Seq(S) /\ Head(s) \in S /\ Head(s) = s[1] /\ Len(Tail(s)) = Len(s) - 1
      /\ \A i \in 1..Len(Tail(s)) : Tail(s)[i] = s[i + 1]
  BY HeadTailProperties
<1> QED BY <1>1, <1>2

LEMMA TailLane ==
  ASSUME NEW st, NEW S, NEW s \in Seq(S), s # <<>>
  PROVE  /\ \A e : In(Tail(s), e) => In(s, e)
         /\ Head(s) # Started => In(s, Head(s).event)
         /\ Rises(st, s) => Rises(st, Tail(s))
         /\ Rises(st, s) /\ Head(s) # Started =>
               \A e : In(Tail(s), e) => Before(st, Head(s).event, e)
<1>1. /\ Head(s) = s[1] /\ 1 \in 1..Len(s)
      /\ \A i \in 1..Len(Tail(s)) : i \in Nat /\ i + 1 \in 1..Len(s) /\ Tail(s)[i] = s[i + 1] /\ 1 < i + 1
  BY TailParts
<1>2. \A e : In(Tail(s), e) => In(s, e)
  BY <1>1 DEF In
<1>3. Head(s) # Started => In(s, Head(s).event)
  BY <1>1 DEF In
<1>4. ASSUME Rises(st, s) PROVE Rises(st, Tail(s))
  <2> SUFFICES ASSUME NEW i \in 1..Len(Tail(s)), NEW j \in 1..Len(Tail(s)), i < j,
                      Tail(s)[i] # Started, Tail(s)[j] # Started
               PROVE  Before(st, Tail(s)[i].event, Tail(s)[j].event)
    BY DEF Rises
  <2>1. /\ i + 1 \in 1..Len(s) /\ Tail(s)[i] = s[i + 1] /\ j + 1 \in 1..Len(s)
        /\ Tail(s)[j] = s[j + 1] /\ i + 1 < j + 1
    BY <1>1
  <2> QED BY <1>4, <2>1 DEF Rises
<1>5. ASSUME Rises(st, s), Head(s) # Started, NEW e, In(Tail(s), e)
      PROVE  Before(st, Head(s).event, e)
  <2>1. PICK i \in 1..Len(Tail(s)) : Tail(s)[i] # Started /\ Tail(s)[i].event = e
    BY <1>5 DEF In
  <2>2. i + 1 \in 1..Len(s) /\ Tail(s)[i] = s[i + 1] /\ 1 < i + 1
    BY <1>1
  <2> QED BY <1>1, <1>5, <2>1, <2>2 DEF Rises
<1> QED BY <1>2, <1>3, <1>4, <1>5

LEMMA AppendLane ==
  ASSUME NEW st, NEW S, NEW s \in Seq(S), NEW x \in S
  PROVE  /\ Append(s, x) \in Seq(S)
         /\ \A e : In(Append(s, x), e) => In(s, e) \/ (x # Started /\ e = x.event)
         /\ Rises(st, s) /\ (\A d : In(s, d) => Before(st, d, x.event)) => Rises(st, Append(s, x))
<1>1. /\ Append(s, x) \in Seq(S) /\ Len(Append(s, x)) = Len(s) + 1 /\ Len(s) \in Nat
      /\ \A i \in 1..Len(s) : Append(s, x)[i] = s[i]
      /\ Append(s, x)[Len(s) + 1] = x
  BY AppendProperties, LenProperties
<1>2. \A i \in 1..Len(Append(s, x)) :
          (i \in 1..Len(s) /\ Append(s, x)[i] = s[i]) \/ (i = Len(s) + 1 /\ Append(s, x)[i] = x)
  BY <1>1
<1>3. \A e : In(Append(s, x), e) => In(s, e) \/ (x # Started /\ e = x.event)
  BY <1>2 DEF In
<1>4. ASSUME Rises(st, s), \A d : In(s, d) => Before(st, d, x.event)
      PROVE  Rises(st, Append(s, x))
  <2> SUFFICES ASSUME NEW i \in 1..Len(Append(s, x)), NEW j \in 1..Len(Append(s, x)), i < j,
                      Append(s, x)[i] # Started, Append(s, x)[j] # Started
               PROVE  Before(st, Append(s, x)[i].event, Append(s, x)[j].event)
    BY DEF Rises
  <2>1. i \in 1..Len(s) /\ Append(s, x)[i] = s[i]
    BY <1>1, <1>2
  <2>2. CASE j \in 1..Len(s) /\ Append(s, x)[j] = s[j]
    BY <1>4, <2>1, <2>2 DEF Rises
  <2>3. CASE j = Len(s) + 1 /\ Append(s, x)[j] = x
    BY <1>4, <2>1, <2>3 DEF In
  <2> QED BY <1>2, <2>2, <2>3
<1> QED BY <1>1, <1>3, <1>4

LEMMA ConcatLane ==
  ASSUME NEW st, NEW S, NEW s \in Seq(S), NEW t \in Seq(S)
  PROVE  /\ s \o t \in Seq(S)
         /\ \A e : In(s \o t, e) => In(s, e) \/ In(t, e)
         /\ Rises(st, s) /\ Rises(st, t) /\ Ahead(st, s, t) => Rises(st, s \o t)
<1>1. PICK u : u = s \o t
  OBVIOUS
<1>2. /\ u \in Seq(S) /\ Len(u) = Len(s) + Len(t) /\ Len(s) \in Nat /\ Len(t) \in Nat
      /\ \A i \in 1..(Len(s) + Len(t)) : u[i] = IF i <= Len(s) THEN s[i] ELSE t[i - Len(s)]
  BY <1>1, ConcatProperties, LenProperties
<1>3. \A i \in 1..Len(u) : \/ i \in 1..Len(s) /\ u[i] = s[i]
                           \/ i > Len(s) /\ i - Len(s) \in 1..Len(t) /\ u[i] = t[i - Len(s)]
  <2> SUFFICES ASSUME NEW i \in 1..Len(u)
               PROVE  \/ i \in 1..Len(s) /\ u[i] = s[i]
                      \/ i > Len(s) /\ i - Len(s) \in 1..Len(t) /\ u[i] = t[i - Len(s)]
    OBVIOUS
  <2>1. u[i] = IF i <= Len(s) THEN s[i] ELSE t[i - Len(s)]
    BY <1>2
  <2>2. i \in 1..Len(s) \/ (~(i <= Len(s)) /\ i > Len(s) /\ i - Len(s) \in 1..Len(t))
    BY <1>2
  <2>3. i \in 1..Len(s) => i <= Len(s)
    BY <1>2
  <2> QED BY <2>1, <2>2, <2>3
<1>4. \A e : In(u, e) => In(s, e) \/ In(t, e)
  BY <1>3 DEF In
<1>5. ASSUME Rises(st, s), Rises(st, t), Ahead(st, s, t) PROVE Rises(st, u)
  <2> SUFFICES ASSUME NEW i \in 1..Len(u), NEW j \in 1..Len(u), i < j,
                      u[i] # Started, u[j] # Started
               PROVE  Before(st, u[i].event, u[j].event)
    BY DEF Rises
  <2>1. CASE i \in 1..Len(s) /\ u[i] = s[i] /\ j \in 1..Len(s) /\ u[j] = s[j]
    BY <1>5, <2>1 DEF Rises
  <2>2. CASE i \in 1..Len(s) /\ u[i] = s[i] /\ j - Len(s) \in 1..Len(t) /\ u[j] = t[j - Len(s)]
    <3>1. In(s, u[i].event) /\ In(t, u[j].event)
      BY <2>2 DEF In
    <3> QED BY <1>5, <3>1 DEF Ahead
  <2>3. CASE /\ i - Len(s) \in 1..Len(t) /\ u[i] = t[i - Len(s)]
             /\ j - Len(s) \in 1..Len(t) /\ u[j] = t[j - Len(s)]
    <3>1. i - Len(s) < j - Len(s)
      BY <1>2
    <3> QED BY <1>5, <2>3, <3>1 DEF Rises
  <2>4. ~(i > Len(s) /\ j \in 1..Len(s))
    BY <1>2
  <2> QED BY <1>3, <2>1, <2>2, <2>3, <2>4
<1> QED BY <1>1, <1>2, <1>4, <1>5

----------------------------------------------------------------------------
(* The lane of a client: g was given to it, q is in its iterator, l on its *)
(* socket, and w waits for a session.                                      *)

Lane(st, g, q, l, w) ==
    /\ Rises(st, g) /\ Rises(st, q) /\ Rises(st, l) /\ Rises(st, w)
    /\ Ahead(st, g, q) /\ Ahead(st, g, l) /\ Ahead(st, g, w)
    /\ Ahead(st, q, l) /\ Ahead(st, q, w) /\ Ahead(st, l, w)
    /\ From(st, g) /\ From(st, q) /\ From(st, l) /\ From(st, w)

\* process() takes the next message.
LEMMA LaneTakes ==
  ASSUME NEW st, NEW S, NEW g \in Seq(S), NEW q \in Seq(S), q # <<>>, NEW l, NEW w,
         NEW x \in S, Head(q) # Started, x.event = Head(q).event, Lane(st, g, q, l, w)
  PROVE  Lane(st, Append(g, x), Tail(q), l, w)
<1>1. /\ \A e : In(Tail(q), e) => In(q, e) /\ Before(st, x.event, e)
      /\ In(q, x.event) /\ Rises(st, Tail(q))
  BY TailLane DEF Lane
<1>2. /\ \A e : In(Append(g, x), e) => In(g, e) \/ e = x.event
      /\ Rises(st, g) /\ (\A d : In(g, d) => Before(st, d, x.event)) => Rises(st, Append(g, x))
  BY AppendLane
<1>3. Rises(st, Append(g, x))
  BY <1>1, <1>2 DEF Lane, Ahead
<1> QED BY <1>1, <1>2, <1>3 DEF Lane, Ahead, From

\* A line is read: a message for the iterator, or one that is dropped.
LEMMA LaneReads ==
  ASSUME NEW st, NEW S, NEW g, NEW q \in Seq(S), NEW l \in Seq(S), l # <<>>, NEW w,
         Lane(st, g, q, l, w)
  PROVE  /\ Lane(st, g, q, Tail(l), w)
         /\ Head(l) # Started => Lane(st, g, Append(q, Head(l)), Tail(l), w)
<1>1. /\ \A e : In(Tail(l), e) => In(l, e)
      /\ Rises(st, Tail(l)) /\ Head(l) \in S
      /\ Head(l) # Started => In(l, Head(l).event)
                              /\ \A e : In(Tail(l), e) => Before(st, Head(l).event, e)
  BY TailLane, TailParts DEF Lane
<1>2. Lane(st, g, q, Tail(l), w)
  BY <1>1 DEF Lane, Ahead, From
<1>3. ASSUME Head(l) # Started PROVE Lane(st, g, Append(q, Head(l)), Tail(l), w)
  <2>1. /\ \A e : In(Append(q, Head(l)), e) => In(q, e) \/ e = Head(l).event
        /\ Rises(st, q) /\ (\A d : In(q, d) => Before(st, d, Head(l).event))
              => Rises(st, Append(q, Head(l)))
    BY <1>1, AppendLane
  <2>2. Rises(st, Append(q, Head(l)))
    BY <1>1, <1>3, <2>1 DEF Lane, Ahead
  <2> QED BY <1>1, <1>2, <1>3, <2>1, <2>2 DEF Lane, Ahead, From
<1> QED BY <1>2, <1>3

LEMMA LaneCrashes ==
  ASSUME NEW st, NEW g, NEW q, NEW l, NEW w, Lane(st, g, q, l, w)
  PROVE  Lane(st, g, <<>>, <<>>, w)
BY EmptyLane DEF Lane, Ahead, From

\* out holds the events of w or some of them, in their order.
Drawn(out, w) ==
    \E at \in [1..Len(out) -> 1..Len(w)] :
        /\ \A i, j \in 1..Len(out) : i < j => at[i] < at[j]
        /\ \A i \in 1..Len(out) : w[at[i]] # Started /\ out[i].event = w[at[i]].event

\* What waits is sent, to this client or to another.
LEMMA LanePumped ==
  ASSUME NEW st, NEW S, NEW g, NEW q, NEW l \in Seq(S), NEW w, NEW out \in Seq(S),
         NEW reply \in {<<>>, <<Started>>}, Started \in S, Drawn(out, w), Lane(st, g, q, l, w)
  PROVE  Lane(st, g, q, l, <<>>) /\ Lane(st, g, q, l \o out \o reply, <<>>)
<1>1. PICK at \in [1..Len(out) -> 1..Len(w)] :
          /\ \A i, j \in 1..Len(out) : i < j => at[i] < at[j]
          /\ \A i \in 1..Len(out) : w[at[i]] # Started /\ out[i].event = w[at[i]].event
  BY DEF Drawn
<1>2. \A e : In(out, e) => In(w, e)
  BY <1>1 DEF In
<1>3. Rises(st, out)
  <2> SUFFICES ASSUME NEW i \in 1..Len(out), NEW j \in 1..Len(out), i < j
               PROVE  Before(st, out[i].event, out[j].event)
    BY DEF Rises
  <2>1. at[i] \in 1..Len(w) /\ at[j] \in 1..Len(w) /\ at[i] < at[j]
    BY <1>1
  <2> QED BY <1>1, <2>1 DEF Lane, Rises
<1>4. /\ l \o out \in Seq(S)
      /\ \A e : In(l \o out, e) => In(l, e) \/ In(out, e)
      /\ Rises(st, l) /\ Rises(st, out) /\ Ahead(st, l, out) => Rises(st, l \o out)
  BY ConcatLane
<1>5. Ahead(st, l, out)
  BY <1>2 DEF Lane, Ahead
<1>6. reply \in Seq(S) /\ Rises(st, reply) /\ \A e : ~In(reply, e)
  <2>1. <<>> \in Seq(S) /\ <<Started>> \in Seq(S)
    OBVIOUS
  <2>2. reply = <<>> \/ reply = <<Started>>
    OBVIOUS
  <2> QED BY <2>1, <2>2, EmptyLane, Zenon
<1>7. PICK t : t = l \o out
  OBVIOUS
<1>8. Rises(st, t) /\ t \in Seq(S) /\ \A e : In(t, e) => In(l, e) \/ In(w, e)
  BY <1>2, <1>3, <1>4, <1>5, <1>7 DEF Lane
<1>9. /\ \A e : In(t \o reply, e) => In(t, e) \/ In(reply, e)
      /\ Rises(st, t) /\ Rises(st, reply) /\ Ahead(st, t, reply) => Rises(st, t \o reply)
  BY <1>6, <1>8, ConcatLane
<1>10. Rises(st, t \o reply) /\ \A e : In(t \o reply, e) => In(l, e) \/ In(w, e)
  BY <1>6, <1>8, <1>9 DEF Ahead
<1>11. Lane(st, g, q, l, <<>>)
  BY EmptyLane DEF Lane, Ahead, From
<1>12. Lane(st, g, q, t \o reply, <<>>)
  BY <1>10, EmptyLane DEF Lane, Ahead, From
<1> QED BY <1>7, <1>11, <1>12

\* The newest event of the stream waits, or is not delivered at all.
LEMMA LanePublished ==
  ASSUME NEW st \in Seq(Event), NEW g, NEW q, NEW l, NEW S, NEW w \in Seq(S), NEW x \in S,
         NEW e \in Event, x.event = e, Lane(st, g, q, l, w)
  PROVE  Lane(Append(st, e), g, q, l, w) /\ Lane(Append(st, e), g, q, l, Append(w, x))
<1>1. /\ Len(Append(st, e)) = Len(st) + 1 /\ Len(st) \in Nat
      /\ \A i \in 1..Len(st) : Append(st, e)[i] = st[i]
      /\ Append(st, e)[Len(st) + 1] = e
  BY AppendProperties, LenProperties
<1>2. \A i \in 1..Len(st) : i \in 1..Len(Append(st, e)) /\ i < Len(st) + 1
      /\ Len(st) + 1 \in 1..Len(Append(st, e))
  BY <1>1
<1>3. \A c, d : Before(st, c, d) => Before(Append(st, e), c, d)
  BY <1>1, <1>2 DEF Before
<1>4. \A s : Rises(st, s) => Rises(Append(st, e), s)
  BY <1>3 DEF Rises
<1>5. \A s, t : Ahead(st, s, t) => Ahead(Append(st, e), s, t)
  BY <1>3 DEF Ahead
<1>6. \A s : From(st, s) => From(Append(st, e), s)
  BY <1>1, <1>2 DEF From
<1>7. Lane(Append(st, e), g, q, l, w)
  BY <1>4, <1>5, <1>6 DEF Lane
<1>8. \A s, d : From(st, s) /\ In(s, d) => Before(Append(st, e), d, e)
  BY <1>1, <1>2 DEF From, Before
<1>9. /\ \A d : In(Append(w, x), d) => In(w, d) \/ d = e
      /\ Rises(Append(st, e), w) /\ (\A d : In(w, d) => Before(Append(st, e), d, e))
            => Rises(Append(st, e), Append(w, x))
  BY AppendLane
<1>10. Rises(Append(st, e), Append(w, x))
  BY <1>7, <1>8, <1>9 DEF Lane
<1>11. \A s : From(st, s) /\ Ahead(Append(st, e), s, w) => Ahead(Append(st, e), s, Append(w, x))
  BY <1>8, <1>9 DEF Ahead
<1>12. From(Append(st, e), Append(w, x))
  BY <1>1, <1>2, <1>7, <1>9 DEF From, Lane
<1>13. Lane(Append(st, e), g, q, l, Append(w, x))
  BY <1>7, <1>10, <1>11, <1>12 DEF Lane
<1> QED BY <1>7, <1>13

----------------------------------------------------------------------------
(* pump().                                                                 *)

\* An entry that was never sent, and one that was.
Fresh == [event : Event, count : {Undefined}]
SentOnce == [event : Event, count : {NaN}]

LEMMA Numbers ==
  /\ NaN \notin 1..MaxDeliver /\ NaN # Undefined /\ NaN # Null
  /\ Increment(Undefined) = NaN /\ ToJSON(NaN) = Null /\ ~LessThan(NaN, MaxDeliver)
  /\ 0 \notin Counts /\ 0 \notin {Null} \union 1..MaxDeliver
BY BoundsAssumption DEF NaN, Undefined, Null, ToNumber, Increment, ToJSON, LessThan, Counts

LEMMA Entries ==
  /\ Fresh \subseteq Entry /\ SentOnce \subseteq Entry
  /\ Started \notin Entry /\ Started \notin Message /\ None \notin Message
  /\ \A e \in Event : EntryOf(e) \in Fresh /\ EntryOf(e).event = e
  /\ \A n \in Fresh : /\ n \notin SentOnce /\ n.event \in Event
                      /\ Counted(n) \in SentOnce /\ Counted(n).event = n.event
  /\ \A n \in SentOnce : Wire(n) \in Message /\ Wire(n).event = n.event /\ n \notin Message
                         /\ n.event \in Event
  /\ Message \subseteq Message \union {Started}
<1> USE Numbers
<1>1. Fresh \subseteq Entry /\ SentOnce \subseteq Entry
  BY DEF Fresh, SentOnce, Entry, Counts
<1>2. Started \notin Entry /\ Started \notin Message /\ None \notin Message
  BY DEF Started, None, Entry, Message
<1>3. \A e \in Event : EntryOf(e) \in Fresh /\ EntryOf(e).event = e
  BY DEF EntryOf, Fresh
<1>4. ASSUME NEW n \in Fresh
      PROVE  n \notin SentOnce /\ n.event \in Event /\ Counted(n) \in SentOnce
             /\ Counted(n).event = n.event
  <2>1. n.event \in Event /\ n.count = Undefined /\ n = [event |-> n.event, count |-> Undefined]
    BY DEF Fresh
  <2>2. Counted(n) = [event |-> n.event, count |-> NaN]
    BY <2>1 DEF Counted
  <2> QED BY <2>1, <2>2 DEF SentOnce
<1>5. ASSUME NEW n \in SentOnce
      PROVE  Wire(n) \in Message /\ Wire(n).event = n.event /\ n \notin Message /\ n.event \in Event
  BY DEF SentOnce, Wire, Message
<1> QED BY <1>1, <1>2, <1>3, <1>4, <1>5

LEMMA RisingPlaces ==
  ASSUME NEW n \in Nat
  PROVE  /\ Rising(1..n) \in [1..n -> 1..n]
         /\ \A i, j \in 1..n : i < j => Rising(1..n)[i] < Rising(1..n)[j]
<1>1. Cardinality(1..n) = n
  BY FS_Interval
<1> DEFINE same == [i \in 1..n |-> i]
<1>2. same \in [1..n -> 1..n] /\ \A i, j \in DOMAIN same : i < j => same[i] < same[j]
  OBVIOUS
<1> HIDE DEF same
<1>3. \E at \in [1..n -> 1..n] : \A i, j \in DOMAIN at : i < j => at[i] < at[j]
  BY <1>2
<1>4. Rising(1..n) = CHOOSE at \in [1..n -> 1..n] : \A i, j \in DOMAIN at : i < j => at[i] < at[j]
  BY <1>1 DEF Rising
<1> QED BY <1>3, <1>4

\* Entries that were never sent are all sent, in their order.
LEMMA SendsFresh ==
  ASSUME NEW w \in Seq(Fresh), NEW busy \in SUBSET SentOnce
  PROVE  /\ ToSend(w, busy) \in Seq(Fresh) /\ Len(ToSend(w, busy)) = Len(w)
         /\ \E at \in [1..Len(w) -> 1..Len(w)] :
               /\ \A i, j \in 1..Len(w) : i < j => at[i] < at[j]
               /\ \A i \in 1..Len(w) : ToSend(w, busy)[i] = w[at[i]]
<1>1. Len(w) \in Nat /\ DOMAIN w = 1..Len(w) /\ \A i \in 1..Len(w) : w[i] \in Fresh
  BY LenProperties, ElementOfSeq
<1>2. Kept(w, busy) = 1..Len(w)
  BY <1>1, Entries DEF Kept
<1>3. PICK at : at = Rising(1..Len(w))
  OBVIOUS
<1>4. at \in [1..Len(w) -> 1..Len(w)] /\ \A i, j \in 1..Len(w) : i < j => at[i] < at[j]
  BY <1>1, <1>3, RisingPlaces
<1>5. ToSend(w, busy) = [i \in 1..Len(w) |-> w[at[i]]]
  BY <1>2, <1>3, <1>4 DEF ToSend
<1>6. \A i \in 1..Len(w) : w[at[i]] \in Fresh
  BY <1>1, <1>4
<1>7. [i \in 1..Len(w) |-> w[at[i]]] \in Seq(Fresh) /\ Len([i \in 1..Len(w) |-> w[at[i]]]) = Len(w)
  BY <1>1, <1>6
<1> QED BY <1>4, <1>5, <1>7

\* How often event e is among the entries of out.
Times(out, e) == Cardinality({i \in DOMAIN out : out[i].event = e})

\* pump() has sent nothing or all that waited.
Pumped(w, reply) ==
    /\ inflight' \subseteq SentOnce
    /\ \/ pending' = w /\ UNCHANGED <<line, sent>>
       \/ \E c \in Client, out \in Seq(Message), n \in Seq(SentOnce) :
             /\ pending' = <<>> /\ Drawn(out, w) /\ Drawn(n, w)
             /\ line' = [line EXCEPT ![c] = @ \o out \o reply]
             /\ sent' = [e \in Event |-> sent[e] + Times(n, e)]

LEMMA PumpEffects ==
  ASSUME NEW w \in Seq(Fresh), NEW busy \in SUBSET SentOnce, NEW reply \in {<<>>, <<Started>>},
         session' \in Client \union {Nobody}, Pump(w, busy, reply)
  PROVE  Pumped(w, reply)
<1> USE DEF Pumped
<1>1. CASE session' = Nobody
  BY <1>1 DEF Pump
<1>2. CASE session' \in Client
  <2> DEFINE send == ToSend(w, busy)
             n == [i \in DOMAIN send |-> Counted(send[i])]
             out == [i \in DOMAIN n |-> Wire(n[i])]
  <2>1. PICK at \in [1..Len(w) -> 1..Len(w)] :
            /\ \A i, j \in 1..Len(w) : i < j => at[i] < at[j]
            /\ \A i \in 1..Len(w) : send[i] = w[at[i]]
    BY SendsFresh
  <2>2. /\ send \in Seq(Fresh) /\ DOMAIN send = 1..Len(w) /\ Len(w) \in Nat
        /\ \A i \in 1..Len(w) : send[i] \in Fresh
    BY SendsFresh, LenProperties, ElementOfSeq
  <2>3. \A i \in 1..Len(w) : w[at[i]] # Started /\ w[at[i]] \in Fresh
    BY <2>1, <2>2, Entries
  <2> HIDE DEF send
  <2>4. /\ DOMAIN n = 1..Len(w)
        /\ \A i \in 1..Len(w) : n[i] \in SentOnce /\ n[i].event = w[at[i]].event
    BY <2>1, <2>2, Entries
  <2>5. n \in Seq(SentOnce) /\ Len(n) = Len(w)
    BY <2>2, Entries
  <2> HIDE DEF n
  <2>6. /\ DOMAIN out = 1..Len(w)
        /\ \A i \in 1..Len(w) : out[i] \in Message /\ out[i].event = w[at[i]].event
    BY <2>4, Entries
  <2>7. out \in Seq(Message) /\ Len(out) = Len(w)
    BY <2>2, <2>4, Entries
  <2> HIDE DEF out
  <2>8. Drawn(out, w) /\ Drawn(n, w)
    BY <2>1, <2>3, <2>4, <2>5, <2>6, <2>7 DEF Drawn
  <2>9. session' # Nobody
    BY <1>2, ClientAssumption
  <2>10. /\ pending' = <<>> /\ inflight' = busy \union Range(n)
         /\ sent' = [e \in Event |-> sent[e] + Cardinality({i \in DOMAIN n : n[i].event = e})]
         /\ line' = [line EXCEPT ![session'] = @ \o out \o reply]
    BY <2>9 DEF Pump, out, n, send
  <2>11. Range(n) \subseteq SentOnce
    BY <2>4 DEF Range
  <2>12. sent' = [e \in Event |-> sent[e] + Times(n, e)]
    BY <2>10 DEF Times
  <2>13. inflight' \subseteq SentOnce
    BY <2>10, <2>11
  <2> QED BY <1>2, <2>5, <2>7, <2>8, <2>10, <2>12, <2>13
<1> QED BY <1>1, <1>2

----------------------------------------------------------------------------
(* The invariants.                                                         *)

\* No entry is ever found again: what was sent has no number for a count, so
\* nothing waits for its nak delay and nothing is settled.
TypeInv ==
    /\ durable \in BOOLEAN /\ stored \in Seq(Event) /\ pending \in Seq(Fresh)
    /\ inflight \subseteq SentOnce /\ scheduled = {} /\ settled = {}
    /\ session \in Client \union {Nobody} /\ sent \in [Event -> Nat]
    /\ line \in [Client -> Seq(Message \union {Started})]
    /\ requests \in [Client -> Seq(Request)]
    /\ pc \in [Client -> {"down", "added", "opening", "idle", "busy"}]
    /\ queue \in [Client -> Seq(Message)]
    /\ cur \in [Client -> Message \union {None}]
    /\ taken \in [Client -> Seq(Event)]
    /\ \A c \in Client : pc[c] = "busy" => cur[c] \in Message

\* What client c was given, as entries.
Given(c) == [i \in 1..Len(taken[c]) |-> EntryOf(taken[c][i])]

LaneInv == \A c \in Client : Lane(stored, Given(c), queue[c], line[c], pending)

Different(st) == \A m, n \in 1..Len(st) : st[m] = st[n] => m = n

OnceInv ==
    /\ Different(stored)
    /\ \A e \in Event :
          /\ sent[e] <= 1
          /\ sent[e] # 0 => \E i \in 1..Len(stored) : stored[i] = e
          /\ In(pending, e) => sent[e] = 0

\* An event that waits once is sent once.
LEMMA SentTimes ==
  ASSUME NEW st, Different(st), NEW w, Rises(st, w), NEW n \in Seq(SentOnce), Drawn(n, w),
         NEW e
  PROVE  Times(n, e) \in {0, 1} /\ (Times(n, e) # 0 => In(w, e))
<1> DEFINE places == {i \in DOMAIN n : n[i].event = e}
<1>1. DOMAIN n = 1..Len(n) /\ Len(n) \in Nat
  BY LenProperties
<1>2. PICK at \in [1..Len(n) -> 1..Len(w)] :
          /\ \A i, j \in 1..Len(n) : i < j => at[i] < at[j]
          /\ \A i \in 1..Len(n) : w[at[i]] # Started /\ n[i].event = w[at[i]].event
  BY DEF Drawn
<1>3. ~Before(st, e, e)
  BY DEF Before, Different
<1>4. ASSUME NEW i \in places, NEW j \in places PROVE i = j
  <2>1. i \in 1..Len(n) /\ j \in 1..Len(n) /\ w[at[i]].event = e /\ w[at[j]].event = e
        /\ at[i] \in 1..Len(w) /\ at[j] \in 1..Len(w) /\ w[at[i]] # Started /\ w[at[j]] # Started
    BY <1>1, <1>2
  <2>2. ~(at[i] < at[j]) /\ ~(at[j] < at[i])
    BY <1>3, <2>1 DEF Rises
  <2>3. ~(i < j) /\ ~(j < i)
    BY <1>2, <2>1, <2>2
  <2> QED BY <1>1, <2>1, <2>3
<1>5. CASE places = {}
  BY <1>5, FS_EmptySet DEF Times
<1>6. CASE places # {}
  <2>1. PICK i \in places : TRUE
    BY <1>6
  <2>2. places = {i}
    BY <1>4, <2>1
  <2>3. Cardinality({i}) = 1
    BY FS_Singleton
  <2>4. Times(n, e) = 1
    BY <2>2, <2>3 DEF Times
  <2>5. In(w, e)
    BY <1>1, <1>2, <2>1 DEF In
  <2> QED BY <2>4, <2>5
<1> QED BY <1>5, <1>6

\* What pump() does to the lanes.
LEMMA PumpKeeps ==
  ASSUME TypeInv, stored' \in Seq(Event), Different(stored'), UNCHANGED <<queue, taken>>,
         NEW w \in Seq(Fresh), NEW busy \in SUBSET SentOnce, NEW reply \in {<<>>, <<Started>>},
         session' \in Client \union {Nobody}, Pump(w, busy, reply),
         \A c \in Client : Lane(stored', Given(c), queue[c], line[c], w),
         \A e \in Event : /\ sent[e] <= 1
                          /\ sent[e] # 0 => \E i \in 1..Len(stored') : stored'[i] = e
                          /\ In(w, e) => sent[e] = 0
  PROVE  /\ pending' \in Seq(Fresh) /\ inflight' \subseteq SentOnce /\ sent' \in [Event -> Nat]
         /\ line' \in [Client -> Seq(Message \union {Started})]
         /\ LaneInv' /\ OnceInv'
<1>0. Pumped(w, reply)
  BY PumpEffects
<1> USE DEF TypeInv
<1>1. \A c \in Client : Given(c)' = Given(c) /\ queue'[c] = queue[c]
  BY DEF Given
<1>2. CASE pending' = w /\ UNCHANGED <<line, sent>> /\ inflight' \subseteq SentOnce
  <2>1. LaneInv'
    BY <1>1, <1>2 DEF LaneInv
  <2>2. OnceInv'
    BY <1>2 DEF OnceInv
  <2> QED BY <1>2, <2>1, <2>2
<1>3. ASSUME NEW c \in Client, NEW out \in Seq(Message), NEW n \in Seq(SentOnce),
             pending' = <<>>, Drawn(out, w), Drawn(n, w),
             line' = [line EXCEPT ![c] = @ \o out \o reply],
             sent' = [e \in Event |-> sent[e] + Times(n, e)]
      PROVE  /\ pending' \in Seq(Fresh) /\ sent' \in [Event -> Nat]
             /\ line' \in [Client -> Seq(Message \union {Started})]
             /\ LaneInv' /\ OnceInv'
  <2> DEFINE Item == Message \union {Started}
  <2>1. pending' \in Seq(Fresh)
    BY <1>3
  <2>2. \A i \in Client : line[i] \in Seq(Item)
    OBVIOUS
  <2>3. out \in Seq(Item) /\ reply \in Seq(Item)
    <3>1. <<>> \in Seq(Item) /\ <<Started>> \in Seq(Item)
      OBVIOUS
    <3>2. out \in Seq(Item)
      BY LenProperties, ElementOfSeq
    <3> QED BY <3>1, <3>2
  <2>4. line[c] \o out \o reply \in Seq(Item)
    <3>1. line[c] \o out \in Seq(Item)
      BY <2>2, <2>3, ConcatProperties
    <3> QED BY <2>3, <3>1, ConcatProperties
  <2>5. /\ line' \in [Client -> Seq(Item)]
        /\ \A i \in Client : line'[i] = IF i = c THEN line[c] \o out \o reply ELSE line[i]
    BY <1>3, <2>4
  <2>6. ASSUME NEW i \in Client
        PROVE  Lane(stored', Given(i), queue[i], line'[i], <<>>)
    <3>1. Started \in Item
      OBVIOUS
    <3>2. Lane(stored', Given(i), queue[i], line[i], w)
      OBVIOUS
    <3> HIDE DEF Item
    <3>3. /\ Lane(stored', Given(i), queue[i], line[i], <<>>)
          /\ Lane(stored', Given(i), queue[i], line[i] \o out \o reply, <<>>)
      BY <1>3, <2>2, <2>3, <3>1, <3>2, LanePumped
    <3> QED BY <2>5, <3>3
  <2>7. LaneInv'
    BY <1>1, <1>3, <2>6 DEF LaneInv
  <2>8. ASSUME NEW e \in Event
        PROVE  /\ sent'[e] \in Nat /\ sent'[e] <= 1
               /\ sent'[e] # 0 => \E i \in 1..Len(stored') : stored'[i] = e
    <3>1. Times(n, e) \in {0, 1} /\ (Times(n, e) # 0 => In(w, e))
      BY <1>3, SentTimes DEF Lane
    <3>2. sent'[e] = sent[e] + Times(n, e) /\ sent[e] \in Nat
      BY <1>3
    <3>3. In(w, e) => \E i \in 1..Len(stored') : stored'[i] = e
      BY DEF Lane, From
    <3>4. sent[e] <= 1 /\ (In(w, e) => sent[e] = 0)
      OBVIOUS
    <3>5. sent'[e] \in Nat /\ sent'[e] <= 1 /\ (sent'[e] # 0 => sent[e] # 0 \/ Times(n, e) # 0)
      BY <3>1, <3>2, <3>4
    <3> QED BY <3>1, <3>3, <3>5
  <2>9. sent' \in [Event -> Nat]
    BY <1>3, <2>8
  <2>10. OnceInv'
    BY <1>3, <2>8, EmptyLane DEF OnceInv
  <2> QED BY <2>1, <2>5, <2>7, <2>9, <2>10
<1> QED BY <1>0, <1>2, <1>3 DEF Pumped

----------------------------------------------------------------------------
(* The steps.                                                              *)

Inv == TypeInv /\ LaneInv /\ OnceInv

LEMMA Inits == Init => Inv
<1> SUFFICES ASSUME Init PROVE Inv
  OBVIOUS
<1> USE DEF Init
<1>1. TypeInv
  <2>1. \A S : <<>> \in Seq(S)
    OBVIOUS
  <2>2. /\ line \in [Client -> Seq(Message \union {Started})]
        /\ requests \in [Client -> Seq(Request)] /\ queue \in [Client -> Seq(Message)]
        /\ taken \in [Client -> Seq(Event)]
    BY <2>1
  <2>3. sent \in [Event -> Nat] /\ cur \in [Client -> Message \union {None}]
    OBVIOUS
  <2>4. pc \in [Client -> {"down", "added", "opening", "idle", "busy"}]
        /\ \A c \in Client : pc[c] # "busy"
    OBVIOUS
  <2> QED BY <2>1, <2>2, <2>3, <2>4 DEF TypeInv
<1>2. LaneInv
  <2> SUFFICES ASSUME NEW c \in Client
               PROVE  Lane(stored, Given(c), queue[c], line[c], pending)
    BY DEF LaneInv
  <2>1. Given(c) = <<>>
    BY DEF Given
  <2> QED BY <2>1, EmptyLane DEF Lane, Ahead, From
<1>3. OnceInv
  BY EmptyLane DEF OnceInv, Different
<1> QED BY <1>1, <1>2, <1>3 DEF Inv

\* What a step of the broker leaves alone keeps what the type says of it.
LEMMA BrokerTypes ==
  ASSUME TypeInv, UNCHANGED <<clientVars, scheduled, settled>>, durable' \in BOOLEAN,
         stored' \in Seq(Event), session' \in Client \union {Nobody},
         requests' \in [Client -> Seq(Request)],
         pending' \in Seq(Fresh), inflight' \subseteq SentOnce, sent' \in [Event -> Nat],
         line' \in [Client -> Seq(Message \union {Started})]
  PROVE  TypeInv'
BY DEF TypeInv, clientVars

\* An event that the stream holds already is published as a copy and ignored, so
\* a new one was never sent.
LEMMA PublishKeeps == ASSUME Inv, NEW e \in Event, Publish(e) PROVE Inv'
<1> USE DEF Inv
<1>1. /\ e \notin Range(stored) /\ stored' = Append(stored, e) /\ session' = session
      /\ UNCHANGED <<durable, scheduled, settled, requests, clientVars>>
      /\ stored \in Seq(Event) /\ pending \in Seq(Fresh)
  BY DEF Publish, TypeInv
<1>2. /\ stored' \in Seq(Event) /\ Len(stored') = Len(stored) + 1 /\ Len(stored) \in Nat
      /\ \A i \in 1..Len(stored) : stored'[i] = stored[i]
      /\ stored'[Len(stored) + 1] = e
  BY <1>1, AppendProperties, LenProperties
<1>3. \A i \in 1..Len(stored) : stored[i] # e
  BY <1>1, LenProperties DEF Range
<1>4. Different(stored')
  <2> SUFFICES ASSUME NEW m \in 1..Len(stored'), NEW n \in 1..Len(stored'),
                      stored'[m] = stored'[n]
               PROVE  m = n
    BY DEF Different
  <2>1. (m \in 1..Len(stored) \/ m = Len(stored) + 1)
        /\ (n \in 1..Len(stored) \/ n = Len(stored) + 1)
    BY <1>2
  <2> QED BY <1>2, <1>3, <2>1 DEF OnceInv, Different
<1>5. sent[e] = 0
  BY <1>3 DEF OnceInv
<1>6. EntryOf(e) \in Fresh /\ EntryOf(e).event = e
  BY Entries
<1>7. \A c \in Client :
          /\ Lane(stored', Given(c), queue[c], line[c], pending)
          /\ Lane(stored', Given(c), queue[c], line[c], Append(pending, EntryOf(e)))
  BY <1>1, <1>6, LanePublished DEF LaneInv
<1>8. \A i \in 1..Len(stored) : i \in 1..Len(stored')
  BY <1>2
<1>9. \A d \in Event : sent[d] <= 1
                       /\ (sent[d] # 0 => \E i \in 1..Len(stored') : stored'[i] = d)
  BY <1>2, <1>8 DEF OnceInv
<1>10. session' \in Client \union {Nobody} /\ durable' \in BOOLEAN
       /\ requests' \in [Client -> Seq(Request)]
       /\ inflight \in SUBSET SentOnce /\ sent \in [Event -> Nat]
       /\ line \in [Client -> Seq(Message \union {Started})]
  BY <1>1 DEF TypeInv
<1>11. CASE durable /\ e \notin settled
  <2>1. Pump(Append(pending, EntryOf(e)), inflight, <<>>)
    BY <1>11 DEF Publish
  <2>2. /\ Append(pending, EntryOf(e)) \in Seq(Fresh)
        /\ \A d : In(Append(pending, EntryOf(e)), d) => In(pending, d) \/ d = e
    BY <1>1, <1>6, AppendLane
  <2>3. \A d \in Event : In(Append(pending, EntryOf(e)), d) => sent[d] = 0
    BY <1>5, <2>2 DEF OnceInv
  <2>4. UNCHANGED <<queue, taken>>
    BY <1>1 DEF clientVars
  <2>5. /\ pending' \in Seq(Fresh) /\ inflight' \subseteq SentOnce /\ sent' \in [Event -> Nat]
        /\ line' \in [Client -> Seq(Message \union {Started})] /\ LaneInv' /\ OnceInv'
    BY <1>2, <1>4, <1>7, <1>9, <1>10, <2>1, <2>2, <2>3, <2>4, PumpKeeps
  <2> QED BY <1>1, <1>2, <1>10, <2>5, BrokerTypes
<1>12. CASE ~(durable /\ e \notin settled)
  <2>1. UNCHANGED <<pending, inflight, line, sent>>
    BY <1>12 DEF Publish
  <2>2. TypeInv'
    BY <1>1, <1>2, <1>10, <2>1, BrokerTypes
  <2>3. \A c \in Client : Given(c)' = Given(c) /\ queue'[c] = queue[c]
    BY <1>1 DEF Given, clientVars
  <2>4. LaneInv'
    BY <1>7, <2>1, <2>3 DEF LaneInv
  <2>5. OnceInv'
    BY <1>4, <1>9, <2>1 DEF OnceInv
  <2> QED BY <2>2, <2>4, <2>5
<1> QED BY <1>11, <1>12

LEMMA Requests ==
  ASSUME TypeInv, NEW c \in Client, NEW op, NextRequest(c, op)
  PROVE  /\ requests' \in [Client -> Seq(Request)]
         /\ op # "start" => Head(requests[c]).message \in Message
<1>1. /\ requests[c] \in Seq(Request) /\ requests[c] # <<>> /\ Head(requests[c]).op = op
      /\ requests' = [requests EXCEPT ![c] = Tail(@)]
  BY DEF NextRequest, TypeInv
<1>2. Tail(requests[c]) \in Seq(Request) /\ Head(requests[c]) \in Request
  BY <1>1, TailParts
<1>3. op # "start" => Head(requests[c]) \in [op : Verdicts, message : Message]
  BY <1>1, <1>2 DEF Request
<1> QED BY <1>1, <1>2, <1>3 DEF TypeInv

LEMMA HandleStartKeeps == ASSUME Inv, NEW c \in Client, HandleStart(c) PROVE Inv'
<1> USE DEF Inv
<1>1. /\ NextRequest(c, "start") /\ session' = c /\ Pump(pending, inflight, <<Started>>)
      /\ UNCHANGED <<durable, stored, scheduled, settled, clientVars>>
  BY DEF HandleStart
<1>2. requests' \in [Client -> Seq(Request)]
  BY <1>1, Requests
<1>3. /\ stored' \in Seq(Event) /\ session' \in Client \union {Nobody} /\ durable' \in BOOLEAN
      /\ pending \in Seq(Fresh) /\ inflight \in SUBSET SentOnce /\ Different(stored')
      /\ UNCHANGED <<queue, taken>>
  BY <1>1 DEF TypeInv, clientVars, OnceInv
<1>4. \A i \in Client : Lane(stored', Given(i), queue[i], line[i], pending)
  BY <1>1 DEF LaneInv
<1>5. \A e \in Event : /\ sent[e] <= 1
                       /\ sent[e] # 0 => \E i \in 1..Len(stored') : stored'[i] = e
                       /\ In(pending, e) => sent[e] = 0
  BY <1>1 DEF OnceInv
<1>6. /\ pending' \in Seq(Fresh) /\ inflight' \subseteq SentOnce /\ sent' \in [Event -> Nat]
      /\ line' \in [Client -> Seq(Message \union {Started})] /\ LaneInv' /\ OnceInv'
  BY <1>1, <1>3, <1>4, <1>5, PumpKeeps
<1> QED BY <1>1, <1>2, <1>3, <1>6, BrokerTypes

\* The broker has read a request or a timer that finds nothing.
LEMMA NothingFound ==
  ASSUME Inv, requests' \in [Client -> Seq(Request)],
         inflight' \subseteq inflight, scheduled' = {},
         UNCHANGED <<durable, stored, pending, settled, session, sent, line, clientVars>>
  PROVE  Inv'
<1> USE DEF Inv
<1>1. TypeInv'
  BY BrokerTypes DEF TypeInv
<1>2. \A c \in Client : Given(c)' = Given(c) /\ queue'[c] = queue[c]
  BY DEF Given, clientVars
<1>3. LaneInv'
  BY <1>2 DEF LaneInv
<1>4. OnceInv'
  BY DEF OnceInv
<1> QED BY <1>1, <1>3, <1>4

\* No settlement finds its entry (nats-emulator-server.js:151, 181): the client
\* answers under a key that no entry has.
LEMMA KeyedNothing ==
  ASSUME TypeInv, NEW c \in Client, Head(requests[c]).message \in Message
  PROVE  Keyed(c) = {}
BY Entries DEF Keyed, TypeInv

LEMMA HandleDoneKeeps == ASSUME Inv, NEW c \in Client, HandleDone(c) PROVE Inv'
<1> USE DEF Inv
<1>1. PICK op \in {"ack", "term"} : NextRequest(c, op)
  BY DEF HandleDone
<1>2. requests' \in [Client -> Seq(Request)] /\ Keyed(c) = {}
  BY <1>1, Requests, KeyedNothing
<1>3. UNCHANGED <<durable, stored, pending, inflight, scheduled, settled, session, sent, line, clientVars>>
  BY <1>2 DEF HandleDone
<1>4. inflight' \subseteq inflight /\ scheduled' = {}
  BY <1>3 DEF TypeInv
<1> QED BY <1>2, <1>3, <1>4, NothingFound

LEMMA HandleNakKeeps == ASSUME Inv, NEW c \in Client, HandleNak(c) PROVE Inv'
<1> USE DEF Inv
<1>1. NextRequest(c, "nak")
  BY DEF HandleNak
<1>2. requests' \in [Client -> Seq(Request)] /\ Keyed(c) = {}
  BY <1>1, Requests, KeyedNothing
<1>3. /\ UNCHANGED <<durable, stored, pending, settled, session, sent, line, clientVars>>
      /\ inflight' \subseteq inflight /\ scheduled' = {}
  BY <1>2 DEF HandleNak, TypeInv
<1> QED BY <1>2, <1>3, NothingFound

\* The ack wait of an entry ends for good (nats-emulator-server.js:171).
LEMMA TimerKeeps ==
  ASSUME Inv, NEW entry \in inflight \union scheduled, TimerFires(entry)
  PROVE  Inv'
<1> USE DEF Inv
<1>1. entry \in SentOnce /\ scheduled = {}
  BY DEF TypeInv
<1>2. ~LessThan(entry.count, MaxDeliver)
  BY <1>1, Numbers DEF SentOnce
<1>3. ~(entry \in scheduled \/ LessThan(entry.count, MaxDeliver))
  BY <1>1, <1>2
<1>4. /\ UNCHANGED <<durable, stored, pending, settled, session, sent, line, requests, clientVars>>
      /\ inflight' \subseteq inflight /\ scheduled' = {}
  BY <1>1, <1>3 DEF TimerFires
<1>5. requests' \in [Client -> Seq(Request)]
  BY <1>4 DEF TypeInv
<1> QED BY <1>4, <1>5, NothingFound

\* The broker is not involved, and no client is given anything.
LEMMA ClientSteps ==
  ASSUME Inv, UNCHANGED <<stored, pending, inflight, scheduled, settled, sent, taken>>,
         durable' \in BOOLEAN, session' \in Client \union {Nobody},
         line' \in [Client -> Seq(Message \union {Started})],
         requests' \in [Client -> Seq(Request)],
         pc' \in [Client -> {"down", "added", "opening", "idle", "busy"}],
         queue' \in [Client -> Seq(Message)], cur' \in [Client -> Message \union {None}],
         \A c \in Client : pc'[c] = "busy" => cur'[c] \in Message,
         \A c \in Client : Lane(stored, Given(c), queue'[c], line'[c], pending)
  PROVE  Inv'
<1> USE DEF Inv
<1>1. TypeInv'
  BY DEF TypeInv
<1>2. \A c \in Client : Given(c)' = Given(c)
  BY DEF Given
<1>3. LaneInv'
  BY <1>2 DEF LaneInv
<1>4. OnceInv'
  BY DEF OnceInv
<1> QED BY <1>1, <1>3, <1>4

LEMMA StartKeeps == ASSUME Inv, NEW c \in Client, Start(c) PROVE Inv'
BY ClientSteps DEF Inv, TypeInv, LaneInv, Start, socketVars

LEMMA ConsumeKeeps == ASSUME Inv, NEW c \in Client, Consume(c) PROVE Inv'
<1>1. [op |-> "start"] \in Request /\ requests[c] \in Seq(Request)
  BY DEF Inv, TypeInv, Request
<1>2. Append(requests[c], [op |-> "start"]) \in Seq(Request)
  BY <1>1, AppendProperties
<1>3. requests' \in [Client -> Seq(Request)]
  BY <1>2 DEF Consume, Inv, TypeInv
<1>4. /\ UNCHANGED <<stored, pending, inflight, scheduled, settled, sent, taken, durable, session,
                     queue, cur, line>>
      /\ pc' = [pc EXCEPT ![c] = "opening"]
  BY DEF Consume, brokerVars
<1> QED BY <1>3, <1>4, ClientSteps DEF Inv, TypeInv, LaneInv

LEMMA ReadLineKeeps == ASSUME Inv, NEW c \in Client, ReadLine(c) PROVE Inv'
<1> DEFINE Item == Message \union {Started}
<1>1. /\ line[c] # <<>> /\ line' = [line EXCEPT ![c] = Tail(@)]
      /\ UNCHANGED <<stored, pending, inflight, scheduled, settled, sent, taken, durable, session,
                     cur, requests>>
  BY DEF ReadLine, brokerVars
<1>2. line \in [Client -> Seq(Item)] /\ queue \in [Client -> Seq(Message)]
  BY DEF Inv, TypeInv
<1>3. Tail(line[c]) \in Seq(Item) /\ Head(line[c]) \in Item
  BY <1>1, <1>2, TailParts
<1>4. line' \in [Client -> Seq(Item)]
  BY <1>1, <1>2, <1>3
<1>5. Message \subseteq Item /\ queue[c] \in Seq(Item)
  <2>1. Message \subseteq Item /\ queue[c] \in Seq(Message)
    BY <1>2
  <2> QED BY <2>1, LenProperties, ElementOfSeq
<1>6. \A i \in Client : Lane(stored, Given(i), queue[i], line[i], pending)
  BY DEF Inv, LaneInv
<1>7. Head(line[c]) # Started => Head(line[c]) \in Message
  BY <1>3
<1> HIDE DEF Item
<1>8. /\ Lane(stored, Given(c), queue[c], Tail(line[c]), pending)
      /\ Head(line[c]) # Started =>
            Lane(stored, Given(c), Append(queue[c], Head(line[c])), Tail(line[c]), pending)
  BY <1>1, <1>2, <1>5, <1>6, LaneReads
<1>9. CASE Head(line[c]) = Started
  <2>1. pc' = [pc EXCEPT ![c] = "idle"] /\ queue' = queue
    BY <1>9 DEF ReadLine
  <2>2. \A i \in Client : Lane(stored, Given(i), queue'[i], line'[i], pending)
    BY <1>1, <1>2, <1>6, <1>8, <2>1
  <2>3. /\ pc' \in [Client -> {"down", "added", "opening", "idle", "busy"}]
        /\ \A i \in Client : pc'[i] = "busy" => cur'[i] \in Message
    BY <1>1, <2>1 DEF Inv, TypeInv
  <2> QED BY <1>1, <1>4, <2>1, <2>2, <2>3, ClientSteps DEF Inv, TypeInv, Item
<1>10. CASE Head(line[c]) # Started
  <2>1. pc' = pc /\ queue' = IF Listening(c)
                             THEN [queue EXCEPT ![c] = Append(@, Head(line[c]))] ELSE queue
    BY <1>10 DEF ReadLine
  <2>2. Append(queue[c], Head(line[c])) \in Seq(Message)
    BY <1>2, <1>7, <1>10, AppendProperties
  <2>3. queue' \in [Client -> Seq(Message)]
    BY <1>2, <2>1, <2>2
  <2>4. \A i \in Client : Lane(stored, Given(i), queue'[i], line'[i], pending)
    BY <1>1, <1>2, <1>6, <1>8, <1>10, <2>1
  <2> QED BY <1>1, <1>4, <2>1, <2>3, <2>4, ClientSteps DEF Inv, TypeInv, Item
<1> QED BY <1>9, <1>10

LEMMA TakeKeeps == ASSUME Inv, NEW c \in Client, Take(c) PROVE Inv'
<1> DEFINE m == Head(queue[c])
<1>1. /\ queue[c] # <<>> /\ cur' = [cur EXCEPT ![c] = m]
      /\ queue' = [queue EXCEPT ![c] = Tail(@)]
      /\ taken' = [taken EXCEPT ![c] = Append(@, m.event)]
      /\ pc' = [pc EXCEPT ![c] = "busy"]
      /\ UNCHANGED <<brokerVars, socketVars>>
  BY DEF Take
<1>2. queue \in [Client -> Seq(Message)] /\ taken \in [Client -> Seq(Event)]
  BY DEF Inv, TypeInv
<1>3. m \in Message /\ Tail(queue[c]) \in Seq(Message)
  BY <1>1, <1>2, TailParts
<1>4. m.event \in Event /\ m # Started
  BY <1>3, Entries DEF Message
<1> HIDE DEF m
<1>5. Append(taken[c], m.event) \in Seq(Event)
  BY <1>2, <1>4, AppendProperties
<1>6. TypeInv'
  BY <1>1, <1>2, <1>3, <1>5 DEF Inv, TypeInv, brokerVars, socketVars
<1>7. \A i \in Client : /\ Len(taken[i]) \in Nat /\ Given(i) \in Seq(Entry)
                        /\ Len(Given(i)) = Len(taken[i])
  <2> SUFFICES ASSUME NEW i \in Client
               PROVE  /\ Len(taken[i]) \in Nat /\ Given(i) \in Seq(Entry)
                      /\ Len(Given(i)) = Len(taken[i])
    OBVIOUS
  <2>1. Len(taken[i]) \in Nat /\ \A j \in 1..Len(taken[i]) : taken[i][j] \in Event
    BY <1>2, LenProperties, ElementOfSeq
  <2>2. \A j \in 1..Len(taken[i]) : EntryOf(taken[i][j]) \in Entry
    BY <2>1, Entries
  <2> QED BY <2>1, <2>2 DEF Given
<1>8. Given(c)' = Append(Given(c), EntryOf(m.event))
  <2>1. taken'[c] = Append(taken[c], m.event)
    BY <1>1, <1>2
  <2>2. /\ Len(taken'[c]) = Len(taken[c]) + 1
        /\ \A i \in 1..Len(taken[c]) : taken'[c][i] = taken[c][i]
        /\ taken'[c][Len(taken[c]) + 1] = m.event
    BY <1>2, <1>4, <2>1, AppendProperties
  <2>3. Given(c)' = [i \in 1..(Len(taken[c]) + 1) |-> EntryOf(taken'[c][i])]
    BY <2>2 DEF Given
  <2>4. \A i \in 1..(Len(taken[c]) + 1) :
            EntryOf(taken'[c][i]) = IF i = Len(taken[c]) + 1 THEN EntryOf(m.event) ELSE Given(c)[i]
    <3> SUFFICES ASSUME NEW i \in 1..(Len(taken[c]) + 1)
                 PROVE  EntryOf(taken'[c][i]) = IF i = Len(taken[c]) + 1
                                                THEN EntryOf(m.event) ELSE Given(c)[i]
      OBVIOUS
    <3>1. i = Len(taken[c]) + 1 \/ (i # Len(taken[c]) + 1 /\ i \in 1..Len(taken[c]))
      BY <1>7
    <3>2. i \in 1..Len(taken[c]) => Given(c)[i] = EntryOf(taken[c][i])
      BY DEF Given
    <3> QED BY <2>2, <3>1, <3>2
  <2>5. Append(Given(c), EntryOf(m.event))
           = [i \in 1..(Len(taken[c]) + 1) |->
                 IF i = Len(taken[c]) + 1 THEN EntryOf(m.event) ELSE Given(c)[i]]
    BY <1>7
  <2> QED BY <2>3, <2>4, <2>5
<1>9. EntryOf(m.event) \in Entry /\ EntryOf(m.event).event = m.event
  BY <1>4, Entries
<1>10. ASSUME NEW i \in Client
       PROVE  Lane(stored', Given(i)', queue'[i], line'[i], pending')
  <2>1. Lane(stored, Given(i), queue[i], line[i], pending)
    BY DEF Inv, LaneInv
  <2>2. stored' = stored /\ line' = line /\ pending' = pending
    BY <1>1 DEF brokerVars, socketVars
  <2>3. CASE i # c
    <3>1. taken'[i] = taken[i] /\ queue'[i] = queue[i]
      BY <1>1, <2>3
    <3>2. Given(i)' = Given(i)
      BY <3>1 DEF Given
    <3> QED BY <2>1, <2>2, <3>1, <3>2
  <2>4. CASE i = c
    <3> DEFINE S == Entry \union Message
    <3>1. queue[c] \in Seq(S) /\ Given(c) \in Seq(S) /\ EntryOf(m.event) \in S
      <4>1. queue[c] \in Seq(Message) /\ Given(c) \in Seq(Entry)
        BY <1>2, <1>7
      <4>2. queue[c] \in Seq(S)
        BY <4>1, LenProperties, ElementOfSeq
      <4>3. Given(c) \in Seq(S)
        BY <4>1, LenProperties, ElementOfSeq
      <4> QED BY <1>9, <4>2, <4>3
    <3> HIDE DEF S
    <3>2. Lane(stored, Append(Given(c), EntryOf(m.event)), Tail(queue[c]), line[c], pending)
      BY <1>1, <1>4, <1>9, <2>1, <2>4, <3>1, LaneTakes DEF m
    <3>3. queue'[c] = Tail(queue[c])
      BY <1>1, <1>2
    <3> QED BY <1>8, <2>2, <2>4, <3>2, <3>3
  <2> QED BY <2>3, <2>4
<1>11. LaneInv'
  BY <1>10 DEF LaneInv
<1>12. OnceInv'
  BY <1>1 DEF Inv, OnceInv, brokerVars
<1> QED BY <1>6, <1>11, <1>12 DEF Inv

LEMMA AnswerKeeps == ASSUME Inv, NEW c \in Client, Answer(c) PROVE Inv'
<1>1. /\ pc[c] = "busy" /\ pc' = [pc EXCEPT ![c] = "idle"] /\ cur' = [cur EXCEPT ![c] = None]
      /\ UNCHANGED <<stored, pending, inflight, scheduled, settled, sent, taken, durable, session,
                     queue, line>>
  BY DEF Answer, brokerVars
<1>2. cur[c] \in Message /\ requests \in [Client -> Seq(Request)]
  BY <1>1 DEF Inv, TypeInv
<1>3. \A v \in Verdicts : Append(requests[c], [op |-> v, message |-> cur[c]]) \in Seq(Request)
  <2> SUFFICES ASSUME NEW v \in Verdicts
               PROVE  Append(requests[c], [op |-> v, message |-> cur[c]]) \in Seq(Request)
    OBVIOUS
  <2>1. [op |-> v, message |-> cur[c]] \in Request
    BY <1>2 DEF Request
  <2> QED BY <1>2, <2>1, AppendProperties
<1>4. requests' \in [Client -> Seq(Request)]
  <2>1. CASE UNCHANGED requests
    BY <1>2, <2>1
  <2>2. CASE \E v \in Verdicts :
                requests' = [requests EXCEPT ![c] = Append(@, [op |-> v, message |-> cur[c]])]
    BY <1>2, <1>3, <2>2
  <2> QED BY <2>1, <2>2 DEF Answer
<1>5. /\ pc' \in [Client -> {"down", "added", "opening", "idle", "busy"}]
      /\ cur' \in [Client -> Message \union {None}]
      /\ \A i \in Client : pc'[i] = "busy" => cur'[i] \in Message
  BY <1>1 DEF Inv, TypeInv
<1> QED BY <1>1, <1>4, <1>5, ClientSteps DEF Inv, TypeInv, LaneInv

LEMMA CrashKeeps == ASSUME Inv, NEW c \in Client, Crash(c) PROVE Inv'
<1>1. /\ pc' = [pc EXCEPT ![c] = "down"] /\ queue' = [queue EXCEPT ![c] = <<>>]
      /\ cur' = [cur EXCEPT ![c] = None] /\ line' = [line EXCEPT ![c] = <<>>]
      /\ requests' = [requests EXCEPT ![c] = <<>>]
      /\ session' = IF session = c THEN Nobody ELSE session
      /\ UNCHANGED <<durable, stored, pending, inflight, scheduled, settled, sent, taken>>
  BY DEF Crash
<1>2. \A S : <<>> \in Seq(S)
  OBVIOUS
<1>3. /\ line' \in [Client -> Seq(Message \union {Started})]
      /\ requests' \in [Client -> Seq(Request)] /\ queue' \in [Client -> Seq(Message)]
  BY <1>1, <1>2 DEF Inv, TypeInv
<1>4. /\ pc' \in [Client -> {"down", "added", "opening", "idle", "busy"}]
      /\ cur' \in [Client -> Message \union {None}]
      /\ session' \in Client \union {Nobody}
      /\ \A i \in Client : pc'[i] = "busy" => cur'[i] \in Message
  BY <1>1 DEF Inv, TypeInv
<1>5. ASSUME NEW i \in Client PROVE Lane(stored, Given(i), queue'[i], line'[i], pending)
  <2>1. Lane(stored, Given(i), queue[i], line[i], pending)
    BY DEF Inv, LaneInv
  <2>2. /\ i # c => queue'[i] = queue[i] /\ line'[i] = line[i]
        /\ i = c => queue'[i] = <<>> /\ line'[i] = <<>>
    BY <1>1 DEF Inv, TypeInv
  <2> QED BY <2>1, <2>2, LaneCrashes
<1>6. durable' \in BOOLEAN
  BY <1>1 DEF Inv, TypeInv
<1> QED BY <1>1, <1>3, <1>4, <1>5, <1>6, ClientSteps

LEMMA Steps == ASSUME Inv, [Next]_vars PROVE Inv'
<1>1. CASE UNCHANGED vars
  <2>1. /\ UNCHANGED <<stored, pending, inflight, scheduled, settled, sent, taken, durable, session,
                       line, requests, pc, queue, cur>>
    BY <1>1 DEF vars, brokerVars, clientVars, socketVars
  <2> QED BY <2>1, ClientSteps DEF Inv, TypeInv, LaneInv
<1>2. ASSUME NEW e \in Event, Publish(e) PROVE Inv'
  BY <1>2, PublishKeeps
<1>3. ASSUME NEW c \in Client, Handle(c) PROVE Inv'
  BY <1>3, HandleStartKeeps, HandleDoneKeeps, HandleNakKeeps DEF Handle
<1>4. ASSUME NEW c \in Client, Proceed(c) PROVE Inv'
  BY <1>4, StartKeeps, ConsumeKeeps, ReadLineKeeps, TakeKeeps, AnswerKeeps DEF Proceed
<1>5. ASSUME NEW c \in Client, Crash(c) PROVE Inv'
  BY <1>5, CrashKeeps
<1>6. CASE Timer
  BY <1>6, TimerKeeps DEF Timer
<1> QED BY <1>1, <1>2, <1>3, <1>4, <1>5, <1>6 DEF Next

LEMMA Always == SafeSpec => []Inv
BY Inits, Steps, PTL DEF SafeSpec

----------------------------------------------------------------------------
(* The theorems.                                                           *)

\* The state of the emulator, of its sockets and of the shim is what the code
\* keeps there (nats-emulator-server.js:43-66, nats-shim.js:60-69).
THEOREM EmulatorTypeCorrect == SafeSpec => []TypeOK
<1>1. \A S, s : s \in Seq(S) => Range(s) \subseteq S
  BY LenProperties, ElementOfSeq DEF Range
<1>2. ASSUME Inv PROVE TypeOK
  <2>1. TypeInv
    BY <1>2 DEF Inv
  <2>2. Range(stored) \subseteq Event /\ Range(pending) \subseteq Fresh
    BY <1>1, <2>1 DEF TypeInv
  <2>3. Range(pending) \subseteq Entry /\ inflight \subseteq Entry /\ scheduled \subseteq Entry
        /\ settled \subseteq Event
    BY <2>1, <2>2, Entries DEF TypeInv
  <2>4. ASSUME NEW c \in Client
        PROVE  /\ Range(line[c]) \subseteq Message \union {Started}
               /\ Range(requests[c]) \subseteq Request /\ Range(queue[c]) \subseteq Message
               /\ Range(taken[c]) \subseteq Event
    <3>1. /\ line[c] \in Seq(Message \union {Started}) /\ requests[c] \in Seq(Request)
          /\ queue[c] \in Seq(Message) /\ taken[c] \in Seq(Event)
      BY <2>1 DEF TypeInv
    <3> QED BY <1>1, <3>1
  <2>5. /\ durable \in BOOLEAN /\ session \in Client \union {Nobody} /\ sent \in [Event -> Nat]
        /\ \A c \in Client : /\ pc[c] \in {"down", "added", "opening", "idle", "busy"}
                             /\ cur[c] \in Message \union {None}
    BY <2>1 DEF TypeInv
  <2> QED BY <2>2, <2>3, <2>4, <2>5 DEF TypeOK
<1> QED BY <1>2, Always, PTL

\* Each client is given the events in the order of the stream, whoever else had
\* the session in between (nats-emulator-server.js:151-159).
THEOREM DemoKeepsOrder == SafeSpec => []InOrder
<1>1. ASSUME Inv PROVE InOrder
  <2> SUFFICES ASSUME NEW c \in Client, NEW i \in 1..Len(taken[c]), NEW j \in 1..Len(taken[c]),
                      i < j
               PROVE  Before(stored, taken[c][i], taken[c][j])
    BY DEF InOrder, Before
  <2>1. taken[c] \in Seq(Event) /\ Rises(stored, Given(c))
    BY <1>1 DEF Inv, TypeInv, LaneInv, Lane
  <2>2. Len(taken[c]) \in Nat /\ taken[c][i] \in Event /\ taken[c][j] \in Event
    BY <2>1, LenProperties, ElementOfSeq
  <2>3. Len(Given(c)) = Len(taken[c])
    BY <2>2 DEF Given
  <2>4. /\ Given(c)[i] # Started /\ Given(c)[i].event = taken[c][i]
        /\ Given(c)[j] # Started /\ Given(c)[j].event = taken[c][j]
    BY <2>2, Entries DEF Given
  <2> QED BY <2>1, <2>3, <2>4 DEF Rises
<1> QED BY <1>1, Always, PTL

=============================================================================
