--------------------------- MODULE DesktopFreshProofs ---------------------------
(***************************************************************************)
(* That the window is up to date when all threads have come to rest, on    *)
(* top of the invariant IInv of DesktopProofs.                             *)
(*                                                                         *)
(* What is shown is decided by the last of several answers, so the         *)
(* invariant FInv speaks of the order of what is under way.  The window    *)
(* asks for the search worker, that worker asks the count worker, both     *)
(* answer into one channel: while a request of a kind is left, the last of *)
(* them has the present settings; when none is left, the last answer has;  *)
(* when no answer is left either, what is shown has (Decided).  Only the   *)
(* last request of the search channel is of the search that is expected    *)
(* (Searching).  While a change of the data is still to be told the window *)
(* will search again, so nothing need be fresh (Renewal); otherwise all    *)
(* answers of the expected generation and all that is shown are of the     *)
(* data as they are, and the cache of counts is so too or the request to   *)
(* clear it is on its way (Fresh).                                         *)
(*                                                                         *)
(* The proof has one lemma for each answer the window takes in, one for    *)
(* each click, and one for each thread.  At rest all channels are empty,   *)
(* and what FInv says of what is shown is all that is left.                *)
(***************************************************************************)
EXTENDS DesktopProofs, SequencesExt
----------------------------------------------------------------------------
(* The order of what is under way: the last item of a kind decides.        *)

\* Channel s has an item that is in P.
Has(s, P) == ToSet(s) \cap P # {}

\* The last item of s that is in P, if there is one, is in Q.
LastIs(s, P, Q) ==
    \A i \in DOMAIN s : s[i] \in P /\ (\A j \in DOMAIN s : j > i => s[j] \notin P) => s[i] \in Q

\* The last request in P is in Q; when none is left, the last answer in R is in S; and when none
\* of these is left, what is shown is settled.
Decided(reqs, P, Q, ms, R, S, shown) ==
    /\ LastIs(reqs, P, Q)
    /\ Has(reqs, P) \/ (LastIs(ms, R, S) /\ (Has(ms, R) \/ shown))

\* Channels by position.
LEMMA Positions ==
    ASSUME NEW T, NEW s \in Seq(T)
    PROVE  /\ Len(s) \in Nat /\ DOMAIN s = 1..Len(s)
           /\ s = <<>> <=> Len(s) = 0
           /\ \A e \in T : /\ Len(Append(s, e)) = Len(s) + 1
                           /\ DOMAIN Append(s, e) = 1..(Len(s) + 1)
                           /\ Append(s, e)[Len(s) + 1] = e
                           /\ \A i \in 1..Len(s) : Append(s, e)[i] = s[i]
           /\ s # <<>> => /\ Len(Tail(s)) = Len(s) - 1
                          /\ DOMAIN Tail(s) = 1..(Len(s) - 1)
                          /\ Head(s) = s[1] /\ s[1] \in T
                          /\ \A i \in 1..(Len(s) - 1) : Tail(s)[i] = s[i + 1]
           /\ \A t \in Seq(T) : /\ DOMAIN (s \o t) = 1..(Len(s) + Len(t))
                                /\ \A i \in 1..Len(s) : (s \o t)[i] = s[i]
                                /\ \A i \in 1..Len(t) : (s \o t)[Len(s) + i] = t[i]
<1>1. Len(s) \in Nat /\ DOMAIN s = 1..Len(s) /\ (s = <<>> <=> Len(s) = 0)
    OBVIOUS
<1>2. \A e \in T : /\ Append(s, e) \in Seq(T) /\ Len(Append(s, e)) = Len(s) + 1
                   /\ Append(s, e)[Len(s) + 1] = e
                   /\ \A i \in 1..Len(s) : Append(s, e)[i] = s[i]
    BY AppendProperties
<1>3. \A e \in T : DOMAIN Append(s, e) = 1..(Len(s) + 1)
    BY <1>2
<1>4. s # <<>> => /\ Len(Tail(s)) = Len(s) - 1 /\ Tail(s) \in Seq(T)
                  /\ Head(s) = s[1] /\ s[1] \in T
                  /\ \A i \in 1..(Len(s) - 1) : Tail(s)[i] = s[i + 1]
    BY HeadTailProperties, <1>1
<1>5. s # <<>> => DOMAIN Tail(s) = 1..(Len(s) - 1)
    BY <1>4
<1>6. \A t \in Seq(T) : /\ DOMAIN (s \o t) = 1..(Len(s) + Len(t))
                        /\ \A i \in 1..Len(s) : (s \o t)[i] = s[i]
                        /\ \A i \in 1..Len(t) : (s \o t)[Len(s) + i] = t[i]
    OBVIOUS
<1> QED
    BY <1>1, <1>2, <1>3, <1>4, <1>5, <1>6

\* What is in a channel to which an item is appended.
LEMMA ItemsAppended ==
    ASSUME NEW T, NEW s \in Seq(T), NEW e \in T
    PROVE  ToSet(Append(s, e)) = ToSet(s) \cup {e}
<1>1. /\ Len(s) \in Nat /\ DOMAIN s = 1..Len(s) /\ DOMAIN Append(s, e) = 1..(Len(s) + 1)
      /\ Append(s, e)[Len(s) + 1] = e
      /\ \A i \in 1..Len(s) : Append(s, e)[i] = s[i]
    BY Positions
<1>2. ASSUME NEW x PROVE x \in ToSet(Append(s, e)) <=> x \in ToSet(s) \cup {e}
    <2>1. x \in ToSet(Append(s, e)) <=> \E i \in 1..(Len(s) + 1) : Append(s, e)[i] = x
        BY <1>1 DEF ToSet
    <2>2. x \in ToSet(s) <=> \E i \in 1..Len(s) : s[i] = x
        BY <1>1 DEF ToSet
    <2>3. \A i : i \in 1..(Len(s) + 1) <=> i \in 1..Len(s) \/ i = Len(s) + 1
        BY <1>1
    <2> QED
        BY <1>1, <2>1, <2>2, <2>3
<1> QED
    BY <1>2

\* What is in a channel of one item.
LEMMA ItemsOne ==
    ASSUME NEW e
    PROVE  ToSet(<<e>>) = {e}
<1>1. DOMAIN <<e>> = {1} /\ <<e>>[1] = e
    OBVIOUS
<1> QED
    BY <1>1 DEF ToSet

\* What is in a channel in which another one follows.
LEMMA ItemsJoined ==
    ASSUME NEW T, NEW s \in Seq(T), NEW t \in Seq(T)
    PROVE  ToSet(s \o t) = ToSet(s) \cup ToSet(t)
<1>1. ASSUME NEW x PROVE x \in ToSet(s \o t) <=> x \in ToSet(s) \cup ToSet(t)
    <2>1. /\ Len(s) \in Nat /\ Len(t) \in Nat /\ DOMAIN s = 1..Len(s) /\ DOMAIN t = 1..Len(t)
          /\ DOMAIN (s \o t) = 1..(Len(s) + Len(t))
          /\ \A i \in 1..Len(s) : (s \o t)[i] = s[i]
          /\ \A i \in 1..Len(t) : (s \o t)[Len(s) + i] = t[i]
        BY Positions
    <2>2. x \in ToSet(s \o t) <=> \E i \in 1..(Len(s) + Len(t)) : (s \o t)[i] = x
        BY <2>1 DEF ToSet
    <2>3. x \in ToSet(s) <=> \E i \in 1..Len(s) : s[i] = x
        BY <2>1 DEF ToSet
    <2>4. x \in ToSet(t) <=> \E i \in 1..Len(t) : t[i] = x
        BY <2>1 DEF ToSet
    <2>5. \A i \in 1..(Len(s) + Len(t)) :
              i \in 1..Len(s) \/ (i - Len(s) \in 1..Len(t) /\ Len(s) + (i - Len(s)) = i)
        BY <2>1
    <2>6. \A i \in 1..Len(s) : i \in 1..(Len(s) + Len(t))
        BY <2>1
    <2>7. \A i \in 1..Len(t) : Len(s) + i \in 1..(Len(s) + Len(t))
        BY <2>1
    <2> QED
        BY <2>1, <2>2, <2>3, <2>4, <2>5, <2>6, <2>7
<1> QED
    BY <1>1

\* What is in a channel from which an item is taken.
LEMMA ItemsTaken ==
    ASSUME NEW T, NEW s \in Seq(T), s # <<>>
    PROVE  ToSet(s) = {Head(s)} \cup ToSet(Tail(s))
<1>1. ASSUME NEW x PROVE x \in ToSet(s) <=> x \in {Head(s)} \cup ToSet(Tail(s))
    <2>1. /\ Len(s) \in Nat /\ Len(s) # 0 /\ DOMAIN s = 1..Len(s) /\ DOMAIN Tail(s) = 1..(Len(s) - 1)
          /\ Head(s) = s[1] /\ \A i \in 1..(Len(s) - 1) : Tail(s)[i] = s[i + 1]
        BY Positions
    <2>2. x \in ToSet(s) <=> \E i \in 1..Len(s) : s[i] = x
        BY <2>1 DEF ToSet
    <2>3. x \in ToSet(Tail(s)) <=> \E i \in 1..(Len(s) - 1) : s[i + 1] = x
        BY <2>1 DEF ToSet
    <2>4. \A i : i \in 1..Len(s) => i = 1 \/ (i - 1 \in 1..(Len(s) - 1) /\ (i - 1) + 1 = i)
        BY <2>1
    <2>5. \A i \in 1..(Len(s) - 1) : i + 1 \in 1..Len(s)
        BY <2>1
    <2>6. 1 \in 1..Len(s)
        BY <2>1
    <2> QED
        BY <2>1, <2>2, <2>3, <2>4, <2>5, <2>6
<1> QED
    BY <1>1

\* What is in a channel, and an empty one.
LEMMA ItemsOf ==
    ASSUME NEW T, NEW s \in Seq(T)
    PROVE  /\ ToSet(<<>>) = {} /\ ToSet(s) \subseteq T
           /\ s # <<>> => s[Len(s)] \in ToSet(s)
<1>1. ToSet(<<>>) = {}
    BY DEF ToSet
<1>2. ToSet(s) \subseteq T
    BY DEF ToSet
<1>3. s # <<>> => s[Len(s)] \in ToSet(s)
    <2>1. s # <<>> => Len(s) \in DOMAIN s
        BY Positions
    <2> QED
        BY <2>1 DEF ToSet
<1> QED
    BY <1>1, <1>2, <1>3

\* A message that is told is a channel of one message appended.
LEMMA OneMore ==
    ASSUME NEW T, NEW s \in Seq(T), NEW e \in T
    PROVE  <<e>> \in Seq(T) /\ Append(s, e) = s \o <<e>>
<1>1. <<e>> \in Seq(T)
    OBVIOUS
<1>2. Append(s, e) = s \o <<e>>
    BY AppendIsConcat
<1> QED
    BY <1>1, <1>2

\* A request or an answer that leads to what is asked may follow.
LEMMA LastOfAppended ==
    ASSUME NEW T, NEW s \in Seq(T), NEW t \in Seq(T), NEW P, NEW Q, LastIs(s, P, Q),
           ToSet(t) \cap P \subseteq Q
    PROVE  LastIs(s \o t, P, Q) /\ (Has(s \o t, P) <=> Has(s, P) \/ Has(t, P))
<1>1. /\ Len(s) \in Nat /\ Len(t) \in Nat /\ DOMAIN s = 1..Len(s) /\ DOMAIN t = 1..Len(t)
      /\ DOMAIN (s \o t) = 1..(Len(s) + Len(t))
      /\ \A i \in 1..Len(s) : (s \o t)[i] = s[i]
      /\ \A i \in 1..Len(t) : (s \o t)[Len(s) + i] = t[i]
    BY Positions
<1>2. SUFFICES ASSUME NEW i \in 1..(Len(s) + Len(t)), (s \o t)[i] \in P,
                      \A j \in 1..(Len(s) + Len(t)) : j > i => (s \o t)[j] \notin P
               PROVE  (s \o t)[i] \in Q
    <2>1. ToSet(s \o t) = ToSet(s) \cup ToSet(t)
        BY ItemsJoined
    <2>2. Has(s \o t, P) <=> Has(s, P) \/ Has(t, P)
        BY <2>1 DEF Has
    <2> QED
        BY <1>1, <2>2 DEF LastIs
<1>3. CASE i \in 1..Len(s)
    <2>1. \A j \in 1..Len(s) : j \in 1..(Len(s) + Len(t))
        BY <1>1
    <2>2. \A j \in 1..Len(s) : j > i => s[j] \notin P
        BY <1>1, <1>2, <2>1
    <2> QED
        BY <1>1, <1>2, <1>3, <2>2 DEF LastIs
<1>4. CASE i - Len(s) \in 1..Len(t)
    <2>1. Len(s) + (i - Len(s)) = i
        BY <1>1
    <2>2. (s \o t)[i] = t[i - Len(s)]
        BY <1>1, <1>4, <2>1
    <2>3. t[i - Len(s)] \in ToSet(t)
        BY <1>1, <1>4 DEF ToSet
    <2> QED
        BY <1>2, <2>2, <2>3
<1> QED
    BY <1>1, <1>3, <1>4

\* One more item.
LEMMA LastOfOneMore ==
    ASSUME NEW T, NEW s \in Seq(T), NEW e \in T, NEW P, NEW Q, LastIs(s, P, Q), e \in P => e \in Q
    PROVE  LastIs(Append(s, e), P, Q) /\ (Has(Append(s, e), P) <=> Has(s, P) \/ e \in P)
<1>1. <<e>> \in Seq(T) /\ Append(s, e) = s \o <<e>>
    BY OneMore
<1>2. ToSet(<<e>>) = {e}
    BY ItemsOne
<1>3. ToSet(<<e>>) \cap P \subseteq Q
    BY <1>2
<1>4. LastIs(s \o <<e>>, P, Q)
    BY <1>1, <1>3, LastOfAppended
<1>5. LastIs(Append(s, e), P, Q)
    BY <1>1, <1>4, Zenon
<1>6. Has(Append(s, e), P) <=> Has(s, P) \/ e \in P
    BY ItemsAppended DEF Has
<1> QED
    BY <1>5, <1>6

\* What is taken from a channel leaves the last item what it was, or was it itself.
LEMMA LastOfTail ==
    ASSUME NEW T, NEW s \in Seq(T), NEW P, NEW Q, LastIs(s, P, Q), s # <<>>
    PROVE  /\ LastIs(Tail(s), P, Q)
           /\ Has(s, P) => Has(Tail(s), P) \/ Head(s) \in P
           /\ Head(s) \in P => Has(Tail(s), P) \/ Head(s) \in Q
           /\ Has(Tail(s), P) => Has(s, P)
<1>1. /\ Len(s) \in Nat /\ Len(s) # 0 /\ DOMAIN s = 1..Len(s) /\ DOMAIN Tail(s) = 1..(Len(s) - 1)
      /\ Head(s) = s[1] /\ \A i \in 1..(Len(s) - 1) : Tail(s)[i] = s[i + 1]
    BY Positions
<1>2. ToSet(s) = {Head(s)} \cup ToSet(Tail(s))
    BY ItemsTaken
<1>3. ASSUME NEW i \in 1..(Len(s) - 1), Tail(s)[i] \in P,
             \A j \in 1..(Len(s) - 1) : j > i => Tail(s)[j] \notin P
      PROVE  Tail(s)[i] \in Q
    <2>1. i + 1 \in 1..Len(s) /\ s[i + 1] \in P
        BY <1>1, <1>3
    <2>2. ASSUME NEW j \in 1..Len(s), j > i + 1 PROVE s[j] \notin P
        <3>1. j - 1 \in 1..(Len(s) - 1) /\ j - 1 > i /\ (j - 1) + 1 = j
            BY <1>1, <2>2
        <3>2. Tail(s)[j - 1] \notin P /\ Tail(s)[j - 1] = s[(j - 1) + 1]
            BY <1>1, <1>3, <3>1
        <3> QED
            BY <3>1, <3>2
    <2> QED
        BY <1>1, <2>1, <2>2 DEF LastIs
<1>4. ASSUME Head(s) \in P, ~Has(Tail(s), P) PROVE Head(s) \in Q
    <2>1. ASSUME NEW j \in 1..Len(s), j > 1 PROVE s[j] \notin P
        <3>1. j - 1 \in 1..(Len(s) - 1) /\ (j - 1) + 1 = j
            BY <1>1, <2>1
        <3>2. s[j] \in ToSet(Tail(s))
            BY <1>1, <3>1 DEF ToSet
        <3> QED
            BY <1>4, <3>2 DEF Has
    <2>2. 1 \in 1..Len(s)
        BY <1>1
    <2> QED
        BY <1>1, <1>4, <2>1, <2>2 DEF LastIs
<1> QED
    BY <1>1, <1>2, <1>3, <1>4 DEF LastIs, Has

\* Nothing of the kind is under way.
LEMMA DecidedNew ==
    ASSUME NEW T, NEW U, NEW reqs \in Seq(T), NEW ms \in Seq(U), NEW P, NEW Q, NEW R, NEW S, NEW shown,
           ToSet(reqs) \cap P = {}, ToSet(ms) \cap R = {}, shown
    PROVE  Decided(reqs, P, Q, ms, R, S, shown)
<1>1. \A i \in DOMAIN reqs : reqs[i] \notin P
    BY DEF ToSet
<1>2. \A i \in DOMAIN ms : ms[i] \notin R
    BY DEF ToSet
<1> QED
    BY <1>1, <1>2 DEF Decided, LastIs

\* Requests are sent, of what is asked now; what is shown may go.
LEMMA DecidedSend ==
    ASSUME NEW T, NEW reqs \in Seq(T), NEW more \in Seq(T), NEW P, NEW Q, NEW ms, NEW R, NEW S,
           NEW shown, NEW after, Decided(reqs, P, Q, ms, R, S, shown), ToSet(more) \cap P \subseteq Q,
           shown => after
    PROVE  Decided(reqs \o more, P, Q, ms, R, S, after)
<1>1. LastIs(reqs \o more, P, Q) /\ (Has(reqs \o more, P) <=> Has(reqs, P) \/ Has(more, P))
    BY LastOfAppended DEF Decided
<1> QED
    BY <1>1 DEF Decided

\* A request is asked last: it settles the matter.
LEMMA DecidedAnew ==
    ASSUME NEW T, NEW reqs \in Seq(T), NEW req \in T, NEW P, NEW Q, NEW ms, NEW R, NEW S,
           NEW shown, req \in P, req \in Q
    PROVE  Decided(Append(reqs, req), P, Q, ms, R, S, shown)
<1>1. /\ Len(reqs) \in Nat /\ DOMAIN Append(reqs, req) = 1..(Len(reqs) + 1)
      /\ Append(reqs, req)[Len(reqs) + 1] = req
    BY Positions
<1>2. ToSet(Append(reqs, req)) = ToSet(reqs) \cup {req}
    BY ItemsAppended
<1>3. ASSUME NEW i \in 1..(Len(reqs) + 1),
             \A j \in 1..(Len(reqs) + 1) : j > i => Append(reqs, req)[j] \notin P
      PROVE  i = Len(reqs) + 1
    BY <1>1, <1>3
<1>4. LastIs(Append(reqs, req), P, Q)
    BY <1>1, <1>3 DEF LastIs
<1> QED
    BY <1>2, <1>4 DEF Decided, Has

\* A request is answered: what is asked now is answered so.
LEMMA DecidedServe ==
    ASSUME NEW T, NEW U, NEW reqs \in Seq(T), NEW ms \in Seq(U), NEW m \in U, NEW P, NEW Q, NEW R, NEW S,
           NEW shown, Decided(reqs, P, Q, ms, R, S, shown), reqs # <<>>,
           Head(reqs) \in P <=> m \in R, Head(reqs) \in Q => m \in S
    PROVE  Decided(Tail(reqs), P, Q, Append(ms, m), R, S, shown)
<1>1. /\ LastIs(Tail(reqs), P, Q)
      /\ Has(reqs, P) => Has(Tail(reqs), P) \/ Head(reqs) \in P
      /\ Head(reqs) \in P => Has(Tail(reqs), P) \/ Head(reqs) \in Q
    BY LastOfTail DEF Decided
<1>2. CASE Has(Tail(reqs), P)
    BY <1>1, <1>2 DEF Decided
<1>3. CASE ~Has(Tail(reqs), P) /\ Head(reqs) \in P
    <2>1. m \in R /\ m \in S
        BY <1>1, <1>3
    <2>2. /\ Len(ms) \in Nat /\ DOMAIN Append(ms, m) = 1..(Len(ms) + 1)
          /\ Append(ms, m)[Len(ms) + 1] = m
        BY Positions
    <2>3. ToSet(Append(ms, m)) = ToSet(ms) \cup {m}
        BY ItemsAppended
    <2>4. ASSUME NEW i \in 1..(Len(ms) + 1), \A j \in 1..(Len(ms) + 1) : j > i => Append(ms, m)[j] \notin R
          PROVE  i = Len(ms) + 1
        BY <2>1, <2>2, <2>4
    <2>5. LastIs(Append(ms, m), R, S)
        BY <2>1, <2>2, <2>4 DEF LastIs
    <2> QED
        BY <1>1, <2>1, <2>3, <2>5 DEF Decided, Has
<1>4. CASE ~Has(Tail(reqs), P) /\ Head(reqs) \notin P
    <2>1. ~Has(reqs, P) /\ m \notin R /\ LastIs(ms, R, S) /\ (Has(ms, R) \/ shown)
        BY <1>1, <1>4 DEF Decided
    <2>2. LastIs(Append(ms, m), R, S) /\ (Has(Append(ms, m), R) <=> Has(ms, R) \/ m \in R)
        BY <2>1, LastOfOneMore
    <2> QED
        BY <1>1, <2>1, <2>2 DEF Decided
<1> QED
    BY <1>2, <1>3, <1>4

\* Somebody else's message arrives, or a late one with the same news.
LEMMA DecidedTell ==
    ASSUME NEW U, NEW ms \in Seq(U), NEW m \in U, NEW reqs, NEW P, NEW Q, NEW R, NEW S,
           NEW shown, Decided(reqs, P, Q, ms, R, S, shown), m \in R => m \in S
    PROVE  Decided(reqs, P, Q, Append(ms, m), R, S, shown)
<1>1. CASE Has(reqs, P)
    BY <1>1 DEF Decided
<1>2. CASE ~Has(reqs, P)
    <2>1. LastIs(ms, R, S) /\ (Has(ms, R) \/ shown)
        BY <1>2 DEF Decided
    <2>2. LastIs(Append(ms, m), R, S) /\ (Has(Append(ms, m), R) <=> Has(ms, R) \/ m \in R)
        BY <2>1, LastOfOneMore
    <2> QED
        BY <2>1, <2>2 DEF Decided
<1> QED
    BY <1>1, <1>2

\* The window takes a message in: the last of its kind settles what is shown.
LEMMA DecidedHear ==
    ASSUME NEW U, NEW ms \in Seq(U), NEW reqs, NEW P, NEW Q, NEW R, NEW S,
           NEW shown, NEW after, Decided(reqs, P, Q, ms, R, S, shown), ms # <<>>,
           Head(ms) \in R /\ Head(ms) \in S => after, Head(ms) \notin R /\ shown => after
    PROVE  Decided(reqs, P, Q, Tail(ms), R, S, after)
<1>1. CASE Has(reqs, P)
    BY <1>1 DEF Decided
<1>2. CASE ~Has(reqs, P)
    <2>1. LastIs(ms, R, S) /\ (Has(ms, R) \/ shown)
        BY <1>2 DEF Decided
    <2>2. /\ LastIs(Tail(ms), R, S)
          /\ Has(ms, R) => Has(Tail(ms), R) \/ Head(ms) \in R
          /\ Head(ms) \in R => Has(Tail(ms), R) \/ Head(ms) \in S
        BY <2>1, LastOfTail
    <2> QED
        BY <2>1, <2>2 DEF Decided
<1> QED
    BY <1>1, <1>2
----------------------------------------------------------------------------
(* What holds of the windows, channels and workers as long as nothing has  *)
(* failed.  a is the window, ms its channel of answers, c the count        *)
(* worker, d the database.                                                 *)

\* How many pages there are of query q, and an item of a kind of the expected generation.
PagesIn(d, q) == IF d.empty THEN 0 ELSE Pages[q]
OfGen(a, kind, m) == m.kind = kind /\ m.gen = a.gen

\* The search that is under way: its request is the last in the channel; then the window waits
\* for its page, and for its count, which the count worker has as its last request or is at.
Searching(a, ms, c) ==
    /\ \A i \in 1..Len(a.searchTx) : OfGen(a, "Search", a.searchTx[i]) <=> i = Len(a.searchTx)
    /\ a.searchTx # <<>> =>
        /\ \A m \in ToSet(c.rx) : ~OfGen(a, "Count", m)
        /\ c.at # None => c.at.gen # a.gen
        /\ \A m \in ToSet(ms) : ~OfGen(a, "SearchPage", m) /\ ~OfGen(a, "SearchCount", m)
    /\ a.total = None /\ ~a.counting =>
        /\ a.rows = None /\ a.searchTx = <<>>
        /\ \A m \in ToSet(ms) : ~OfGen(a, "SearchPage", m)
    /\ a.searching => a.searchTx # <<>> \/ \E m \in ToSet(ms) : OfGen(a, "SearchPage", m)
    /\ a.counting =>
        \/ a.searchTx # <<>>
        \/ c.rx # <<>> /\ OfGen(a, "Count", c.rx[Len(c.rx)])
        \/ c.at # None /\ c.at.gen = a.gen
        \/ \E m \in ToSet(ms) : OfGen(a, "SearchCount", m)

\* Every section that is loaded or under way has as many rows as are asked for now.
Limited(a, ms) ==
    ~a.overtaken =>
        /\ \A m \in ToSet(a.analyticsTx) : OfGen(a, "Analytics", m) => m.limit = a.limit
        /\ \A m \in ToSet(ms) : OfGen(a, "AnalyticsDone", m) => m.limit = a.limit
        /\ a.analytics # None =>
              \A s \in a.loaded \cap Scopes : a.analytics.sections[s].limit = a.limit

\* Requests and answers of generation g whose settings a click may have changed meanwhile.
ProductsAsked(g) ==
    [kind : {"Analytics"}, query : Asked, scope : {"Products"}, limit : Limits, level : Levels,
     gen : {g}]
ProductsFound(g) ==
    [kind : {"AnalyticsDone"}, gen : {g}, query : Asked, at : Versions, scope : {"Products"},
     limit : Limits, level : Levels]

\* The products that are asked for last have the level that is chosen.
Leveled(a, ms) ==
    ~a.turned =>
        Decided(a.analyticsTx, ProductsAsked(a.gen), {m \in ProductsAsked(a.gen) : m.level = a.level},
                ms, ProductsFound(a.gen), {m \in ProductsFound(a.gen) : m.level = a.level},
                a.analytics # None /\ "Products" \in a.loaded =>
                    a.analytics.sections["Products"].level = a.level)

\* The same of pivots.
PivotAsked(g) == [kind : {"Pivot"}, query : Asked, dims : Dims, gen : {g}]
PivotFound(g) == [kind : {"PivotDone"}, gen : {g}, query : Asked, at : Versions, dims : Dims]

\* The pivot that is asked for last has the dimensions that are chosen.
Pivoted(a, ms) ==
    ~a.turned =>
        Decided(a.analyticsTx, PivotAsked(a.gen), {m \in PivotAsked(a.gen) : m.dims = a.dims},
                ms, PivotFound(a.gen), {m \in PivotFound(a.gen) : m.dims = a.dims},
                a.pivot # None => a.pivot.dims = a.dims)

\* Item m is the one that the explorer waits for.
OfExplorer(e, kind, m) == m.kind = kind /\ m.gen = e.gen /\ m.section = e.kind

\* The groups that the explorer waits for are under way.
Grouped(a, ms) ==
    a.explorer # None /\ a.explorer.rows = None =>
        \/ \E m \in ToSet(a.analyticsTx) : OfExplorer(a.explorer, "Section", m)
        \/ \E m \in ToSet(ms) : OfExplorer(a.explorer, "SectionDone", m)

\* Until the startup has been told nothing is started, and what it tells is so.
Starting(a, ms, st, os, d) ==
    /\ st = "running" \/ (\E m \in ToSet(ms) : m.kind = "StartupDone") => ~a.ready /\ os = <<>>
    /\ \A i \in 1..Len(ms) : ms[i].kind = "StartupDone" =>
          /\ st # "running" /\ ms[i].at = d.version /\ ms[i].empty = d.empty
          /\ \A j \in 1..Len(ms) : ms[j].kind = "StartupDone" => i = j

\* A change of the data has been made, or may be, after which the window searches again.
Renewal(ms, os) ==
    \/ \E i \in DOMAIN os : os[i].at = "running" /\ os[i].kind \in {"Import", "Repair", "Clear"}
    \/ \E m \in ToSet(ms) : m.kind \in {"ImportDone", "DbCleared"}

\* Answer m to what is asked now is of the data as they are.
FreshAnswer(a, d, m) ==
    /\ /\ m.kind \in {"SearchPage", "SearchCount", "AnalyticsDone", "PivotDone", "SectionDone"}
       /\ m.gen = a.gen
       => m.at = d.version
    /\ OfGen(a, "SearchPage", m) => (m.none <=> PagesIn(d, m.query) <= m.page)
    /\ OfGen(a, "SearchCount", m) => m.pages = PagesIn(d, m.query)
    /\ m.kind = "SectionDone" /\ a.explorer # None /\ m.gen = a.explorer.gen => m.at = d.version
    /\ m.kind = "UnderpricingDone" /\ m.gen = a.underpricing.gen => m.at = d.version

\* What is shown is of the data as they are.
FreshShown(a, d) ==
    /\ a.total # None => a.total.at = d.version /\ a.total.pages = PagesIn(d, a.total.query)
    /\ a.analytics # None =>
          /\ a.analytics.base.at = d.version
          /\ \A s \in a.loaded \cap Scopes : a.analytics.sections[s].at = d.version
    /\ a.pivot # None => a.pivot.at = d.version
    /\ a.explorer # None /\ a.explorer.rows # None => a.explorer.rows.at = d.version
    /\ a.underpricing.shown # None => a.underpricing.shown.at = d.version
    /\ a.ready /\ ~a.searching => IF a.rows = None THEN d.empty ELSE a.rows.at = d.version

\* The cache of the count worker is of the data as they are.
FreshCache(c, d) == c.cache # None => c.cache.at = d.version /\ c.cache.pages = PagesIn(d, c.cache.query)

\* What the window expects, what it shows, and what the count worker is at.
FreshNow(a, ms, c, d) ==
    /\ \A m \in ToSet(ms) : FreshAnswer(a, d, m)
    /\ FreshShown(a, d)
    /\ c.at # None /\ c.at.gen = a.gen => FreshCache(c, d)

\* Requests and answers that are statistics.
StatsAsked == [kind : {"Stats"}]
StatsFound == [kind : {"Stats"}, at : Versions]

\* The last statistics that are asked for are of the data as they are.
Counted(a, ms, d) ==
    Decided(a.searchTx, StatsAsked, StatsAsked, ms, StatsFound, {m \in StatsFound : m.at = d.version},
            a.ready => a.dbTotal = d.version)

\* The cache of the count worker is of the data as they are, or it will be told to clear it.
Cached(a, c, d) ==
    \/ FreshCache(c, d)
    \/ \E m \in ToSet(a.searchTx) : m.kind = "Stats"
    \/ \E m \in ToSet(c.rx) : m.kind = "ClearCache"

\* Everything is of the data as they are, or will be.
Fresh(a, ms, c, d) == FreshNow(a, ms, c, d) /\ Counted(a, ms, d) /\ Cached(a, c, d)

\* What is under way has the present settings.
Asking(a, ms) == Limited(a, ms) /\ Leveled(a, ms) /\ Pivoted(a, ms) /\ Grouped(a, ms)

\* Without a failure no worker has ended.
Alive == search # "dead" /\ analyst # "dead" /\ count.worker # "dead"

\* The invariant, of all behaviours in which nothing has failed.
FInv ==
    faults = 0 =>
        /\ Alive
        /\ Starting(app, messages, startup, ops, data)
        /\ Searching(app, messages, count)
        /\ Asking(app, messages)
        /\ ~Renewal(messages, ops) => Fresh(app, messages, count, data)

\* Without a failure an answer that the window takes in is of one of these kinds.
LEMMA KindsOfAnswers ==
    ASSUME NEW a, NEW m \in Answers(a, 0)
    PROVE  /\ m.kind \in {"SearchPage", "SearchCount", "AnalyticsDone", "SectionDone", "PivotDone",
                          "UnderpricingDone", "ProfileDone", "CompareDone", "StartupDone", "Stats",
                          "ImportDone", "DbCleared", "ExportDone", "MaintenanceDone", "Fatal"}
           /\ m.kind = "SearchPage" => m \in PagesFound(a)
           /\ m.kind = "SearchCount" => m \in CountsFound(a)
           /\ m.kind = "AnalyticsDone" => m \in ScopesFound(a)
           /\ m.kind = "SectionDone" => m \in GroupsFound(a)
           /\ m.kind = "PivotDone" => m \in PivotsFound(a)
           /\ m.kind = "UnderpricingDone" => m \in ScansFound(a)
           /\ m.kind = "StartupDone" => m \in Starts
           /\ m.kind = "Stats" => m \in StatsFound
<1>1. /\ m \in PagesFound(a) => m.kind = "SearchPage"
      /\ m \in CountsFound(a) => m.kind = "SearchCount"
      /\ m \in ScopesFound(a) => m.kind = "AnalyticsDone"
    BY DEF PagesFound, CountsFound, ScopesFound
<1>2. /\ m \in GroupsFound(a) => m.kind = "SectionDone"
      /\ m \in PivotsFound(a) => m.kind = "PivotDone"
      /\ m \in ScansFound(a) => m.kind = "UnderpricingDone"
    BY DEF GroupsFound, PivotsFound, ScansFound
<1>3. /\ m \in DossiersFound(a) => m.kind = "ProfileDone"
      /\ m \in ComparisonsFound => m.kind = "CompareDone"
      /\ m \in Starts => m.kind = "StartupDone"
    BY DEF DossiersFound, ComparisonsFound, Starts
<1>4. /\ m \in News => m.kind = "ImportDone" \/ (m.kind = "Stats" /\ m \in StatsFound)
      /\ m \in Ends => m.kind \in {"DbCleared", "ExportDone", "MaintenanceDone", "Fatal"}
    BY DEF News, Ends, StatsFound
<1>5. m \notin Errors(0) /\ m \notin FailedStarts(0)
    BY DEF Errors, FailedStarts
<1> QED
    BY <1>1, <1>2, <1>3, <1>4, <1>5 DEF Answers, Found, Notices

\* What the window may do to itself while it asks the analytics worker, or nothing: it drops what
\* it shows, opens the explorer for groups it asks for, and makes a scan under way stale.
Asks(a, b, reqs) ==
    /\ b.ready = a.ready /\ b.gen = a.gen /\ b.searchTx = a.searchTx /\ b.dbTotal = a.dbTotal
    /\ b.searching = a.searching /\ b.counting = a.counting /\ b.rows = a.rows /\ b.total = a.total
    /\ b.analytics = a.analytics /\ b.turned = a.turned
    /\ b.loaded \subseteq a.loaded /\ b.pivot \in {a.pivot, None}
    /\ \/ b.explorer \in {a.explorer, None}
       \/ /\ b.explorer.gen = a.gen /\ b.explorer.rows = None
          /\ \E m \in ToSet(reqs) : OfExplorer(b.explorer, "Section", m)
    /\ \/ b.underpricing = a.underpricing
       \/ b.underpricing.gen = a.underpricing.gen + 1 /\ b.underpricing.shown = None
    /\ a.analyticsTx \in Seq(Analyses(b)) /\ reqs \in Seq(Analyses(b))
    /\ b.analyticsTx = a.analyticsTx \o reqs
    /\ \A m \in ToSet(reqs) :
          /\ m.kind = "Analytics" => m.limit = b.limit /\ m.level = b.level
          /\ m.kind = "Pivot" => m.dims = b.dims

\* What is in the channel of the analytics worker after it was asked.
LEMMA ItemsAsked ==
    ASSUME NEW a, NEW b, NEW reqs, Asks(a, b, reqs)
    PROVE  ToSet(b.analyticsTx) = ToSet(a.analyticsTx) \cup ToSet(reqs)
BY ItemsJoined DEF Asks

\* Asking for analytics leaves the search under way.
LEMMA AsksSearching ==
    ASSUME NEW a, NEW b, NEW reqs, Asks(a, b, reqs), NEW ms, NEW c, Searching(a, ms, c)
    PROVE  Searching(b, ms, c)
<1>1. /\ b.gen = a.gen /\ b.searchTx = a.searchTx /\ b.searching = a.searching
      /\ b.counting = a.counting /\ b.rows = a.rows /\ b.total = a.total
    BY DEF Asks
<1>2. \A k, m : OfGen(b, k, m) <=> OfGen(a, k, m)
    BY <1>1 DEF OfGen
<1> QED
    BY <1>1, <1>2, Zenon DEF Searching

\* A request is made with the limit that is chosen.
LEMMA AsksLimited ==
    ASSUME NEW a, NEW b, NEW reqs, Asks(a, b, reqs), NEW ms, Limited(a, ms),
           b.limit = a.limit, b.overtaken = a.overtaken
    PROVE  Limited(b, ms)
<1>1. b.gen = a.gen /\ b.analytics = a.analytics /\ b.loaded \subseteq a.loaded
    BY DEF Asks
<1>2. \A k, m : OfGen(b, k, m) <=> OfGen(a, k, m)
    BY <1>1 DEF OfGen
<1>3. \A m \in ToSet(reqs) : m.kind = "Analytics" => m.limit = a.limit
    BY DEF Asks
<1>4. ToSet(b.analyticsTx) = ToSet(a.analyticsTx) \cup ToSet(reqs)
    BY ItemsAsked
<1>5. ~a.overtaken => \A m \in ToSet(b.analyticsTx) : OfGen(b, "Analytics", m) => m.limit = b.limit
    BY <1>2, <1>3, <1>4 DEF Limited, OfGen
<1> QED
    BY <1>1, <1>2, <1>5 DEF Limited

\* A request is made with the level that is chosen.
LEMMA AsksLeveled ==
    ASSUME NEW a, NEW b, NEW reqs, Asks(a, b, reqs), NEW ms, Leveled(a, ms), b.level = a.level
    PROVE  Leveled(b, ms)
<1> DEFINE P == ProductsAsked(a.gen)
           Q == {m \in ProductsAsked(a.gen) : m.level = a.level}
           R == ProductsFound(a.gen)
           S == {m \in ProductsFound(a.gen) : m.level = a.level}
           shown == a.analytics # None /\ "Products" \in a.loaded =>
                        a.analytics.sections["Products"].level = a.level
           after == b.analytics # None /\ "Products" \in b.loaded =>
                        b.analytics.sections["Products"].level = b.level
<1>1. /\ b.gen = a.gen /\ b.analytics = a.analytics /\ b.loaded \subseteq a.loaded
      /\ b.turned = a.turned /\ b.analyticsTx = a.analyticsTx \o reqs
      /\ a.analyticsTx \in Seq(Analyses(b)) /\ reqs \in Seq(Analyses(b))
    BY DEF Asks
<1>2. shown => after
    BY <1>1
<1>3. ToSet(reqs) \cap P \subseteq Q
    BY DEF Asks, ProductsAsked
<1>4. ~a.turned => Decided(a.analyticsTx, P, Q, ms, R, S, shown)
    BY DEF Leveled
<1> HIDE DEF P, Q, R, S, shown, after
<1>5. ~a.turned => Decided(a.analyticsTx \o reqs, P, Q, ms, R, S, after)
    BY <1>1, <1>2, <1>3, <1>4, DecidedSend
<1>6. ~b.turned => Decided(b.analyticsTx, P, Q, ms, R, S, after)
    BY <1>1, <1>5
<1> QED
    BY <1>1, <1>6, Zenon DEF Leveled, P, Q, R, S, after

\* A pivot is asked for with the dimensions that are chosen.
LEMMA AsksPivoted ==
    ASSUME NEW a, NEW b, NEW reqs, Asks(a, b, reqs), NEW ms, Pivoted(a, ms), b.dims = a.dims
    PROVE  Pivoted(b, ms)
<1> DEFINE P == PivotAsked(a.gen)
           Q == {m \in PivotAsked(a.gen) : m.dims = a.dims}
           R == PivotFound(a.gen)
           S == {m \in PivotFound(a.gen) : m.dims = a.dims}
           shown == a.pivot # None => a.pivot.dims = a.dims
           after == b.pivot # None => b.pivot.dims = b.dims
<1>1. /\ b.gen = a.gen /\ b.pivot \in {a.pivot, None}
      /\ b.turned = a.turned /\ b.analyticsTx = a.analyticsTx \o reqs
      /\ a.analyticsTx \in Seq(Analyses(b)) /\ reqs \in Seq(Analyses(b))
    BY DEF Asks
<1>2. shown => after
    BY <1>1
<1>3. ToSet(reqs) \cap P \subseteq Q
    BY DEF Asks, PivotAsked
<1>4. ~a.turned => Decided(a.analyticsTx, P, Q, ms, R, S, shown)
    BY DEF Pivoted
<1> HIDE DEF P, Q, R, S, shown, after
<1>5. ~a.turned => Decided(a.analyticsTx \o reqs, P, Q, ms, R, S, after)
    BY <1>1, <1>2, <1>3, <1>4, DecidedSend
<1>6. ~b.turned => Decided(b.analyticsTx, P, Q, ms, R, S, after)
    BY <1>1, <1>5
<1> QED
    BY <1>1, <1>6, Zenon DEF Pivoted, P, Q, R, S, after

\* An explorer that is opened has asked for its groups.
LEMMA AsksGrouped ==
    ASSUME NEW a, NEW b, NEW reqs, Asks(a, b, reqs), NEW ms, Grouped(a, ms)
    PROVE  Grouped(b, ms)
<1>1. ToSet(b.analyticsTx) = ToSet(a.analyticsTx) \cup ToSet(reqs)
    BY ItemsAsked
<1>2. CASE b.explorer \in {a.explorer, None}
    BY <1>1, <1>2 DEF Grouped
<1>3. CASE \E m \in ToSet(reqs) : OfExplorer(b.explorer, "Section", m)
    BY <1>1, <1>3 DEF Grouped
<1> QED
    BY <1>2, <1>3 DEF Asks

\* Answers under way stay of the data as they are.
LEMMA AsksFresh ==
    ASSUME NEW a, NEW b, NEW reqs, Asks(a, b, reqs), NEW ms \in Seq(Answers(a, 0)), NEW c, NEW d,
           a.underpricing.gen \in Nat, Fresh(a, ms, c, d)
    PROVE  Fresh(b, ms, c, d)
<1>1. /\ b.ready = a.ready /\ b.gen = a.gen /\ b.searchTx = a.searchTx /\ b.dbTotal = a.dbTotal
      /\ b.searching = a.searching /\ b.rows = a.rows /\ b.total = a.total
      /\ b.analytics = a.analytics
      /\ b.loaded \subseteq a.loaded /\ b.pivot \in {a.pivot, None}
    BY DEF Asks
<1>2. b.explorer \in {a.explorer, None} \/ (b.explorer.gen = a.gen /\ b.explorer.rows = None)
    BY DEF Asks
<1>3. \/ b.underpricing = a.underpricing
      \/ b.underpricing.gen = a.underpricing.gen + 1 /\ b.underpricing.shown = None
    BY DEF Asks
<1>4. FreshShown(a, d) /\ (\A m \in ToSet(ms) : FreshAnswer(a, d, m))
    BY DEF Fresh, FreshNow
<1>5. FreshShown(b, d)
    BY <1>1, <1>2, <1>3, <1>4 DEF FreshShown
<1>6. ASSUME NEW m \in ToSet(ms) PROVE FreshAnswer(b, d, m)
    <2>1. m \in Answers(a, 0)
        BY ItemsOf
    <2>2. m.kind = "UnderpricingDone" => m.gen \in Nat /\ m.gen <= a.underpricing.gen
        BY <2>1, KindsOfAnswers DEF ScansFound, OfScan
    <2>3. FreshAnswer(a, d, m)
        BY <1>4
    <2>4. m.kind = "UnderpricingDone" /\ m.gen = b.underpricing.gen => m.at = d.version
        BY <1>3, <2>2, <2>3 DEF FreshAnswer
    <2>5. m.kind = "SectionDone" /\ b.explorer # None /\ m.gen = b.explorer.gen => m.at = d.version
        BY <1>1, <1>2, <2>3 DEF FreshAnswer
    <2> QED
        BY <1>1, <2>3, <2>4, <2>5 DEF FreshAnswer, OfGen
<1>7. c.at # None /\ c.at.gen = b.gen => FreshCache(c, d)
    BY <1>1 DEF Fresh, FreshNow
<1>8. Counted(b, ms, d)
    BY <1>1 DEF Fresh, Counted
<1>9. Cached(b, c, d)
    BY <1>1 DEF Fresh, Cached
<1> QED
    BY <1>5, <1>6, <1>7, <1>8, <1>9 DEF Fresh, FreshNow

\* The fields that a window may change while it only asks.
Moved == {"typed", "tab", "view", "busy", "loading", "compare", "profile", "dossier", "pivot", "loaded",
          "explorer", "underpricing", "analyticsTx", "level", "limit", "dims", "overtaken"}

Quiet(a, b) ==
    /\ IsWindow(b) /\ \A x \in Fields \ Moved : b[x] = a[x]
    /\ b.loaded \subseteq a.loaded /\ b.pivot \in {a.pivot, None} /\ b.analyticsTx = a.analyticsTx
    /\ \/ b.underpricing = a.underpricing
       \/ b.underpricing.gen = a.underpricing.gen + 1 /\ b.underpricing.shown = None

\* What the requests and answers under way are judged by is left as it is.
Kept(a, b) == b.level = a.level /\ b.limit = a.limit /\ b.overtaken = a.overtaken /\ b.dims = a.dims

\* What follows in a channel is of what the channel carries.
LEMMA JoinedChannel ==
    ASSUME NEW S, NEW U, NEW T, NEW s \in Seq(S), NEW t \in Seq(U), s \o t \in Seq(T)
    PROVE  t \in Seq(T)
<1>1. \A i \in 1..Len(t) : (s \o t)[Len(s) + i] = t[i] /\ Len(s) + i \in 1..Len(s \o t)
    OBVIOUS
<1>2. \A i \in 1..Len(t) : t[i] \in T
    BY <1>1
<1> QED
    BY <1>2

\* A channel without a request in it is empty.
LEMMA NothingFollows ==
    ASSUME NEW T, NEW s \in Seq(T)
    PROVE  s \o <<>> = s /\ <<>> \in Seq(T) /\ ToSet(<<>>) = {}
BY DEF ToSet

\* A window in which a few settings changed has asked for nothing.
LEMMA QuietAsks ==
    ASSUME NEW a, NEW b, NEW f \in Nat, Good(a, f), Carries(a, b), Quiet(a, b),
           b.explorer \in {a.explorer, None}
    PROVE  Asks(a, b, <<>>)
<1>1. /\ b.ready = a.ready /\ b.gen = a.gen /\ b.searchTx = a.searchTx /\ b.dbTotal = a.dbTotal
      /\ b.searching = a.searching /\ b.counting = a.counting /\ b.rows = a.rows /\ b.total = a.total
      /\ b.analytics = a.analytics /\ b.turned = a.turned
    BY DEF Quiet, Fields, Moved
<1>2. a.analyticsTx \in Seq(Analyses(b))
    BY WiderChannel DEF Good, Sent, Carries
<1>3. <<>> \in Seq(Analyses(b)) /\ a.analyticsTx \o <<>> = a.analyticsTx /\ ToSet(<<>>) = {}
    BY <1>2, NothingFollows
<1>4. \A m \in ToSet(<<>>) :
          /\ m.kind = "Analytics" => m.limit = b.limit /\ m.level = b.level
          /\ m.kind = "Pivot" => m.dims = b.dims
    BY <1>3
<1> HIDE DEF Good, Carries
<1> QED
    BY <1>1, <1>2, <1>3, <1>4 DEF Asks, Quiet

\* The window that asks the analytics worker differs in that channel.
LEMMA AskedAnalyst ==
    ASSUME NEW b, IsWindow(b), NEW reqs
    PROVE  /\ IsWindow(AskAnalyst(b, reqs)) /\ AskAnalyst(b, reqs).analyticsTx = b.analyticsTx \o reqs
           /\ \A x \in Fields \ {"analyticsTx"} : AskAnalyst(b, reqs)[x] = b[x]
<1>1. IsWindow(AskAnalyst(b, reqs)) /\ \A x \in Fields \ {"analyticsTx"} : AskAnalyst(b, reqs)[x] = b[x]
    BY DEF IsWindow, AskAnalyst
<1>2. AskAnalyst(b, reqs).analyticsTx = b.analyticsTx \o reqs
    BY DEF IsWindow, Fields, AskAnalyst
<1> QED
    BY <1>1, <1>2

\* A window that asks the analytics worker, of what is chosen.
LEMMA WindowAsks ==
    ASSUME NEW a, NEW b, NEW f \in Nat, Good(a, f), Quiet(a, b), NEW T, NEW reqs \in Seq(T),
           Good(AskAnalyst(b, reqs), f), Carries(a, AskAnalyst(b, reqs)),
           \/ b.explorer \in {a.explorer, None}
           \/ /\ b.explorer.gen = a.gen /\ b.explorer.rows = None
              /\ \E m \in ToSet(reqs) : OfExplorer(b.explorer, "Section", m),
           \A m \in ToSet(reqs) :
              /\ m.kind = "Analytics" => m.limit = b.limit /\ m.level = b.level
              /\ m.kind = "Pivot" => m.dims = b.dims
    PROVE  Asks(a, AskAnalyst(b, reqs), reqs) /\ Kept(b, AskAnalyst(b, reqs))
<1> DEFINE e == AskAnalyst(b, reqs)
<1>1. /\ IsWindow(e) /\ e.analyticsTx = b.analyticsTx \o reqs
      /\ \A x \in Fields \ {"analyticsTx"} : e[x] = b[x]
    BY AskedAnalyst DEF Quiet
<1>2. a.analyticsTx \in Seq(Analyses(e)) /\ e.analyticsTx \in Seq(Analyses(e))
    BY WiderChannel DEF Good, Sent, Carries
<1> HIDE DEF e
<1>3. e.analyticsTx = a.analyticsTx \o reqs
    BY <1>1 DEF Quiet
<1>4. reqs \in Seq(Analyses(e))
    BY <1>2, <1>3, JoinedChannel
<1>5. /\ b.ready = a.ready /\ b.gen = a.gen /\ b.searchTx = a.searchTx /\ b.dbTotal = a.dbTotal
      /\ b.searching = a.searching /\ b.counting = a.counting /\ b.rows = a.rows /\ b.total = a.total
      /\ b.analytics = a.analytics /\ b.turned = a.turned
    BY DEF Quiet, Fields, Moved
<1>6. /\ e.ready = b.ready /\ e.gen = b.gen /\ e.searchTx = b.searchTx /\ e.dbTotal = b.dbTotal
      /\ e.searching = b.searching /\ e.counting = b.counting /\ e.rows = b.rows /\ e.total = b.total
      /\ e.analytics = b.analytics /\ e.turned = b.turned
    BY <1>1 DEF Fields
<1>7. /\ e.explorer = b.explorer /\ e.underpricing = b.underpricing /\ e.pivot = b.pivot
      /\ e.loaded = b.loaded /\ Kept(b, e)
    BY <1>1 DEF Fields, Kept
<1>8. /\ e.loaded \subseteq a.loaded /\ e.pivot \in {a.pivot, None}
      /\ \/ e.underpricing = a.underpricing
         \/ e.underpricing.gen = a.underpricing.gen + 1 /\ e.underpricing.shown = None
    BY <1>7 DEF Quiet
<1>9. \A m \in ToSet(reqs) :
          /\ m.kind = "Analytics" => m.limit = e.limit /\ m.level = e.level
          /\ m.kind = "Pivot" => m.dims = e.dims
    BY <1>7 DEF Kept
<1>10. Asks(a, e, reqs)
    <2> HIDE DEF Good, Carries, Kept
    <2> QED
        BY <1>2, <1>3, <1>4, <1>5, <1>6, <1>7, <1>8, <1>9 DEF Asks
<1> QED
    BY <1>7, <1>10 DEF e

\* A window asks, and what is chosen stays.
Only(a, b) == (\E reqs : Asks(a, b, reqs)) /\ Kept(a, b)

\* A window asks for nothing.
LEMMA OnlyItself ==
    ASSUME NEW a, NEW f \in Nat, Good(a, f)
    PROVE  Only(a, a)
<1>1. Quiet(a, a) /\ Carries(a, a) /\ a.explorer \in {a.explorer, None}
    BY DEF Quiet, Good, Carries
<1>2. Asks(a, a, <<>>)
    BY <1>1, QuietAsks
<1> QED
    BY <1>2 DEF Only, Kept

\* Scopes are asked for with the limit and the level that are chosen.
LEMMA RequestScopesAsks ==
    ASSUME NEW a, NEW f \in Nat, Good(a, f), NEW scopes \in Seq(Scopes \cup {None})
    PROVE  Only(a, RequestScopes(a, scopes))
<1> DEFINE b == [a EXCEPT !.loading = TRUE]
           reqs == [i \in DOMAIN scopes |-> ScopeRequest(a, scopes[i])]
           T == {ScopeRequest(a, s) : s \in Scopes \cup {None}}
<1>1. CASE scopes = <<>>
    BY <1>1, OnlyItself DEF RequestScopes
<1>2. CASE scopes # <<>>
    <2>1. IsWindow(b) /\ \A x \in Fields \ {"loading"} : b[x] = a[x]
        BY DEF Good, IsWindow
    <2>2. RequestScopes(a, scopes) = AskAnalyst(b, reqs)
        BY <1>2 DEF RequestScopes
    <2>3. Good(AskAnalyst(b, reqs), f) /\ Carries(a, AskAnalyst(b, reqs))
        BY <2>2, RequestScopesKeeps
    <2>4. reqs \in Seq(T)
        OBVIOUS
    <2>5. \A m \in T : m.kind = "Analytics" /\ m.limit = a.limit /\ m.level = a.level
        BY DEF ScopeRequest
    <2>6. \A m \in ToSet(reqs) : m \in T
        BY <2>4, ItemsOf
    <2> HIDE DEF b, reqs, T
    <2>7. /\ b.loaded = a.loaded /\ b.pivot = a.pivot /\ b.analyticsTx = a.analyticsTx
          /\ b.underpricing = a.underpricing /\ b.explorer = a.explorer /\ Kept(a, b)
        BY <2>1 DEF Fields, Kept
    <2>8. \A x \in Fields \ Moved : b[x] = a[x]
        BY <2>1 DEF Moved
    <2>9. Quiet(a, b)
        BY <2>1, <2>7, <2>8 DEF Quiet
    <2>10. \A m \in ToSet(reqs) :
              /\ m.kind = "Analytics" => m.limit = b.limit /\ m.level = b.level
              /\ m.kind = "Pivot" => m.dims = b.dims
        BY <2>5, <2>6, <2>7 DEF Kept
    <2>11. Asks(a, AskAnalyst(b, reqs), reqs) /\ Kept(b, AskAnalyst(b, reqs))
        BY <2>3, <2>4, <2>7, <2>9, <2>10, WindowAsks
    <2> QED
        BY <2>2, <2>7, <2>11 DEF Only, Kept
<1> QED
    BY <1>1, <1>2

\* A pivot is asked for with the dimensions that are chosen, and is the last to be.
LEMMA RequestPivotAsks ==
    ASSUME NEW a, NEW f \in Nat, Good(a, f)
    PROVE  /\ Only(a, RequestPivot(a))
           /\ \A ms : a.active # NoQuery => Pivoted(RequestPivot(a), ms)
<1> DEFINE b == [a EXCEPT !.pivot = None, !.loaded = @ \ {"Pivot"}, !.loading = TRUE]
           req == [kind |-> "Pivot", query |-> a.active, dims |-> a.dims, gen |-> a.gen]
           e == AskAnalyst(b, <<req>>)
<1>1. CASE a.active = NoQuery
    BY <1>1, OnlyItself DEF RequestPivot
<1>2. CASE a.active # NoQuery
    <2>1. IsWindow(b) /\ \A x \in Fields \ {"pivot", "loaded", "loading"} : b[x] = a[x]
        BY DEF Good, IsWindow
    <2>2. b.pivot = None /\ b.loaded = a.loaded \ {"Pivot"}
        BY DEF Good, IsWindow, Fields
    <2>3. RequestPivot(a) = e
        BY <1>2 DEF RequestPivot
    <2> HIDE DEF b, e
    <2>4. Good(e, f) /\ Carries(a, e)
        BY <2>3, RequestPivotKeeps
    <2>5. <<req>> \in Seq({req}) /\ ToSet(<<req>>) = {req} /\ req.kind = "Pivot" /\ req.dims = a.dims
        BY ItemsOne
    <2>6. req \in PivotAsked(a.gen) /\ req \in {m \in PivotAsked(a.gen) : m.dims = a.dims}
        BY DEF Good, Settings, Results, PivotAsked
    <2> HIDE DEF req
    <2>7. /\ b.analyticsTx = a.analyticsTx /\ b.underpricing = a.underpricing
          /\ b.explorer = a.explorer /\ Kept(a, b)
        BY <2>1 DEF Fields, Kept
    <2>8. \A x \in Fields \ Moved : b[x] = a[x]
        BY <2>1 DEF Moved
    <2>9. Quiet(a, b)
        BY <2>1, <2>2, <2>7, <2>8 DEF Quiet
    <2>10. \A m \in ToSet(<<req>>) :
              /\ m.kind = "Analytics" => m.limit = b.limit /\ m.level = b.level
              /\ m.kind = "Pivot" => m.dims = b.dims
        BY <2>5, <2>7 DEF Kept
    <2>11. Asks(a, e, <<req>>) /\ Kept(b, e)
        BY <2>4, <2>5, <2>7, <2>9, <2>10, WindowAsks DEF e
    <2>12. ASSUME NEW ms PROVE Pivoted(e, ms)
        <3>1. /\ e.gen = a.gen /\ e.dims = a.dims /\ e.analyticsTx = a.analyticsTx \o <<req>>
              /\ a.analyticsTx \in Seq(Analyses(e)) /\ <<req>> \in Seq(Analyses(e))
            BY <2>7, <2>11 DEF Asks, Kept
        <3>2. req \in Analyses(e)
            <4>1. ToSet(<<req>>) \subseteq Analyses(e)
                BY <3>1, ItemsOf
            <4> QED
                BY <2>5, <4>1
        <3>3. Append(a.analyticsTx, req) = a.analyticsTx \o <<req>>
            BY <3>1, <3>2, OneMore
        <3> DEFINE P == PivotAsked(a.gen)
                   Q == {m \in PivotAsked(a.gen) : m.dims = a.dims}
                   R == PivotFound(a.gen)
                   S == {m \in PivotFound(a.gen) : m.dims = a.dims}
                   shown == e.pivot # None => e.pivot.dims = e.dims
        <3>4. req \in P /\ req \in Q
            BY <2>6
        <3> HIDE DEF P, Q, R, S, shown
        <3>5. Decided(Append(a.analyticsTx, req), P, Q, ms, R, S, shown)
            BY <3>1, <3>2, <3>4, DecidedAnew
        <3>6. Decided(e.analyticsTx, P, Q, ms, R, S, shown)
            BY <3>1, <3>3, <3>5, Zenon
        <3> QED
            BY <3>1, <3>6, Zenon DEF Pivoted, P, Q, R, S, shown
    <2> QED
        BY <2>3, <2>7, <2>11, <2>12 DEF Only, Kept
<1> QED
    BY <1>1, <1>2

\* What holds of the window a, with its answers, count worker and data, holds of the window b.
Preserves(a, b, ms, c, d) ==
    /\ b.ready = a.ready
    /\ Searching(a, ms, c) => Searching(b, ms, c)
    /\ Limited(a, ms) => Limited(b, ms)
    /\ Leveled(a, ms) => Leveled(b, ms)
    /\ Pivoted(a, ms) => Pivoted(b, ms)
    /\ Grouped(a, ms) => Grouped(b, ms)
    /\ Fresh(a, ms, c, d) => Fresh(b, ms, c, d)

\* A window that only asks, with what is chosen.
LEMMA OnlyPreserves ==
    ASSUME NEW a, NEW b, Good(a, 0), Only(a, b), NEW ms \in Seq(Answers(a, 0)), NEW c, NEW d
    PROVE  Preserves(a, b, ms, c, d)
<1>1. PICK reqs : Asks(a, b, reqs)
    BY DEF Only
<1>2. b.level = a.level /\ b.limit = a.limit /\ b.overtaken = a.overtaken /\ b.dims = a.dims
    BY DEF Only, Kept
<1>3. a.underpricing.gen \in Nat
    BY Panels DEF Good, Results
<1>4. Searching(a, ms, c) => Searching(b, ms, c)
    BY <1>1, AsksSearching
<1>5. Limited(a, ms) => Limited(b, ms)
    BY <1>1, <1>2, AsksLimited
<1>6. Leveled(a, ms) => Leveled(b, ms)
    BY <1>1, <1>2, AsksLeveled
<1>7. Pivoted(a, ms) => Pivoted(b, ms)
    BY <1>1, <1>2, AsksPivoted
<1>8. Grouped(a, ms) => Grouped(b, ms)
    BY <1>1, AsksGrouped
<1>9. Fresh(a, ms, c, d) => Fresh(b, ms, c, d)
    BY <1>1, <1>3, AsksFresh
<1>10. b.ready = a.ready
    BY <1>1 DEF Asks
<1> QED
    BY <1>4, <1>5, <1>6, <1>7, <1>8, <1>9, <1>10 DEF Preserves

\* One change of the window after another.
LEMMA PreservesOn ==
    ASSUME NEW a, NEW b, NEW e, NEW ms, NEW c, NEW d,
           Preserves(a, b, ms, c, d), Preserves(b, e, ms, c, d)
    PROVE  Preserves(a, e, ms, c, d)
BY DEF Preserves

\* A window without further requests.
LEMMA PreservesItself ==
    ASSUME NEW a, NEW ms, NEW c, NEW d
    PROVE  Preserves(a, a, ms, c, d)
BY DEF Preserves

\* Scopes are asked for.
LEMMA RequestScopesPreserves ==
    ASSUME NEW a, Good(a, 0), NEW scopes \in Seq(Scopes \cup {None}),
           NEW ms \in Seq(Answers(a, 0)), NEW c, NEW d
    PROVE  /\ Preserves(a, RequestScopes(a, scopes), ms, c, d)
           /\ Good(RequestScopes(a, scopes), 0)
           /\ ms \in Seq(Answers(RequestScopes(a, scopes), 0))
           /\ RequestScopes(a, scopes).active = a.active
<1>1. Good(RequestScopes(a, scopes), 0) /\ Carries(a, RequestScopes(a, scopes))
    BY RequestScopesKeeps
<1>2. ms \in Seq(Answers(RequestScopes(a, scopes), 0))
    BY <1>1, AnswersCarried
<1>3. Preserves(a, RequestScopes(a, scopes), ms, c, d)
    BY RequestScopesAsks, OnlyPreserves
<1>4. RequestScopes(a, scopes).active = a.active
    <2>1. IsWindow(a)
        BY DEF Good
    <2> QED
        BY <2>1 DEF RequestScopes, AskAnalyst, IsWindow, Fields
<1> QED
    BY <1>1, <1>2, <1>3, <1>4

\* A pivot is asked for.
LEMMA RequestPivotPreserves ==
    ASSUME NEW a, Good(a, 0), NEW ms \in Seq(Answers(a, 0)), NEW c, NEW d
    PROVE  /\ Preserves(a, RequestPivot(a), ms, c, d)
           /\ a.active # NoQuery => Pivoted(RequestPivot(a), ms)
BY RequestPivotAsks, OnlyPreserves

\* The view of the analytics asks for what it lacks; the view of the pivot for the pivot.
LEMMA RequestAnalyticsPreserves ==
    ASSUME NEW a, Good(a, 0), NEW ms \in Seq(Answers(a, 0)), NEW c, NEW d
    PROVE  /\ Preserves(a, RequestAnalytics(a), ms, c, d)
           /\ a.active # NoQuery /\ a.view = "Pivot" => Pivoted(RequestAnalytics(a), ms)
<1>1. Preserves(a, a, ms, c, d)
    BY PreservesItself
<1>2. Preserves(a, RequestReportData(a), ms, c, d)
    <2> DEFINE S == {s \in Scopes : ~Loaded(a, s)}
    <2>1. InOrder(S) \in Seq(Scopes \cup {None})
        BY InOrderType, WiderChannel
    <2>2. Base(a) \o InOrder(S) \in Seq(Scopes \cup {None})
        BY <2>1, BaseType, Channels
    <2> QED
        BY <2>2, RequestScopesPreserves DEF RequestReportData
<1>3. Preserves(a, RequestScopes(a, Base(a)), ms, c, d)
    BY BaseType, RequestScopesPreserves
<1>4. /\ Preserves(a, RequestPivotView(a), ms, c, d)
      /\ a.active # NoQuery => Pivoted(RequestPivotView(a), ms)
    <2> DEFINE b == RequestScopes(a, Base(a))
    <2>1. Good(b, 0) /\ ms \in Seq(Answers(b, 0)) /\ b.active = a.active
        BY BaseType, RequestScopesPreserves
    <2>2. Preserves(a, b, ms, c, d)
        BY <1>3
    <2> HIDE DEF b
    <2>3. /\ Preserves(b, RequestPivot(b), ms, c, d)
          /\ b.active # NoQuery => Pivoted(RequestPivot(b), ms)
        BY <2>1, RequestPivotPreserves
    <2>4. Preserves(a, RequestPivot(b), ms, c, d)
        BY <2>2, <2>3, PreservesOn
    <2> QED
        BY <2>1, <2>3, <2>4 DEF RequestPivotView, b
<1>5. Preserves(a, RequestScopes(a, <<ScopeOf(a.view)>>), ms, c, d)
    <2>1. ScopeOf(a.view) \in Scopes \cup {None}
        BY DEF ScopeOf
    <2>2. <<ScopeOf(a.view)>> \in Seq(Scopes \cup {None})
        BY <2>1
    <2> QED
        BY <2>2, RequestScopesPreserves
<1>6. \/ RequestAnalytics(a) = a \/ RequestAnalytics(a) = RequestReportData(a)
      \/ RequestAnalytics(a) = RequestScopes(a, Base(a)) \/ RequestAnalytics(a) = RequestPivotView(a)
      \/ RequestAnalytics(a) = RequestScopes(a, <<ScopeOf(a.view)>>)
    BY DEF RequestAnalytics
<1>7. a.active # NoQuery /\ a.view = "Pivot" => RequestAnalytics(a) = RequestPivotView(a)
    BY DEF RequestAnalytics
<1> QED
    BY <1>1, <1>2, <1>3, <1>4, <1>5, <1>6, <1>7

\* The products are asked for last with the level that is chosen.
LEMMA ProductsRequested ==
    ASSUME NEW a, Good(a, 0), a.active # NoQuery, a.view = "Products", ~Loaded(a, "Products"), NEW ms
    PROVE  Leveled(RequestAnalytics(a), ms)
<1> DEFINE b == [a EXCEPT !.loading = TRUE]
           req == ScopeRequest(a, "Products")
           e == AskAnalyst(b, <<req>>)
<1>1. "Products" \in Scopes /\ "Products" \notin {"Overview", "Pivot", "Report", "Compare"}
    BY NamesAssumption
<1>2. RequestAnalytics(a) = RequestScopes(a, <<"Products">>)
    BY <1>1 DEF RequestAnalytics, ScopeOf
<1>3. RequestScopes(a, <<"Products">>) = e
    <2> DEFINE reqs == [i \in DOMAIN <<"Products">> |-> ScopeRequest(a, <<"Products">>[i])]
    <2>1. reqs = <<req>>
        <3>1. DOMAIN <<"Products">> = {1} /\ <<"Products">>[1] = "Products"
            OBVIOUS
        <3>2. reqs = [i \in {1} |-> req]
            BY <3>1
        <3>3. <<req>> = [i \in {1} |-> req]
            <4> HIDE DEF req
            <4> QED
                OBVIOUS
        <3> QED
            BY <3>2, <3>3
    <2>2. <<"Products">> # <<>>
        OBVIOUS
    <2> QED
        BY <2>1, <2>2 DEF RequestScopes
<1>4. Good(e, 0) /\ Carries(a, e)
    <2>1. <<"Products">> \in Seq(Scopes \cup {None})
        BY <1>1
    <2> QED
        BY <1>3, <2>1, RequestScopesKeeps
<1>5. IsWindow(b) /\ \A x \in Fields \ {"loading"} : b[x] = a[x]
    BY DEF Good, IsWindow
<1>6. /\ req \in ProductsAsked(a.gen)
      /\ req \in {m \in ProductsAsked(a.gen) : m.level = a.level}
    BY DEF ScopeRequest, ProductsAsked, Good, Settings, Results
<1> HIDE DEF b, req
<1>7. /\ e.analyticsTx = b.analyticsTx \o <<req>>
      /\ \A x \in Fields \ {"analyticsTx"} : e[x] = b[x]
    BY <1>5, AskedAnalyst
<1> HIDE DEF e
<1>8. e.gen = a.gen /\ e.level = a.level /\ e.analyticsTx = a.analyticsTx \o <<req>>
    BY <1>5, <1>7 DEF Fields
<1>9. a.analyticsTx \in Seq(Analyses(e)) /\ e.analyticsTx \in Seq(Analyses(e))
    BY <1>4, WiderChannel DEF Good, Sent, Carries
<1>10. req \in Analyses(e)
    <2>1. <<req>> \in Seq({req}) /\ ToSet(<<req>>) = {req}
        BY ItemsOne
    <2>2. <<req>> \in Seq(Analyses(e))
        BY <1>8, <1>9, <2>1, JoinedChannel
    <2>3. ToSet(<<req>>) \subseteq Analyses(e)
        BY <2>2, ItemsOf
    <2> QED
        BY <2>1, <2>3
<1>11. Append(a.analyticsTx, req) = a.analyticsTx \o <<req>>
    BY <1>9, <1>10, OneMore
<1> DEFINE P == ProductsAsked(a.gen)
           Q == {m \in ProductsAsked(a.gen) : m.level = a.level}
           R == ProductsFound(a.gen)
           S == {m \in ProductsFound(a.gen) : m.level = a.level}
           shown == e.analytics # None /\ "Products" \in e.loaded =>
                        e.analytics.sections["Products"].level = e.level
<1>12. req \in P /\ req \in Q
    BY <1>6
<1> HIDE DEF P, Q, R, S, shown
<1>13. Decided(Append(a.analyticsTx, req), P, Q, ms, R, S, shown)
    BY <1>9, <1>10, <1>12, DecidedAnew
<1>14. Decided(e.analyticsTx, P, Q, ms, R, S, shown)
    BY <1>8, <1>11, <1>13, Zenon
<1>15. Leveled(e, ms)
    BY <1>8, <1>14, Zenon DEF Leveled, P, Q, R, S, shown
<1> QED
    BY <1>2, <1>3, <1>15

\* A window that drops what it shows, at most, while what is chosen stays.
LEMMA QuietPreserves ==
    ASSUME NEW a, Good(a, 0), NEW b, Carries(a, b), Quiet(a, b), b.explorer \in {a.explorer, None},
           Kept(a, b), NEW ms \in Seq(Answers(a, 0)), NEW c, NEW d
    PROVE  Preserves(a, b, ms, c, d)
<1>1. Asks(a, b, <<>>)
    BY QuietAsks
<1>2. Only(a, b)
    BY <1>1 DEF Only
<1> QED
    BY <1>2, OnlyPreserves

\* The fields that nothing under way is judged by.
Free == {"typed", "tab", "view", "busy", "profile", "dossier"}

\* A window with other settings than those of the requests.
LEMMA FreePreserves ==
    ASSUME NEW a, Good(a, 0), NEW b, IsWindow(b), Carries(a, b), \A x \in Fields \ Free : b[x] = a[x],
           NEW ms \in Seq(Answers(a, 0)), NEW c, NEW d
    PROVE  Preserves(a, b, ms, c, d)
<1>1. /\ b.loaded = a.loaded /\ b.pivot = a.pivot /\ b.analyticsTx = a.analyticsTx
      /\ b.underpricing = a.underpricing /\ b.explorer = a.explorer /\ Kept(a, b)
    BY DEF Fields, Free, Kept
<1>2. \A x \in Fields \ Moved : b[x] = a[x]
    BY DEF Moved, Free
<1>3. Quiet(a, b)
    BY <1>1, <1>2 DEF Quiet
<1> QED
    BY <1>1, <1>3, QuietPreserves

\* What the user chooses besides leaves what holds of the window.
LEMMA ChoicesPreserve ==
    ASSUME NEW a, Good(a, 0), NEW ms \in Seq(Answers(a, 0)), NEW c, NEW d
    PROVE  /\ \A q \in Asked : Preserves(a, [a EXCEPT !.typed = q], ms, c, d)
           /\ \A tab \in {"Results", "Analytics"} : Preserves(a, [a EXCEPT !.tab = tab], ms, c, d)
           /\ \A v \in Views :
                 /\ Preserves(a, [a EXCEPT !.view = v], ms, c, d)
                 /\ Preserves(a, [a EXCEPT !.tab = "Analytics", !.view = v], ms, c, d)
           /\ \A v \in BOOLEAN : Preserves(a, [a EXCEPT !.busy = v], ms, c, d)
           /\ Preserves(a, [a EXCEPT !.explorer = None], ms, c, d)
           /\ Preserves(a, CloseProfile(a), ms, c, d)
<1>1. ASSUME NEW q \in Asked
      PROVE  Preserves(a, [a EXCEPT !.typed = q], ms, c, d)
    <2> DEFINE b == [a EXCEPT !.typed = q]
    <2>1. IsWindow(b) /\ \A x \in Fields \ {"typed"} : b[x] = a[x]
        BY DEF Good, IsWindow
    <2>2. Carries(a, b)
        BY ChoicesKeep
    <2> HIDE DEF b
    <2>3. Preserves(a, b, ms, c, d)
        BY <2>1, <2>2, FreePreserves DEF Free
    <2> QED
        BY <2>3 DEF b
<1>2. ASSUME NEW tab \in {"Results", "Analytics"}
      PROVE  Preserves(a, [a EXCEPT !.tab = tab], ms, c, d)
    <2> DEFINE b == [a EXCEPT !.tab = tab]
    <2>1. IsWindow(b) /\ \A x \in Fields \ {"tab"} : b[x] = a[x]
        BY DEF Good, IsWindow
    <2>2. Carries(a, b)
        BY ChoicesKeep
    <2> HIDE DEF b
    <2>3. Preserves(a, b, ms, c, d)
        BY <2>1, <2>2, FreePreserves DEF Free
    <2> QED
        BY <2>3 DEF b
<1>3. ASSUME NEW v \in Views
      PROVE  Preserves(a, [a EXCEPT !.view = v], ms, c, d)
    <2> DEFINE b == [a EXCEPT !.view = v]
    <2>1. IsWindow(b) /\ \A x \in Fields \ {"view"} : b[x] = a[x]
        BY DEF Good, IsWindow
    <2>2. Carries(a, b)
        BY ChoicesKeep
    <2> HIDE DEF b
    <2>3. Preserves(a, b, ms, c, d)
        BY <2>1, <2>2, FreePreserves DEF Free
    <2> QED
        BY <2>3 DEF b
<1>4. ASSUME NEW v \in Views
      PROVE  Preserves(a, [a EXCEPT !.tab = "Analytics", !.view = v], ms, c, d)
    <2> DEFINE b == [a EXCEPT !.tab = "Analytics", !.view = v]
    <2>1. IsWindow(b) /\ \A x \in Fields \ {"tab", "view"} : b[x] = a[x]
        BY DEF Good, IsWindow
    <2>2. Carries(a, b)
        BY ChoicesKeep
    <2> HIDE DEF b
    <2>3. Preserves(a, b, ms, c, d)
        BY <2>1, <2>2, FreePreserves DEF Free
    <2> QED
        BY <2>3 DEF b
<1>5. ASSUME NEW v \in BOOLEAN
      PROVE  Preserves(a, [a EXCEPT !.busy = v], ms, c, d)
    <2> DEFINE b == [a EXCEPT !.busy = v]
    <2>1. IsWindow(b) /\ \A x \in Fields \ {"busy"} : b[x] = a[x]
        BY DEF Good, IsWindow
    <2>2. Carries(a, b)
        BY BusyKeeps
    <2> HIDE DEF b
    <2>3. Preserves(a, b, ms, c, d)
        BY <2>1, <2>2, FreePreserves DEF Free
    <2> QED
        BY <2>3 DEF b
<1>6. Preserves(a, CloseProfile(a), ms, c, d)
    <2> DEFINE b == CloseProfile(a)
    <2>1. IsWindow(b) /\ \A x \in Fields \ {"profile", "dossier"} : b[x] = a[x]
        BY DEF Good, IsWindow, CloseProfile
    <2>2. Carries(a, b)
        BY CloseProfileKeeps
    <2> HIDE DEF b
    <2>3. Preserves(a, b, ms, c, d)
        BY <2>1, <2>2, FreePreserves DEF Free
    <2> QED
        BY <2>3 DEF b
<1>7. Preserves(a, [a EXCEPT !.explorer = None], ms, c, d)
    <2> DEFINE b == [a EXCEPT !.explorer = None]
    <2>1. IsWindow(b) /\ \A x \in Fields \ {"explorer"} : b[x] = a[x]
        BY DEF Good, IsWindow
    <2>2. b.explorer = None
        BY DEF Good, IsWindow, Fields
    <2>3. Carries(a, b)
        BY ExplorerClosed
    <2> HIDE DEF b
    <2>4. /\ b.loaded = a.loaded /\ b.pivot = a.pivot /\ b.analyticsTx = a.analyticsTx
          /\ b.underpricing = a.underpricing /\ Kept(a, b)
        BY <2>1 DEF Fields, Kept
    <2>5. \A x \in Fields \ Moved : b[x] = a[x]
        BY <2>1 DEF Moved
    <2>6. Quiet(a, b)
        BY <2>1, <2>4, <2>5 DEF Quiet
    <2>7. Preserves(a, b, ms, c, d)
        BY <2>2, <2>3, <2>4, <2>6, QuietPreserves
    <2> QED
        BY <2>7 DEF b
<1> QED
    BY <1>1, <1>2, <1>3, <1>4, <1>5, <1>6, <1>7

\* The explorer opens for the groups it asks for.
LEMMA OpenGroupExplorerPreserves ==
    ASSUME NEW a, Good(a, 0), NEW k \in Kinds, NEW ms \in Seq(Answers(a, 0)), NEW c, NEW d
    PROVE  Preserves(a, OpenGroupExplorer(a, k), ms, c, d)
<1> DEFINE p == [kind |-> k, gen |-> a.gen, loading |-> TRUE, rows |-> None]
           b == [a EXCEPT !.explorer = p]
           req == [kind |-> "Section", query |-> a.active, section |-> k, gen |-> a.gen]
           e == AskAnalyst(b, <<req>>)
<1>0. Preserves(a, a, ms, c, d)
    BY PreservesItself
<1>1. CASE a.active # NoQuery
    <2>1. IsWindow(b) /\ \A x \in Fields \ {"explorer"} : b[x] = a[x]
        BY DEF Good, IsWindow
    <2>2. b.explorer = p
        BY DEF Good, IsWindow, Fields
    <2>3. OpenGroupExplorer(a, k) = e
        BY <1>1 DEF OpenGroupExplorer
    <2>4. Good(e, 0) /\ Carries(a, e)
        BY <2>3, OpenGroupExplorerKeeps
    <2>5. <<req>> \in Seq({req}) /\ ToSet(<<req>>) = {req} /\ req.kind \notin {"Analytics", "Pivot"}
        BY ItemsOne
    <2>6. /\ b.explorer.gen = a.gen /\ b.explorer.rows = None
          /\ \E m \in ToSet(<<req>>) : OfExplorer(b.explorer, "Section", m)
        BY <2>2, <2>5 DEF OfExplorer
    <2>7. b.underpricing = a.underpricing
        BY <2>1 DEF Fields
    <2> HIDE DEF b, e, req, p
    <2>8. b.loaded = a.loaded /\ b.pivot = a.pivot /\ b.analyticsTx = a.analyticsTx /\ Kept(a, b)
        BY <2>1 DEF Fields, Kept
    <2>9. \A x \in Fields \ Moved : b[x] = a[x]
        BY <2>1 DEF Moved
    <2>10. Quiet(a, b)
        BY <2>1, <2>7, <2>8, <2>9 DEF Quiet
    <2>11. \A m \in ToSet(<<req>>) :
              /\ m.kind = "Analytics" => m.limit = b.limit /\ m.level = b.level
              /\ m.kind = "Pivot" => m.dims = b.dims
        BY <2>5
    <2>12. Asks(a, e, <<req>>) /\ Kept(b, e)
        BY <2>4, <2>5, <2>6, <2>10, <2>11, WindowAsks DEF e
    <2>13. Only(a, e)
        BY <2>8, <2>12 DEF Only, Kept
    <2> QED
        BY <2>3, <2>13, OnlyPreserves
<1> QED
    BY <1>0, <1>1 DEF OpenGroupExplorer

\* A scan that is asked for makes the one under way stale.
LEMMA RequestUnderpricingPreserves ==
    ASSUME NEW a, Good(a, 0), NEW ms \in Seq(Answers(a, 0)), NEW c, NEW d
    PROVE  Preserves(a, RequestUnderpricing(a), ms, c, d)
<1> DEFINE p == [gen |-> a.underpricing.gen + 1, loading |-> TRUE, shown |-> None]
           b == [a EXCEPT !.underpricing = p]
           req == [kind |-> "Underpricing", query |-> a.active, gen |-> a.underpricing.gen + 1]
           e == AskAnalyst(b, <<req>>)
<1>0. Preserves(a, a, ms, c, d)
    BY PreservesItself
<1>1. CASE a.active # NoQuery
    <2>1. IsWindow(b) /\ \A x \in Fields \ {"underpricing"} : b[x] = a[x]
        BY DEF Good, IsWindow
    <2>2. b.underpricing = p
        BY DEF Good, IsWindow, Fields
    <2>3. RequestUnderpricing(a) = e
        BY <1>1 DEF RequestUnderpricing
    <2>4. Good(e, 0) /\ Carries(a, e)
        BY <2>3, RequestUnderpricingKeeps
    <2>5. <<req>> \in Seq({req}) /\ ToSet(<<req>>) = {req} /\ req.kind \notin {"Analytics", "Pivot"}
        BY ItemsOne
    <2>6. b.explorer = a.explorer
        BY <2>1 DEF Fields
    <2>7. b.underpricing.gen = a.underpricing.gen + 1 /\ b.underpricing.shown = None
        BY <2>2
    <2> HIDE DEF b, e, req, p
    <2>8. b.loaded = a.loaded /\ b.pivot = a.pivot /\ b.analyticsTx = a.analyticsTx /\ Kept(a, b)
        BY <2>1 DEF Fields, Kept
    <2>9. \A x \in Fields \ Moved : b[x] = a[x]
        BY <2>1 DEF Moved
    <2>10. Quiet(a, b)
        BY <2>1, <2>7, <2>8, <2>9 DEF Quiet
    <2>11. \A m \in ToSet(<<req>>) :
              /\ m.kind = "Analytics" => m.limit = b.limit /\ m.level = b.level
              /\ m.kind = "Pivot" => m.dims = b.dims
        BY <2>5
    <2>12. Asks(a, e, <<req>>) /\ Kept(b, e)
        BY <2>4, <2>5, <2>6, <2>10, <2>11, WindowAsks DEF e
    <2>13. Only(a, e)
        BY <2>8, <2>12 DEF Only, Kept
    <2> QED
        BY <2>3, <2>13, OnlyPreserves
<1> QED
    BY <1>0, <1>1 DEF RequestUnderpricing

\* A comparison is asked for.
LEMMA RequestComparePreserves ==
    ASSUME NEW a, Good(a, 0), NEW ms \in Seq(Answers(a, 0)), NEW c, NEW d
    PROVE  Preserves(a, RequestCompare(a), ms, c, d)
<1> DEFINE p == [gen |-> a.compare.gen + 1, loading |-> TRUE, shown |-> None]
           b == [a EXCEPT !.compare = p]
           req == [kind |-> "Compare", query |-> a.active, gen |-> a.compare.gen + 1]
           e == AskAnalyst(b, <<req>>)
<1>0. Preserves(a, a, ms, c, d)
    BY PreservesItself
<1>1. CASE a.active # NoQuery
    <2>1. IsWindow(b) /\ \A x \in Fields \ {"compare"} : b[x] = a[x]
        BY DEF Good, IsWindow
    <2>2. b.compare = p
        BY DEF Good, IsWindow, Fields
    <2>3. RequestCompare(a) = e
        BY <1>1 DEF RequestCompare
    <2>4. Good(e, 0) /\ Carries(a, e)
        BY <2>3, RequestCompareKeeps
    <2>5. <<req>> \in Seq({req}) /\ ToSet(<<req>>) = {req} /\ req.kind \notin {"Analytics", "Pivot"}
        BY ItemsOne
    <2>6. b.explorer = a.explorer
        BY <2>1 DEF Fields
    <2>7. b.underpricing = a.underpricing
        BY <2>1 DEF Fields
    <2> HIDE DEF b, e, req, p
    <2>8. b.loaded = a.loaded /\ b.pivot = a.pivot /\ b.analyticsTx = a.analyticsTx /\ Kept(a, b)
        BY <2>1 DEF Fields, Kept
    <2>9. \A x \in Fields \ Moved : b[x] = a[x]
        BY <2>1 DEF Moved
    <2>10. Quiet(a, b)
        BY <2>1, <2>7, <2>8, <2>9 DEF Quiet
    <2>11. \A m \in ToSet(<<req>>) :
              /\ m.kind = "Analytics" => m.limit = b.limit /\ m.level = b.level
              /\ m.kind = "Pivot" => m.dims = b.dims
        BY <2>5
    <2>12. Asks(a, e, <<req>>) /\ Kept(b, e)
        BY <2>4, <2>5, <2>6, <2>10, <2>11, WindowAsks DEF e
    <2>13. Only(a, e)
        BY <2>8, <2>12 DEF Only, Kept
    <2> QED
        BY <2>3, <2>13, OnlyPreserves
<1> QED
    BY <1>0, <1>1 DEF RequestCompare

\* A dossier is asked for.
LEMMA OpenProfilePreserves ==
    ASSUME NEW a, Good(a, 0), NEW co \in Companies, NEW ms \in Seq(Answers(a, 0)), NEW c, NEW d
    PROVE  Preserves(a, OpenProfile(a, co), ms, c, d)
<1> DEFINE p == [gen |-> a.profile.gen + 1, loading |-> TRUE, shown |-> None]
           b == [a EXCEPT !.profile = p, !.dossier = co]
           req == [kind |-> "Profile", query |-> co, gen |-> a.profile.gen + 1]
           e == AskAnalyst(b, <<req>>)
<1>1. IsWindow(b) /\ \A x \in Fields \ {"profile", "dossier"} : b[x] = a[x]
    BY DEF Good, IsWindow
<1>2. b.profile = p
    BY DEF Good, IsWindow, Fields
<1>3. OpenProfile(a, co) = e
    BY DEF OpenProfile
<1>4. Good(e, 0) /\ Carries(a, e)
    BY <1>3, OpenProfileKeeps
<1>5. <<req>> \in Seq({req}) /\ ToSet(<<req>>) = {req} /\ req.kind \notin {"Analytics", "Pivot"}
    BY ItemsOne
<1>6. b.explorer = a.explorer
    BY <1>1 DEF Fields
<1>7. b.underpricing = a.underpricing
    BY <1>1 DEF Fields
<1> HIDE DEF b, e, req, p
<1>8. b.loaded = a.loaded /\ b.pivot = a.pivot /\ b.analyticsTx = a.analyticsTx /\ Kept(a, b)
    BY <1>1 DEF Fields, Kept
<1>9. \A x \in Fields \ Moved : b[x] = a[x]
    BY <1>1 DEF Moved
<1>10. Quiet(a, b)
    BY <1>1, <1>7, <1>8, <1>9 DEF Quiet
<1>11. \A m \in ToSet(<<req>>) :
          /\ m.kind = "Analytics" => m.limit = b.limit /\ m.level = b.level
          /\ m.kind = "Pivot" => m.dims = b.dims
    BY <1>5
<1>12. Asks(a, e, <<req>>) /\ Kept(b, e)
    BY <1>4, <1>5, <1>6, <1>10, <1>11, WindowAsks DEF e
<1>13. Only(a, e)
    BY <1>8, <1>12 DEF Only, Kept
<1> QED
    BY <1>3, <1>13, OnlyPreserves

\* A request that the analytics worker can find in its channel.
LEMMA KindsOfRequests ==
    ASSUME NEW a, NEW m \in Analyses(a)
    PROVE  /\ m.kind \in {"Analytics", "Section", "Pivot", "Underpricing", "Profile", "Compare"}
           /\ m.kind = "Analytics" => m \in ScopesAsked(a)
           /\ m.kind = "Section" => m \in GroupsAsked(a)
           /\ m.kind = "Pivot" => m \in PivotsAsked(a)
           /\ m.kind = "Underpricing" => m \in ScansAsked(a)
           /\ m.kind = "Profile" => m \in DossiersAsked(a)
           /\ m.kind = "Compare" => m \in Comparisons
<1>1. /\ m \in ScopesAsked(a) => m.kind = "Analytics"
      /\ m \in GroupsAsked(a) => m.kind = "Section"
      /\ m \in PivotsAsked(a) => m.kind = "Pivot"
    BY DEF ScopesAsked, GroupsAsked, PivotsAsked
<1>2. /\ m \in ScansAsked(a) => m.kind = "Underpricing"
      /\ m \in DossiersAsked(a) => m.kind = "Profile"
      /\ m \in Comparisons => m.kind = "Compare"
    BY DEF ScansAsked, DossiersAsked, Comparisons
<1> QED
    BY <1>1, <1>2 DEF Analyses

\* Nothing under way is of a generation that the window has not reached.
LEMMA NoneOfNext ==
    ASSUME NEW a, Good(a, 0), NEW ms \in Seq(Answers(a, 0)), NEW c \in CountStates(a)
    PROVE  /\ \A m \in ToSet(a.searchTx) : m.kind = "Search" => m.gen # a.gen + 1
           /\ \A m \in ToSet(a.analyticsTx) :
                 m.kind \in {"Analytics", "Section", "Pivot"} => m.gen # a.gen + 1
           /\ \A m \in ToSet(ms) :
                 m.kind \in {"SearchPage", "SearchCount", "AnalyticsDone", "SectionDone", "PivotDone"}
                    => m.gen # a.gen + 1
           /\ \A m \in ToSet(c.rx) : m.kind = "Count" => m.gen # a.gen + 1
           /\ c.at # None => c.at.gen # a.gen + 1
<1>1. a.gen \in Nat /\ \A n \in Nat : n <= a.gen => n # a.gen + 1
    BY DEF Good, Results
<1>2. ASSUME NEW m \in ToSet(a.searchTx), m.kind = "Search" PROVE m.gen # a.gen + 1
    <2>1. m \in Searches(a)
        BY ItemsOf DEF Good, Sent
    <2> QED
        BY <1>1, <1>2, <2>1 DEF Searches, OfPage, Current
<1>3. ASSUME NEW m \in ToSet(a.analyticsTx), m.kind \in {"Analytics", "Section", "Pivot"}
      PROVE  m.gen # a.gen + 1
    <2>1. m \in Analyses(a)
        BY ItemsOf DEF Good, Sent
    <2>2. m \in ScopesAsked(a) \cup GroupsAsked(a) \cup PivotsAsked(a)
        BY <1>3, <2>1, KindsOfRequests
    <2>3. m.gen \in Nat /\ m.gen <= a.gen
        BY <2>2 DEF ScopesAsked, GroupsAsked, PivotsAsked, OfGroups, Current
    <2> QED
        BY <1>1, <2>3
<1>4. ASSUME NEW m \in ToSet(ms),
             m.kind \in {"SearchPage", "SearchCount", "AnalyticsDone", "SectionDone", "PivotDone"}
      PROVE  m.gen # a.gen + 1
    <2>1. m \in Answers(a, 0)
        BY ItemsOf
    <2>2. m \in PagesFound(a) \cup CountsFound(a) \cup ScopesFound(a) \cup GroupsFound(a) \cup PivotsFound(a)
        BY <1>4, <2>1, KindsOfAnswers
    <2>3. m.gen \in Nat /\ m.gen <= a.gen
        <3>1. m \in PagesFound(a) \cup CountsFound(a) => m.gen \in Nat /\ m.gen <= a.gen
            BY DEF PagesFound, CountsFound, OfPage, Current
        <3>2. m \in ScopesFound(a) \cup GroupsFound(a) \cup PivotsFound(a) => m.gen \in Nat /\ m.gen <= a.gen
            BY DEF ScopesFound, GroupsFound, PivotsFound, OfGroups, Current
        <3> QED
            BY <2>2, <3>1, <3>2
    <2> QED
        BY <1>1, <2>3
<1>5. c.rx \in Seq(Counts(a)) /\ c.at \in {None} \cup CountsAsked(a)
    BY DEF CountStates
<1>6. ASSUME NEW m \in ToSet(c.rx), m.kind = "Count" PROVE m.gen # a.gen + 1
    <2>1. m \in Counts(a)
        BY <1>5, ItemsOf
    <2> QED
        BY <1>1, <1>6, <2>1 DEF Counts, CountsAsked, Current
<1>7. c.at # None => c.at.gen # a.gen + 1
    BY <1>1, <1>5 DEF CountsAsked, Current
<1> QED
    BY <1>2, <1>3, <1>4, <1>6, <1>7

SearchOf(b) == [kind |-> "Search", query |-> b.active, page |-> b.page, gen |-> b.gen]

\* The window b is the window a after a search was sent.
Again(a, b) ==
    /\ b.gen = a.gen + 1 /\ b.searching = TRUE /\ b.counting = TRUE /\ b.total = None
    /\ b.searchTx = Append(a.searchTx, SearchOf(b)) /\ b.analyticsTx = a.analyticsTx
    /\ b.rows = a.rows /\ b.ready = a.ready /\ b.dbTotal = a.dbTotal

\* A search that was sent is the last, and its page and its count will come.
LEMMA AgainSearching ==
    ASSUME NEW a, Good(a, 0), NEW b, Again(a, b), NEW ms \in Seq(Answers(a, 0)),
           NEW c \in CountStates(a)
    PROVE  Searching(b, ms, c)
<1> DEFINE req == SearchOf(b)
           T == Searches(a) \cup {req}
<1>1. b.gen = a.gen + 1 /\ b.searchTx = Append(a.searchTx, req) /\ b.counting = TRUE
    BY DEF Again
<1>2. a.searchTx \in Seq(T) /\ req \in T
    BY WiderChannel DEF Good, Sent
<1>3. req.kind = "Search" /\ req.gen = b.gen
    BY DEF SearchOf
<1> HIDE DEF req, T
<1>4. /\ Len(a.searchTx) \in Nat /\ Len(b.searchTx) = Len(a.searchTx) + 1
      /\ b.searchTx[Len(a.searchTx) + 1] = req
      /\ \A i \in 1..Len(a.searchTx) : b.searchTx[i] = a.searchTx[i] /\ a.searchTx[i] \in ToSet(a.searchTx)
    <2>1. /\ Len(a.searchTx) \in Nat /\ DOMAIN a.searchTx = 1..Len(a.searchTx)
          /\ Len(Append(a.searchTx, req)) = Len(a.searchTx) + 1
          /\ Append(a.searchTx, req)[Len(a.searchTx) + 1] = req
          /\ \A i \in 1..Len(a.searchTx) : Append(a.searchTx, req)[i] = a.searchTx[i]
        BY <1>2, Positions
    <2> QED
        BY <1>1, <2>1 DEF ToSet
<1>5. /\ \A m \in ToSet(a.searchTx) : m.kind = "Search" => m.gen # b.gen
      /\ \A m \in ToSet(ms) : m.kind \in {"SearchPage", "SearchCount"} => m.gen # b.gen
      /\ \A m \in ToSet(c.rx) : m.kind = "Count" => m.gen # b.gen
      /\ c.at # None => c.at.gen # b.gen
    BY <1>1, NoneOfNext
<1>6. \A i \in 1..Len(b.searchTx) : OfGen(b, "Search", b.searchTx[i]) <=> i = Len(b.searchTx)
    <2>1. \A i \in 1..Len(b.searchTx) : i \in 1..Len(a.searchTx) \/ i = Len(a.searchTx) + 1
        BY <1>4
    <2>2. \A i \in 1..Len(a.searchTx) : ~OfGen(b, "Search", b.searchTx[i]) /\ i # Len(a.searchTx) + 1
        BY <1>4, <1>5 DEF OfGen
    <2>3. OfGen(b, "Search", req) /\ b.searchTx[Len(a.searchTx) + 1] = req
        BY <1>3, <1>4 DEF OfGen
    <2>4. ASSUME NEW i \in 1..Len(b.searchTx)
          PROVE  OfGen(b, "Search", b.searchTx[i]) <=> i = Len(b.searchTx)
        <3>1. CASE i \in 1..Len(a.searchTx)
            BY <1>4, <2>2, <3>1
        <3>2. CASE i = Len(a.searchTx) + 1
            BY <1>4, <2>3, <3>2
        <3> QED
            BY <2>1, <3>1, <3>2
    <2> QED
        BY <2>4
<1>7. b.searchTx # <<>>
    BY <1>4
<1>8. /\ \A m \in ToSet(c.rx) : ~OfGen(b, "Count", m)
      /\ \A m \in ToSet(ms) : ~OfGen(b, "SearchPage", m) /\ ~OfGen(b, "SearchCount", m)
    BY <1>5 DEF OfGen
<1> QED
    BY <1>1, <1>5, <1>6, <1>7, <1>8 DEF Searching

\* What is under way besides stays what it is.
LEMMA AgainOnward ==
    ASSUME NEW a, Good(a, 0), NEW b, Again(a, b), NEW ms \in Seq(Answers(a, 0)),
           NEW c \in CountStates(a), NEW d
    PROVE  /\ \A k \in {"Analytics", "Section", "Pivot"} : \A m \in ToSet(b.analyticsTx) : ~OfGen(b, k, m)
           /\ \A k \in {"SearchPage", "SearchCount", "AnalyticsDone", "SectionDone", "PivotDone"} :
                 \A m \in ToSet(ms) : ~OfGen(b, k, m)
           /\ c.at # None => c.at.gen # b.gen
           /\ Counted(a, ms, d) => Counted(b, ms, d)
           /\ Cached(a, c, d) => Cached(b, c, d)
<1> DEFINE req == SearchOf(b)
           T == Searches(a) \cup {req}
<1>1. b.gen = a.gen + 1 /\ b.searchTx = Append(a.searchTx, req) /\ b.analyticsTx = a.analyticsTx
      /\ b.ready = a.ready /\ b.dbTotal = a.dbTotal
    BY DEF Again
<1>2. a.searchTx \in Seq(T) /\ req \in T
    BY WiderChannel DEF Good, Sent
<1>3. req.kind = "Search" /\ req \notin StatsAsked
    BY DEF SearchOf, StatsAsked
<1> HIDE DEF req, T
<1>4. /\ \A k \in {"Analytics", "Section", "Pivot"} : \A m \in ToSet(b.analyticsTx) : ~OfGen(b, k, m)
      /\ \A k \in {"SearchPage", "SearchCount", "AnalyticsDone", "SectionDone", "PivotDone"} :
            \A m \in ToSet(ms) : ~OfGen(b, k, m)
      /\ c.at # None => c.at.gen # b.gen
    BY <1>1, NoneOfNext DEF OfGen
<1>5. ASSUME Counted(a, ms, d) PROVE Counted(b, ms, d)
    <2> DEFINE S == {m \in StatsFound : m.at = d.version}
               shown == a.ready => a.dbTotal = d.version
    <2>1. Decided(a.searchTx, StatsAsked, StatsAsked, ms, StatsFound, S, shown)
        BY <1>5 DEF Counted
    <2>2. <<req>> \in Seq(T) /\ b.searchTx = a.searchTx \o <<req>>
        BY <1>1, <1>2, OneMore
    <2> DEFINE more == <<req>>
    <2>3. ToSet(more) = {req}
        BY ItemsOne
    <2>4. more \in Seq(T) /\ b.searchTx = a.searchTx \o more
        BY <2>2
    <2> HIDE DEF S, shown, more
    <2>5. ToSet(more) \cap StatsAsked \subseteq StatsAsked /\ (shown => shown)
        BY <1>3, <2>3
    <2>6. Decided(a.searchTx \o more, StatsAsked, StatsAsked, ms, StatsFound, S, shown)
        BY <1>2, <2>1, <2>4, <2>5, DecidedSend
    <2>7. Decided(b.searchTx, StatsAsked, StatsAsked, ms, StatsFound, S, shown)
        BY <2>4, <2>6, Zenon
    <2> QED
        BY <1>1, <2>7, Zenon DEF Counted, S, shown
<1>6. ASSUME Cached(a, c, d) PROVE Cached(b, c, d)
    <2>1. ToSet(b.searchTx) = ToSet(a.searchTx) \cup {req}
        BY <1>1, <1>2, ItemsAppended
    <2> QED
        BY <1>6, <2>1 DEF Cached
<1> QED
    BY <1>4, <1>5, <1>6

\* The window b is the window a after a search was started in it.
Anew(a, b) ==
    /\ Again(a, b) /\ b.turned = FALSE /\ b.overtaken = FALSE /\ b.analytics = None /\ b.loaded = {}
    /\ b.explorer = None /\ b.pivot = None
    /\ b.underpricing.gen = a.underpricing.gen + 1 /\ b.underpricing.shown = None

\* What a search that is started shows is right, as it shows nothing, and all it asks for is asked with
\* what is chosen.
LEMMA AnewHolds ==
    ASSUME NEW a, Good(a, 0), NEW b, Good(b, 0), Anew(a, b), NEW ms \in Seq(Answers(a, 0)),
           NEW c \in CountStates(a), NEW d
    PROVE  Searching(b, ms, c) /\ Asking(b, ms) /\ FreshNow(b, ms, c, d)
<1> DEFINE shownLevel == b.analytics # None /\ "Products" \in b.loaded =>
                             b.analytics.sections["Products"].level = b.level
           shownDims == b.pivot # None => b.pivot.dims = b.dims
<1>1. /\ Again(a, b) /\ b.analytics = None /\ b.loaded = {} /\ b.explorer = None /\ b.pivot = None
      /\ b.underpricing.gen = a.underpricing.gen + 1 /\ b.underpricing.shown = None
    BY DEF Anew
<1>2. b.total = None /\ b.searching = TRUE
    BY <1>1 DEF Again
<1>3. /\ \A k \in {"Analytics", "Section", "Pivot"} : \A m \in ToSet(b.analyticsTx) : ~OfGen(b, k, m)
      /\ \A k \in {"SearchPage", "SearchCount", "AnalyticsDone", "SectionDone", "PivotDone"} :
            \A m \in ToSet(ms) : ~OfGen(b, k, m)
      /\ c.at # None => c.at.gen # b.gen
    BY <1>1, AgainOnward
<1>4. Searching(b, ms, c)
    BY <1>1, AgainSearching
<1>5. Limited(b, ms) /\ Grouped(b, ms)
    BY <1>1, <1>3 DEF Limited, Grouped
<1>6. b.analyticsTx \in Seq(Analyses(b))
    BY DEF Good, Sent
<1>7. Leveled(b, ms)
    <2> DEFINE P == ProductsAsked(b.gen)
               Q == {m \in ProductsAsked(b.gen) : m.level = b.level}
               R == ProductsFound(b.gen)
               S == {m \in ProductsFound(b.gen) : m.level = b.level}
    <2>1. ToSet(b.analyticsTx) \cap P = {} /\ ToSet(ms) \cap R = {}
        BY <1>3 DEF ProductsAsked, ProductsFound, OfGen
    <2>2. shownLevel
        BY <1>1
    <2> HIDE DEF P, Q, R, S, shownLevel
    <2>3. Decided(b.analyticsTx, P, Q, ms, R, S, shownLevel)
        BY <1>6, <2>1, <2>2, DecidedNew
    <2> QED
        BY <2>3, Zenon DEF Leveled, P, Q, R, S, shownLevel
<1>8. Pivoted(b, ms)
    <2> DEFINE P == PivotAsked(b.gen)
               Q == {m \in PivotAsked(b.gen) : m.dims = b.dims}
               R == PivotFound(b.gen)
               S == {m \in PivotFound(b.gen) : m.dims = b.dims}
    <2>1. ToSet(b.analyticsTx) \cap P = {} /\ ToSet(ms) \cap R = {}
        BY <1>3 DEF PivotAsked, PivotFound, OfGen
    <2>2. shownDims
        BY <1>1
    <2> HIDE DEF P, Q, R, S, shownDims
    <2>3. Decided(b.analyticsTx, P, Q, ms, R, S, shownDims)
        BY <1>6, <2>1, <2>2, DecidedNew
    <2> QED
        BY <2>3, Zenon DEF Pivoted, P, Q, R, S, shownDims
<1>9. ASSUME NEW m \in ToSet(ms) PROVE FreshAnswer(b, d, m)
    <2>1. m \in Answers(a, 0)
        BY ItemsOf
    <2>2. a.underpricing.gen \in Nat
        BY Panels DEF Good, Results
    <2>3. m.kind = "UnderpricingDone" => m.gen \in Nat /\ m.gen <= a.underpricing.gen
        BY <2>1, KindsOfAnswers DEF ScansFound, OfScan
    <2>4. m.kind = "UnderpricingDone" => m.gen # b.underpricing.gen
        BY <1>1, <2>2, <2>3
    <2>5. \A k \in {"SearchPage", "SearchCount", "AnalyticsDone", "SectionDone", "PivotDone"} :
              ~(m.kind = k /\ m.gen = b.gen)
        BY <1>3 DEF OfGen
    <2> QED
        BY <1>1, <2>4, <2>5 DEF FreshAnswer, OfGen
<1>10. FreshShown(b, d)
    BY <1>1, <1>2 DEF FreshShown
<1> QED
    BY <1>3, <1>4, <1>5, <1>7, <1>8, <1>9, <1>10 DEF Asking, FreshNow

\* The window that asks the search worker differs in that channel.
LEMMA AskedSearch ==
    ASSUME NEW b, IsWindow(b), NEW req
    PROVE  /\ IsWindow(AskSearch(b, req)) /\ AskSearch(b, req).searchTx = Append(b.searchTx, req)
           /\ \A x \in Fields \ {"searchTx"} : AskSearch(b, req)[x] = b[x]
<1>1. IsWindow(AskSearch(b, req)) /\ \A x \in Fields \ {"searchTx"} : AskSearch(b, req)[x] = b[x]
    BY DEF IsWindow, AskSearch
<1>2. AskSearch(b, req).searchTx = Append(b.searchTx, req)
    BY DEF IsWindow, Fields, AskSearch
<1> QED
    BY <1>1, <1>2

\* A search again sends the search of the new generation.
LEMMA SearchAgainSends ==
    ASSUME NEW c, IsWindow(c), IsWindow(NextSearch(c))
    PROVE  /\ IsWindow(SearchAgain(c))
           /\ \A x \in Fields \ {"searchTx"} : SearchAgain(c)[x] = NextSearch(c)[x]
           /\ SearchAgain(c).searchTx = Append(NextSearch(c).searchTx, SearchOf(SearchAgain(c)))
<1> DEFINE d == NextSearch(c)
           req == [kind |-> "Search", query |-> c.active, page |-> c.page, gen |-> c.gen + 1]
           b == AskSearch(d, req)
<1>1. SearchAgain(c) = b
    BY DEF SearchAgain, NextSearch
<1>2. d.gen = c.gen + 1 /\ d.active = c.active /\ d.page = c.page
    BY DEF NextSearch, IsWindow, Fields
<1>3. IsWindow(d)
    OBVIOUS
<1> HIDE DEF d
<1>4. req = SearchOf(d)
    BY <1>2 DEF SearchOf
<1> HIDE DEF req
<1>5. /\ IsWindow(b) /\ b.searchTx = Append(d.searchTx, req)
      /\ \A x \in Fields \ {"searchTx"} : b[x] = d[x]
    BY <1>3, AskedSearch
<1> HIDE DEF b
<1>6. b.active = d.active /\ b.page = d.page /\ b.gen = d.gen
    BY <1>5 DEF Fields
<1>7. SearchOf(b) = req
    BY <1>4, <1>6 DEF SearchOf
<1> QED
    BY <1>1, <1>5, <1>7 DEF d

\* The search that is started, before its tab asks.
LEMMA StartedAnew ==
    ASSUME NEW a, Good(a, 0)
    PROVE  /\ Anew(a, SearchAgain(Cleared(a)))
           /\ Good(SearchAgain(Cleared(a)), 0) /\ Carries(a, SearchAgain(Cleared(a)))
<1> DEFINE c == Cleared(a)
           d == NextSearch(c)
           b == SearchAgain(c)
<1>1. IsWindow(c) /\ c.gen = a.gen /\ IsWindow(d) /\ Renewed(a, d)
    BY ClearedRenews
<1>2. \A x \in Fields \ {"page", "active", "turned", "overtaken", "analytics", "loaded", "loading",
                         "explorer", "pivot", "compare", "underpricing", "gen", "searching",
                         "counting", "more", "total"} : d[x] = a[x]
    BY ClearedRenews
<1>3. /\ d.searching = TRUE /\ d.counting = TRUE /\ d.total = None
      /\ d.turned = FALSE /\ d.overtaken = FALSE /\ d.analytics = None
      /\ d.loaded = {} /\ d.explorer = None /\ d.pivot = None
      /\ d.underpricing = Invalidated(a.underpricing)
    BY ClearedRenews
<1> HIDE DEF c
<1>4. Good(b, 0) /\ Carries(a, b)
    BY <1>1, SearchAgainKeeps
<1>5. /\ \A x \in Fields \ {"searchTx"} : b[x] = d[x]
      /\ b.searchTx = Append(d.searchTx, SearchOf(b))
    BY <1>1, SearchAgainSends
<1> HIDE DEF b, d
<1>6. d.searchTx = a.searchTx /\ d.analyticsTx = a.analyticsTx /\ d.rows = a.rows
      /\ d.ready = a.ready /\ d.dbTotal = a.dbTotal
    BY <1>2 DEF Fields
<1>7. d.gen = a.gen + 1
    BY <1>1 DEF Renewed
<1>8. /\ b.gen = d.gen /\ b.searching = d.searching /\ b.counting = d.counting /\ b.total = d.total
      /\ b.analyticsTx = d.analyticsTx /\ b.rows = d.rows /\ b.ready = d.ready
      /\ b.dbTotal = d.dbTotal
    BY <1>5 DEF Fields
<1>9. Again(a, b)
    BY <1>3, <1>5, <1>6, <1>7, <1>8 DEF Again
<1>10. /\ b.turned = d.turned /\ b.overtaken = d.overtaken /\ b.analytics = d.analytics
       /\ b.loaded = d.loaded /\ b.explorer = d.explorer /\ b.pivot = d.pivot
       /\ b.underpricing = d.underpricing
    BY <1>5 DEF Fields
<1>11. /\ Invalidated(a.underpricing).gen = a.underpricing.gen + 1
       /\ Invalidated(a.underpricing).shown = None
    BY Panels DEF Good, Results
<1>12. Anew(a, b)
    BY <1>3, <1>9, <1>10, <1>11 DEF Anew
<1> QED
    BY <1>4, <1>12 DEF b, c

\* A search that is started shows what is right, and asks for what is chosen.
LEMMA StartSearchHolds ==
    ASSUME NEW a, Good(a, 0), NEW ms \in Seq(Answers(a, 0)), NEW c \in CountStates(a), NEW d
    PROVE  /\ StartSearch(a).ready = a.ready
           /\ Searching(StartSearch(a), ms, c) /\ Asking(StartSearch(a), ms)
           /\ Counted(a, ms, d) /\ Cached(a, c, d) => Fresh(StartSearch(a), ms, c, d)
<1> DEFINE b == SearchAgain(Cleared(a))
<1>1. Anew(a, b) /\ Good(b, 0) /\ Carries(a, b)
    BY StartedAnew
<1>2. StartSearch(a) = b \/ StartSearch(a) = RequestAnalytics(b)
    BY DEF StartSearch, Cleared
<1> HIDE DEF b
<1>3. Searching(b, ms, c) /\ Asking(b, ms) /\ FreshNow(b, ms, c, d)
    BY <1>1, AnewHolds
<1>4. (Counted(a, ms, d) => Counted(b, ms, d)) /\ (Cached(a, c, d) => Cached(b, c, d))
    BY <1>1, AgainOnward DEF Anew
<1>5. Counted(a, ms, d) /\ Cached(a, c, d) => Fresh(b, ms, c, d)
    BY <1>3, <1>4 DEF Fresh
<1>6. ms \in Seq(Answers(b, 0))
    BY <1>1, AnswersCarried
<1>7. Preserves(b, RequestAnalytics(b), ms, c, d)
    BY <1>1, <1>6, RequestAnalyticsPreserves
<1>8. /\ RequestAnalytics(b).ready = b.ready
      /\ Searching(RequestAnalytics(b), ms, c) /\ Asking(RequestAnalytics(b), ms)
      /\ Counted(a, ms, d) /\ Cached(a, c, d) => Fresh(RequestAnalytics(b), ms, c, d)
    BY <1>3, <1>5, <1>7 DEF Preserves, Asking
<1>9. b.ready = a.ready
    BY <1>1 DEF Anew, Again
<1> QED
    BY <1>2, <1>3, <1>5, <1>8, <1>9

\* The same, of a search that follows what was chosen.
LEMMA StartSearchAfter ==
    ASSUME NEW a, NEW b, Good(b, 0), Carries(a, b), NEW ms \in Seq(Answers(a, 0)),
           NEW c \in CountStates(a), NEW d, Preserves(a, b, ms, c, d)
    PROVE  /\ StartSearch(b).ready = a.ready
           /\ Searching(StartSearch(b), ms, c) /\ Asking(StartSearch(b), ms)
           /\ Fresh(a, ms, c, d) => Fresh(StartSearch(b), ms, c, d)
<1>1. ms \in Seq(Answers(b, 0)) /\ c \in CountStates(b)
    BY AnswersCarried, CountsCarried
<1>2. /\ b.ready = a.ready
      /\ Fresh(a, ms, c, d) => Counted(b, ms, d) /\ Cached(b, c, d)
    BY DEF Preserves, Fresh
<1> QED
    BY <1>1, <1>2, StartSearchHolds

\* After the data were asked for anew everything that is shown or under way is of them.
LEMMA RefreshHolds ==
    ASSUME NEW a, Good(a, 0), NEW ms \in Seq(Answers(a, 0)), NEW c \in CountStates(a), NEW d
    PROVE  /\ StartSearch(AskSearch(a, [kind |-> "Stats"])).ready = a.ready
           /\ Searching(StartSearch(AskSearch(a, [kind |-> "Stats"])), ms, c)
           /\ Asking(StartSearch(AskSearch(a, [kind |-> "Stats"])), ms)
           /\ Fresh(StartSearch(AskSearch(a, [kind |-> "Stats"])), ms, c, d)
<1> DEFINE req == [kind |-> "Stats"]
           b == AskSearch(a, req)
           S == {m \in StatsFound : m.at = d.version}
           shown == b.ready => b.dbTotal = d.version
<1>1. req \in Searches(a) /\ req \in StatsAsked /\ req.kind = "Stats"
    BY DEF Searches, StatsAsked
<1> HIDE DEF req
<1>2. Good(b, 0) /\ Carries(a, b)
    BY <1>1, AskSearchKeeps
<1>3. b.searchTx = Append(a.searchTx, req) /\ a.searchTx \in Seq(Searches(a))
    BY AskedSearch DEF Good, Sent
<1>10. b.ready = a.ready
    BY AskedSearch DEF Good, Fields
<1> HIDE DEF b, S, shown
<1>4. Decided(Append(a.searchTx, req), StatsAsked, StatsAsked, ms, StatsFound, S, shown)
    BY <1>1, <1>3, DecidedAnew
<1>5. Decided(b.searchTx, StatsAsked, StatsAsked, ms, StatsFound, S, shown)
    BY <1>3, <1>4, Zenon
<1>6. Counted(b, ms, d)
    BY <1>5, Zenon DEF Counted, S, shown
<1>7. ToSet(b.searchTx) = ToSet(a.searchTx) \cup {req}
    BY <1>1, <1>3, ItemsAppended
<1>8. Cached(b, c, d)
    BY <1>1, <1>7 DEF Cached
<1>9. ms \in Seq(Answers(b, 0)) /\ c \in CountStates(b)
    BY <1>2, AnswersCarried, CountsCarried
<1> QED
    BY <1>2, <1>6, <1>8, <1>9, <1>10, StartSearchHolds DEF b, req

\* After a page was turned, what is under way besides the search is still what was asked.
LEMMA GotoPageHolds ==
    ASSUME NEW a, Good(a, 0), NEW p \in Nat, NEW ms \in Seq(Answers(a, 0)), NEW c \in CountStates(a), NEW d
    PROVE  Searching(GotoPage(a, p), ms, c) /\ Preserves(a, GotoPage(a, p), ms, c, d)
<1> DEFINE e == TurnedTo(a, p)
           g == NextSearch(e)
           b == SearchAgain(e)
<1>1. IsWindow(e) /\ e.gen = a.gen /\ IsWindow(g) /\ Renewed(a, g)
    BY TurnedRenews
<1>2. \A x \in Fields \ {"page", "turned", "gen", "searching", "counting", "more", "total"} : g[x] = a[x]
    BY TurnedRenews
<1>3. g.searching = TRUE /\ g.counting = TRUE /\ g.total = None /\ g.turned = TRUE
    BY TurnedRenews
<1>4. GotoPage(a, p) = b
    BY DEF GotoPage, TurnedTo
<1> HIDE DEF e
<1>5. /\ \A x \in Fields \ {"searchTx"} : b[x] = g[x]
      /\ b.searchTx = Append(g.searchTx, SearchOf(b))
    BY <1>1, SearchAgainSends
<1> HIDE DEF b, g
<1>6. g.searchTx = a.searchTx /\ g.analyticsTx = a.analyticsTx /\ g.rows = a.rows
      /\ g.ready = a.ready /\ g.dbTotal = a.dbTotal
    BY <1>2 DEF Fields
<1>7. g.gen = a.gen + 1
    BY <1>1 DEF Renewed
<1>8. /\ b.gen = g.gen /\ b.searching = g.searching /\ b.counting = g.counting /\ b.total = g.total
      /\ b.analyticsTx = g.analyticsTx /\ b.rows = g.rows /\ b.ready = g.ready
      /\ b.dbTotal = g.dbTotal
    BY <1>5 DEF Fields
<1>9. Again(a, b)
    BY <1>3, <1>5, <1>6, <1>7, <1>8 DEF Again
<1>10. /\ b.analytics = a.analytics /\ b.loaded = a.loaded /\ b.explorer = a.explorer
       /\ b.pivot = a.pivot /\ b.underpricing = a.underpricing /\ b.limit = a.limit
       /\ b.overtaken = a.overtaken /\ b.analyticsTx = a.analyticsTx
    BY <1>2, <1>5, <1>6, <1>8 DEF Fields
<1>11. b.turned = TRUE /\ b.searching = TRUE /\ b.total = None
    BY <1>3, <1>5 DEF Fields
<1>12. /\ \A k \in {"Analytics", "Section", "Pivot"} : \A m \in ToSet(b.analyticsTx) : ~OfGen(b, k, m)
       /\ \A k \in {"SearchPage", "SearchCount", "AnalyticsDone", "SectionDone", "PivotDone"} :
             \A m \in ToSet(ms) : ~OfGen(b, k, m)
       /\ c.at # None => c.at.gen # b.gen
       /\ Counted(a, ms, d) => Counted(b, ms, d)
       /\ Cached(a, c, d) => Cached(b, c, d)
    BY <1>9, AgainOnward
<1>13. Searching(b, ms, c)
    BY <1>9, AgainSearching
<1>14. Limited(a, ms) => Limited(b, ms)
    BY <1>10, <1>12 DEF Limited
<1>15. Leveled(b, ms) /\ Pivoted(b, ms)
    BY <1>11 DEF Leveled, Pivoted
<1>16. Grouped(a, ms) => Grouped(b, ms)
    BY <1>10 DEF Grouped
<1>17. Fresh(a, ms, c, d) => Fresh(b, ms, c, d)
    <2> SUFFICES ASSUME Fresh(a, ms, c, d) PROVE Fresh(b, ms, c, d)
        OBVIOUS
    <2>1. FreshShown(a, d) /\ \A m \in ToSet(ms) : FreshAnswer(a, d, m)
        BY DEF Fresh, FreshNow
    <2>2. FreshShown(b, d)
        BY <1>10, <1>11, <2>1 DEF FreshShown
    <2>3. ASSUME NEW m \in ToSet(ms) PROVE FreshAnswer(b, d, m)
        <3>1. \A k \in {"SearchPage", "SearchCount", "AnalyticsDone", "SectionDone", "PivotDone"} :
                  ~(m.kind = k /\ m.gen = b.gen)
            BY <1>12 DEF OfGen
        <3>2. FreshAnswer(a, d, m)
            BY <2>1
        <3> QED
            BY <1>10, <3>1, <3>2 DEF FreshAnswer, OfGen
    <2> QED
        BY <1>12, <2>2, <2>3 DEF Fresh, FreshNow
<1>18. b.ready = a.ready
    BY <1>9 DEF Again
<1> QED
    BY <1>4, <1>13, <1>14, <1>15, <1>16, <1>17, <1>18 DEF Preserves

----------------------------------------------------------------------------
(* The user's steps.                                                       *)

\* A window that may follow the present one.
Follows(b) ==
    /\ b.ready = app.ready
    /\ Searching(b, messages, count) /\ Asking(b, messages)
    /\ Fresh(app, messages, count, data) => Fresh(b, messages, count, data)

\* A window of which all holds that holds of the present one.
LEMMA PreservedFollows ==
    ASSUME FInv, faults = 0, NEW b, Preserves(app, b, messages, count, data)
    PROVE  Follows(b)
BY DEF FInv, Preserves, Asking, Follows

\* A search that is started in such a window.
LEMMA SearchFollows ==
    ASSUME IInv, faults = 0, NEW b, Good(b, 0), Carries(app, b), b.ready = app.ready,
           Fresh(app, messages, count, data) => Fresh(b, messages, count, data)
    PROVE  Follows(StartSearch(b))
<1>1. messages \in Seq(Answers(app, 0)) /\ count \in CountStates(app)
    BY DEF IInv
<1>2. messages \in Seq(Answers(b, 0)) /\ count \in CountStates(b)
    BY <1>1, AnswersCarried, CountsCarried
<1>3. /\ StartSearch(b).ready = b.ready
      /\ Searching(StartSearch(b), messages, count) /\ Asking(StartSearch(b), messages)
      /\ Counted(b, messages, data) /\ Cached(b, count, data)
            => Fresh(StartSearch(b), messages, count, data)
    BY <1>2, StartSearchHolds
<1> QED
    BY <1>3 DEF Follows, Fresh

\* A window whose settings have changed, before it asks.
LEMMA SettingsChange ==
    ASSUME IInv, FInv, faults = 0, NEW b, Carries(app, b), Quiet(app, b), b.explorer \in {app.explorer, None}
    PROVE  /\ b.ready = app.ready /\ b.analytics = app.analytics /\ b.gen = app.gen
           /\ Searching(b, messages, count) /\ Grouped(b, messages)
           /\ b.limit = app.limit /\ b.overtaken = app.overtaken => Limited(b, messages)
           /\ b.level = app.level => Leveled(b, messages)
           /\ b.dims = app.dims => Pivoted(b, messages)
           /\ Fresh(app, messages, count, data) => Fresh(b, messages, count, data)
<1>1. Good(app, 0) /\ messages \in Seq(Answers(app, 0))
    BY DEF IInv
<1>2. app.underpricing.gen \in Nat
    BY <1>1, Panels DEF Good, Results
<1>3. Asks(app, b, <<>>)
    BY <1>1, QuietAsks
<1>4. Searching(app, messages, count) /\ Asking(app, messages)
    BY DEF FInv
<1>5. b.ready = app.ready /\ b.analytics = app.analytics /\ b.gen = app.gen
    BY <1>3 DEF Asks
<1>6. Searching(b, messages, count)
    BY <1>3, <1>4, AsksSearching
<1>7. b.limit = app.limit /\ b.overtaken = app.overtaken => Limited(b, messages)
    BY <1>3, <1>4, AsksLimited DEF Asking
<1>8. b.level = app.level => Leveled(b, messages)
    BY <1>3, <1>4, AsksLeveled DEF Asking
<1>9. b.dims = app.dims => Pivoted(b, messages)
    BY <1>3, <1>4, AsksPivoted DEF Asking
<1>10. Grouped(b, messages)
    BY <1>3, <1>4, AsksGrouped DEF Asking
<1>11. Fresh(app, messages, count, data) => Fresh(b, messages, count, data)
    BY <1>1, <1>2, <1>3, AsksFresh
<1> QED
    BY <1>5, <1>6, <1>7, <1>8, <1>9, <1>10, <1>11

\* What the window asks after its settings have changed.
LEMMA AskedFollows ==
    ASSUME NEW b, NEW e, Preserves(b, e, messages, count, data), b.ready = app.ready,
           Searching(b, messages, count), Grouped(b, messages),
           Fresh(app, messages, count, data) => Fresh(b, messages, count, data),
           Limited(b, messages), Leveled(b, messages) \/ Leveled(e, messages),
           Pivoted(b, messages) \/ Pivoted(e, messages)
    PROVE  Follows(e)
BY DEF Follows, Preserves, Asking

\* The window takes the next state; the user may have started an operation.
LEMMA WindowHolds ==
    ASSUME IInv, FInv, NEW b, Good(b, faults), Window(b), faults = 0 => Follows(b),
           UNCHANGED <<messages, startup, search, count, analyst, data, faults>>,
           ops' = ops \/ (app.ready /\ \E o : ops' = Append(ops, o))
    PROVE  FInv'
<1> SUFFICES ASSUME faults = 0
             PROVE  /\ Alive'
                    /\ Starting(app', messages', startup', ops', data')
                    /\ Searching(app', messages', count') /\ Asking(app', messages')
                    /\ ~Renewal(messages', ops') => Fresh(app', messages', count', data')
    BY DEF FInv
<1>1. /\ messages' = messages /\ startup' = startup /\ search' = search /\ count' = count
      /\ analyst' = analyst /\ data' = data
    OBVIOUS
<1>2. /\ Alive /\ Starting(app, messages, startup, ops, data)
      /\ ~Renewal(messages, ops) => Fresh(app, messages, count, data)
    BY DEF FInv
<1>3. Alive' /\ search # "dead" /\ analyst # "dead"
    BY <1>1, <1>2 DEF Alive
<1>4. app' = b
    <2>1. app' = [b EXCEPT !.searchTx = b.searchTx, !.analyticsTx = b.analyticsTx]
        BY <1>3 DEF Window
    <2>2. IsWindow(b)
        BY DEF Good
    <2> QED
        BY <2>1, <2>2 DEF IsWindow, Fields
<1>5. Follows(b)
    OBVIOUS
<1>6. Searching(app', messages', count') /\ Asking(app', messages')
    BY <1>1, <1>4, <1>5 DEF Follows
<1>7. b.ready = app.ready
    BY <1>5 DEF Follows
<1>8. ops \in Seq(Operations)
    BY DEF IInv
<1>9. Starting(app', messages', startup', ops', data')
    <2>1. Starting(b, messages, startup, ops', data)
        BY <1>2, <1>7 DEF Starting
    <2> QED
        BY <1>1, <1>4, <2>1
<1>10. Renewal(messages, ops) => Renewal(messages, ops')
    <2>1. CASE ops' = ops
        BY <2>1
    <2>2. CASE \E o : ops' = Append(ops, o)
        <3>1. PICK o : ops' = Append(ops, o)
            BY <2>2
        <3>2. \A i \in DOMAIN ops : i \in DOMAIN ops' /\ ops'[i] = ops[i]
            BY <1>8, <3>1
        <3> QED
            BY <3>2 DEF Renewal
    <2> QED
        BY <2>1, <2>2
<1>11. ~Renewal(messages', ops') => Fresh(app', messages', count', data')
    BY <1>1, <1>2, <1>4, <1>5, <1>10 DEF Follows
<1> QED
    BY <1>3, <1>6, <1>9, <1>11

\* A click after which the window follows.
LEMMA ClickHolds ==
    ASSUME IInv, FInv, NEW b, Good(b, faults), Click(b), faults = 0 => Follows(b),
           ops' = ops \/ (app.ready /\ \E o : ops' = Append(ops, o))
    PROVE  FInv'
<1>1. Window(b) /\ UNCHANGED <<messages, startup, search, count, analyst, data, faults>>
    BY DEF Click
<1> QED
    BY <1>1, WindowHolds

\* The user types.
LEMMA TypeHolds ==
    ASSUME IInv, FInv, NEW q \in Asked, Type(q)
    PROVE  FInv'
<1> DEFINE b == [app EXCEPT !.typed = q]
<1>1. /\ Good(app, faults) /\ faults \in Nat /\ messages \in Seq(Answers(app, faults))
    BY DEF IInv
<1>2. Good(b, faults)
    BY <1>1, ChoicesKeep
<1>3. Click(b) /\ ops' = ops
    BY DEF Type
<1>4. faults = 0 => Follows(b)
    <2> SUFFICES ASSUME faults = 0 PROVE Follows(b)
        OBVIOUS
    <2>1. Preserves(app, b, messages, count, data)
        BY <1>1, ChoicesPreserve
    <2> HIDE DEF b
    <2> QED
        BY <2>1, PreservedFollows
<1> HIDE DEF b
<1> QED
    BY <1>2, <1>3, <1>4, ClickHolds

\* The user searches, from the toolbar or from a dossier.
LEMMA FindHolds ==
    ASSUME IInv, FInv, NEW q \in Asked, NEW tab \in {"Results", "Analytics"}, Find(q, tab)
    PROVE  FInv'
<1>1. faults \in Nat /\ Good(app, faults) /\ messages \in Seq(Answers(app, faults))
    BY DEF IInv
<1> DEFINE b == [app EXCEPT !.typed = q, !.tab = tab]
           e == [CloseProfile(app) EXCEPT !.typed = q, !.tab = tab]
<1>2. ASSUME NEW a, Good(a, faults), Carries(app, a),
             faults = 0 => Preserves(app, a, messages, count, data)
      PROVE  LET g == [a EXCEPT !.typed = q, !.tab = tab]
             IN  Good(StartSearch(g), faults) /\ (faults = 0 => Follows(StartSearch(g)))
    <2> DEFINE g == [a EXCEPT !.typed = q, !.tab = tab]
    <2>1. Good(g, faults) /\ Carries(a, g)
        BY <1>1, <1>2, ChoicesKeep
    <2>2. IsWindow(g) /\ \A x \in Fields \ {"typed", "tab"} : g[x] = a[x]
        BY <1>2 DEF Good, IsWindow
    <2> HIDE DEF g
    <2>3. Carries(app, g)
        BY <1>2, <2>1, CarriesOn
    <2>4. Good(StartSearch(g), faults)
        BY <1>1, <2>1, StartSearchKeeps
    <2>5. ASSUME faults = 0 PROVE Follows(StartSearch(g))
        <3>1. Good(a, 0) /\ Preserves(app, a, messages, count, data)
            BY <1>2, <2>5
        <3>2. messages \in Seq(Answers(a, 0))
            BY <1>1, <1>2, <2>5, AnswersCarried
        <3>3. Preserves(a, g, messages, count, data)
            BY <2>1, <2>2, <3>1, <3>2, FreePreserves DEF Free
        <3>4. Preserves(app, g, messages, count, data)
            BY <3>1, <3>3, PreservesOn
        <3> QED
            BY <2>1, <2>3, <2>5, <3>4, SearchFollows DEF Preserves
    <2> QED
        BY <2>4, <2>5 DEF g
<1>3. Good(CloseProfile(app), faults) /\ Carries(app, CloseProfile(app))
    BY <1>1, CloseProfileKeeps
<1>4. Carries(app, app)
    BY DEF Carries
<1>5. Good(StartSearch(b), faults) /\ (faults = 0 => Follows(StartSearch(b)))
    BY <1>1, <1>2, <1>4, PreservesItself
<1>6. faults = 0 => Preserves(app, CloseProfile(app), messages, count, data)
    BY <1>1, ChoicesPreserve
<1>7. Good(StartSearch(e), faults) /\ (faults = 0 => Follows(StartSearch(e)))
    BY <1>2, <1>3, <1>6
<1>8. (Click(StartSearch(b)) \/ Click(StartSearch(e))) /\ ops' = ops
    BY DEF Find
<1> HIDE DEF b, e
<1> QED
    BY <1>5, <1>7, <1>8, ClickHolds

\* The user turns the page.
LEMMA TurnPageHolds ==
    ASSUME IInv, FInv, TurnPage
    PROVE  FInv'
<1>1. /\ faults \in Nat /\ Good(app, faults) /\ messages \in Seq(Answers(app, faults))
      /\ count \in CountStates(app)
    BY DEF IInv
<1>2. PICK p \in Targets : Click(GotoPage(app, p)) /\ ops' = ops
    BY DEF TurnPage
<1>3. p \in Nat /\ Good(GotoPage(app, p), faults)
    BY <1>1, TargetsAreNatural, GotoPageKeeps
<1>4. faults = 0 => Preserves(app, GotoPage(app, p), messages, count, data)
    BY <1>1, <1>3, GotoPageHolds
<1> QED
    BY <1>2, <1>3, <1>4, PreservedFollows, ClickHolds

\* What the window asks after a setting that nothing is judged by.
LEMMA AskingFollows ==
    ASSUME IInv, FInv, NEW b, Good(b, faults), Carries(app, b),
           faults = 0 => Preserves(app, b, messages, count, data)
    PROVE  /\ Good(RequestAnalytics(b), faults)
           /\ faults = 0 => Follows(RequestAnalytics(b)) /\ Follows(b)
<1>1. faults \in Nat /\ messages \in Seq(Answers(app, faults))
    BY DEF IInv
<1>2. Good(RequestAnalytics(b), faults)
    BY <1>1, RequestAnalyticsKeeps
<1>3. ASSUME faults = 0 PROVE Follows(RequestAnalytics(b)) /\ Follows(b)
    <2>1. messages \in Seq(Answers(b, 0))
        BY <1>1, <1>3, AnswersCarried
    <2>2. Preserves(b, RequestAnalytics(b), messages, count, data)
        BY <1>3, <2>1, RequestAnalyticsPreserves
    <2>3. Preserves(app, RequestAnalytics(b), messages, count, data)
        BY <1>3, <2>2, PreservesOn
    <2> QED
        BY <1>3, <2>3, PreservedFollows
<1> QED
    BY <1>2, <1>3

\* The user changes the tab.
LEMMA ShowTabHolds ==
    ASSUME IInv, FInv, NEW tab \in {"Results", "Analytics"}, ShowTab(tab)
    PROVE  FInv'
<1>1. faults \in Nat /\ Good(app, faults) /\ messages \in Seq(Answers(app, faults))
    BY DEF IInv
<1> DEFINE b == [app EXCEPT !.tab = tab]
<1>2. Good(b, faults) /\ Carries(app, b)
    BY <1>1, ChoicesKeep
<1>3. faults = 0 => Preserves(app, b, messages, count, data)
    BY <1>1, ChoicesPreserve
<1>4. (Click(RequestAnalytics(b)) \/ Click(b)) /\ ops' = ops
    BY DEF ShowTab
<1> HIDE DEF b
<1> QED
    BY <1>2, <1>3, <1>4, AskingFollows, ClickHolds

\* The user changes the view.
LEMMA ChooseViewHolds ==
    ASSUME IInv, FInv, NEW v \in Views, ChooseView(v)
    PROVE  FInv'
<1>1. faults \in Nat /\ Good(app, faults) /\ messages \in Seq(Answers(app, faults))
    BY DEF IInv
<1> DEFINE b == [app EXCEPT !.view = v]
<1>2. Good(b, faults) /\ Carries(app, b)
    BY <1>1, ChoicesKeep
<1>3. faults = 0 => Preserves(app, b, messages, count, data)
    BY <1>1, ChoicesPreserve
<1>4. Click(RequestAnalytics(b)) /\ ops' = ops
    BY DEF ChooseView
<1> HIDE DEF b
<1> QED
    BY <1>2, <1>3, <1>4, AskingFollows, ClickHolds

\* The user chooses the level of the products: these are asked for anew.
LEMMA ChooseLevelHolds ==
    ASSUME IInv, FInv, NEW l \in Levels, ChooseLevel(l)
    PROVE  FInv'
<1>1. faults \in Nat /\ Good(app, faults) /\ messages \in Seq(Answers(app, faults))
    BY DEF IInv
<1> DEFINE b == [app EXCEPT !.level = l, !.loaded = @ \ {"Products"}]
           e == RequestAnalytics(b)
<1>2. Good(b, faults) /\ Carries(app, b)
    BY <1>1, LevelKeeps
<1>3. IsWindow(b) /\ \A x \in Fields \ {"level", "loaded"} : b[x] = app[x]
    BY <1>1 DEF Good, IsWindow
<1>4. b.loaded = app.loaded \ {"Products"}
    BY <1>1 DEF Good, IsWindow, Fields
<1>5. Click(e) /\ ops' = ops /\ app.active # NoQuery /\ app.view = "Products"
    BY DEF ChooseLevel, InAnalytics
<1> HIDE DEF b
<1>6. /\ b.active = app.active /\ b.view = app.view /\ b.explorer = app.explorer /\ b.pivot = app.pivot
      /\ b.analyticsTx = app.analyticsTx /\ b.underpricing = app.underpricing
      /\ b.limit = app.limit /\ b.overtaken = app.overtaken /\ b.dims = app.dims
    BY <1>3 DEF Fields
<1>7. Good(e, faults)
    BY <1>1, <1>2, RequestAnalyticsKeeps
<1>8. ASSUME faults = 0 PROVE Follows(e)
    <2>1. \A x \in Fields \ Moved : b[x] = app[x]
        BY <1>3 DEF Moved
    <2>2. Quiet(app, b)
        BY <1>3, <1>4, <1>6, <2>1 DEF Quiet
    <2>3. /\ b.ready = app.ready /\ Searching(b, messages, count) /\ Grouped(b, messages)
          /\ Limited(b, messages) /\ Pivoted(b, messages)
          /\ Fresh(app, messages, count, data) => Fresh(b, messages, count, data)
        BY <1>2, <1>6, <1>8, <2>2, SettingsChange
    <2>4. Good(b, 0) /\ messages \in Seq(Answers(b, 0))
        BY <1>1, <1>2, <1>8, AnswersCarried
    <2>5. Preserves(b, e, messages, count, data)
        BY <2>4, RequestAnalyticsPreserves
    <2>6. ~Loaded(b, "Products")
        BY <1>4 DEF Loaded
    <2>7. Leveled(e, messages)
        BY <1>5, <1>6, <2>4, <2>6, ProductsRequested
    <2> HIDE DEF e
    <2> QED
        BY <2>3, <2>5, <2>7, AskedFollows
<1> HIDE DEF e
<1> QED
    BY <1>5, <1>7, <1>8, ClickHolds

\* The user asks for more rows: nothing is loaded, and what is under way is overtaken.
LEMMA ShowMoreHolds ==
    ASSUME IInv, FInv, ShowMore
    PROVE  FInv'
<1>1. faults \in Nat /\ Good(app, faults) /\ messages \in Seq(Answers(app, faults))
    BY DEF IInv
<1> DEFINE late == app.overtaken \/ app.analyticsTx # <<>> \/ messages # <<>>
           b == [app EXCEPT !.limit = 50, !.loaded = {}, !.overtaken = late]
           e == RequestAnalytics(b)
<1>2. late \in BOOLEAN
    BY <1>1 DEF Good, Settings
<1>3. Good(b, faults) /\ Carries(app, b)
    <2> HIDE DEF late
    <2> QED
        BY <1>1, <1>2, LimitKeeps
<1>4. IsWindow(b) /\ \A x \in Fields \ {"limit", "loaded", "overtaken"} : b[x] = app[x]
    BY <1>1 DEF Good, IsWindow
<1>5. b.loaded = {} /\ b.overtaken = late
    <2> HIDE DEF late
    <2> QED
        BY <1>1 DEF Good, IsWindow, Fields
<1>6. Click(e) /\ ops' = ops
    BY DEF ShowMore
<1> HIDE DEF b
<1>7. /\ b.explorer = app.explorer /\ b.pivot = app.pivot
      /\ b.analyticsTx = app.analyticsTx /\ b.underpricing = app.underpricing
      /\ b.level = app.level /\ b.dims = app.dims
    BY <1>4 DEF Fields
<1>8. Good(e, faults)
    BY <1>1, <1>3, RequestAnalyticsKeeps
<1>9. ASSUME faults = 0 PROVE Follows(e)
    <2>1. \A x \in Fields \ Moved : b[x] = app[x]
        BY <1>4 DEF Moved
    <2>2. Quiet(app, b)
        BY <1>4, <1>5, <1>7, <2>1 DEF Quiet
    <2>3. /\ b.ready = app.ready /\ Searching(b, messages, count) /\ Grouped(b, messages)
          /\ Leveled(b, messages) /\ Pivoted(b, messages)
          /\ Fresh(app, messages, count, data) => Fresh(b, messages, count, data)
        BY <1>3, <1>7, <1>9, <2>2, SettingsChange
    <2>4. Limited(b, messages)
        <3>1. ~b.overtaken => b.analyticsTx = <<>> /\ messages = <<>>
            BY <1>5, <1>7
        <3>2. ToSet(<<>>) = {}
            BY DEF ToSet
        <3> QED
            BY <1>5, <3>1, <3>2 DEF Limited
    <2>5. Good(b, 0) /\ messages \in Seq(Answers(b, 0))
        BY <1>1, <1>3, <1>9, AnswersCarried
    <2>6. Preserves(b, e, messages, count, data)
        BY <2>5, RequestAnalyticsPreserves
    <2> HIDE DEF e
    <2> QED
        BY <2>3, <2>4, <2>6, AskedFollows
<1> HIDE DEF e
<1> QED
    BY <1>6, <1>8, <1>9, ClickHolds

\* The user chooses the dimensions of the pivot, which is asked for anew.
LEMMA RepivotHolds ==
    ASSUME IInv, FInv, NEW d \in Dims, Repivot(d)
    PROVE  FInv'
<1>1. faults \in Nat /\ Good(app, faults) /\ messages \in Seq(Answers(app, faults))
    BY DEF IInv
<1> DEFINE b == [app EXCEPT !.dims = d]
           e == RequestPivot(b)
<1>2. Good(b, faults) /\ Carries(app, b)
    BY <1>1, ChoicesKeep
<1>3. IsWindow(b) /\ \A x \in Fields \ {"dims"} : b[x] = app[x]
    BY <1>1 DEF Good, IsWindow
<1>4. Click(e) /\ ops' = ops /\ app.active # NoQuery
    BY DEF Repivot, InAnalytics
<1> HIDE DEF b
<1>5. /\ b.active = app.active /\ b.explorer = app.explorer /\ b.pivot = app.pivot
      /\ b.analyticsTx = app.analyticsTx /\ b.underpricing = app.underpricing
      /\ b.loaded = app.loaded
      /\ b.limit = app.limit /\ b.overtaken = app.overtaken /\ b.level = app.level
    BY <1>3 DEF Fields
<1>6. Good(e, faults)
    BY <1>1, <1>2, RequestPivotKeeps
<1>7. ASSUME faults = 0 PROVE Follows(e)
    <2>1. \A x \in Fields \ Moved : b[x] = app[x]
        BY <1>3 DEF Moved
    <2>2. Quiet(app, b)
        BY <1>3, <1>5, <2>1 DEF Quiet
    <2>3. /\ b.ready = app.ready /\ Searching(b, messages, count) /\ Grouped(b, messages)
          /\ Limited(b, messages) /\ Leveled(b, messages)
          /\ Fresh(app, messages, count, data) => Fresh(b, messages, count, data)
        BY <1>2, <1>5, <1>7, <2>2, SettingsChange
    <2>4. Good(b, 0) /\ messages \in Seq(Answers(b, 0))
        BY <1>1, <1>2, <1>7, AnswersCarried
    <2>5. Preserves(b, e, messages, count, data) /\ Pivoted(e, messages)
        BY <1>4, <1>5, <2>4, RequestPivotPreserves
    <2> HIDE DEF e
    <2> QED
        BY <2>3, <2>5, AskedFollows
<1> HIDE DEF e
<1> QED
    BY <1>4, <1>6, <1>7, ClickHolds

\* The user follows a guided question to a view.
LEMMA GuideToViewHolds ==
    ASSUME IInv, FInv, NEW v \in Views, GuideToView(v)
    PROVE  FInv'
<1>1. faults \in Nat /\ Good(app, faults) /\ messages \in Seq(Answers(app, faults))
    BY DEF IInv
<1> DEFINE b == [app EXCEPT !.tab = "Analytics", !.view = v]
<1>2. Good(b, faults) /\ Carries(app, b)
    BY <1>1, ChoicesKeep
<1>3. faults = 0 => Preserves(app, b, messages, count, data)
    BY <1>1, ChoicesPreserve
<1>4. (Click(StartSearch(b)) \/ Click(RequestAnalytics(b))) /\ ops' = ops
    BY DEF GuideToView, Guide
<1> HIDE DEF b
<1>5. Good(StartSearch(b), faults)
    BY <1>1, <1>2, StartSearchKeeps
<1>6. faults = 0 => Follows(StartSearch(b))
    BY <1>2, <1>3, SearchFollows DEF Preserves
<1> QED
    BY <1>2, <1>3, <1>4, <1>5, <1>6, AskingFollows, ClickHolds

\* The user follows a guided question to a pivot.
LEMMA GuideToPivotHolds ==
    ASSUME IInv, FInv, NEW d \in Dims, GuideToPivot(d)
    PROVE  FInv'
<1>1. faults \in Nat /\ Good(app, faults) /\ messages \in Seq(Answers(app, faults))
    BY DEF IInv
<1> DEFINE b == [app EXCEPT !.tab = "Analytics", !.view = "Pivot", !.dims = d, !.pivot = None,
                            !.loaded = @ \ {"Pivot"}]
           e == RequestAnalytics(b)
<1>2. Good(b, faults) /\ Carries(app, b)
    BY <1>1, GuidedPivotKeeps
<1>3. IsWindow(b) /\ \A x \in Fields \ {"tab", "view", "dims", "pivot", "loaded"} : b[x] = app[x]
    BY <1>1 DEF Good, IsWindow
<1>4. b.view = "Pivot" /\ b.pivot = None /\ b.loaded = app.loaded \ {"Pivot"}
    BY <1>1 DEF Good, IsWindow, Fields
<1>5. (Click(StartSearch(b)) \/ (Click(e) /\ app.active # NoQuery)) /\ ops' = ops
    BY DEF GuideToPivot, Guide
<1> HIDE DEF b
<1>6. /\ b.active = app.active /\ b.explorer = app.explorer
      /\ b.analyticsTx = app.analyticsTx /\ b.underpricing = app.underpricing
      /\ b.limit = app.limit /\ b.overtaken = app.overtaken /\ b.level = app.level
    BY <1>3 DEF Fields
<1>7. Good(e, faults) /\ Good(StartSearch(b), faults)
    BY <1>1, <1>2, RequestAnalyticsKeeps, StartSearchKeeps
<1>8. ASSUME faults = 0 PROVE Follows(StartSearch(b)) /\ (app.active # NoQuery => Follows(e))
    <2>1. \A x \in Fields \ Moved : b[x] = app[x]
        BY <1>3 DEF Moved
    <2>2. Quiet(app, b)
        BY <1>3, <1>4, <1>6, <2>1 DEF Quiet
    <2>3. /\ b.ready = app.ready /\ Searching(b, messages, count) /\ Grouped(b, messages)
          /\ Limited(b, messages) /\ Leveled(b, messages)
          /\ Fresh(app, messages, count, data) => Fresh(b, messages, count, data)
        BY <1>2, <1>6, <1>8, <2>2, SettingsChange
    <2>4. Good(b, 0) /\ messages \in Seq(Answers(b, 0))
        BY <1>1, <1>2, <1>8, AnswersCarried
    <2>5. Preserves(b, e, messages, count, data) /\ (app.active # NoQuery => Pivoted(e, messages))
        BY <1>4, <1>6, <2>4, RequestAnalyticsPreserves
    <2>6. Follows(StartSearch(b))
        BY <1>2, <1>8, <2>3, <2>4, SearchFollows
    <2> HIDE DEF e
    <2> QED
        BY <2>3, <2>5, <2>6, AskedFollows
<1> HIDE DEF e
<1> QED
    BY <1>5, <1>7, <1>8, ClickHolds

\* The user follows a guided question to the groups of a kind.
LEMMA GuideToGroupsHolds ==
    ASSUME IInv, FInv, NEW k \in Kinds, GuideToGroups(k)
    PROVE  FInv'
<1>1. /\ faults \in Nat /\ Good(app, faults) /\ messages \in Seq(Answers(app, faults))
      /\ count \in CountStates(app)
    BY DEF IInv
<1> DEFINE b == [app EXCEPT !.tab = "Analytics"]
<1>2. Good(b, faults) /\ Carries(app, b)
    BY <1>1, ChoicesKeep
<1>3. faults = 0 => Preserves(app, b, messages, count, data)
    BY <1>1, ChoicesPreserve
<1>4. /\ Click(OpenGroupExplorer(StartSearch(b), k)) \/ Click(OpenGroupExplorer(b, k))
      /\ ops' = ops
    BY DEF GuideToGroups
<1> HIDE DEF b
<1>5. Good(StartSearch(b), faults) /\ Carries(app, StartSearch(b))
    BY <1>1, <1>2, StartSearchKeeps, CarriesOn
<1>6. faults = 0 => Follows(b) /\ Follows(StartSearch(b))
    BY <1>2, <1>3, PreservedFollows, SearchFollows DEF Preserves
<1>7. ASSUME NEW e, Good(e, faults), Carries(app, e), faults = 0 => Follows(e)
      PROVE  Good(OpenGroupExplorer(e, k), faults) /\ (faults = 0 => Follows(OpenGroupExplorer(e, k)))
    <2>1. Good(OpenGroupExplorer(e, k), faults)
        BY <1>1, <1>7, OpenGroupExplorerKeeps
    <2>2. ASSUME faults = 0 PROVE Follows(OpenGroupExplorer(e, k))
        <3>1. messages \in Seq(Answers(e, 0))
            BY <1>1, <1>7, <2>2, AnswersCarried
        <3>2. Preserves(e, OpenGroupExplorer(e, k), messages, count, data)
            BY <1>7, <2>2, <3>1, OpenGroupExplorerPreserves
        <3> QED
            BY <1>7, <2>2, <3>2 DEF Follows, Preserves, Asking
    <2> QED
        BY <2>1, <2>2
<1> QED
    BY <1>2, <1>4, <1>5, <1>6, <1>7, ClickHolds

\* The user compares, scans the prices, opens or closes something.
LEMMA AskingHolds ==
    ASSUME IInv, FInv, Compare \/ Scan \/ CloseExplorer \/ LeaveProfile
    PROVE  FInv'
<1>1. faults \in Nat /\ Good(app, faults) /\ messages \in Seq(Answers(app, faults))
    BY DEF IInv
<1>2. CASE Compare
    <2>1. Click(RequestCompare(app)) /\ ops' = ops
        BY <1>2 DEF Compare
    <2>2. Good(RequestCompare(app), faults)
        BY <1>1, RequestCompareKeeps
    <2>3. faults = 0 => Preserves(app, RequestCompare(app), messages, count, data)
        BY <1>1, RequestComparePreserves
    <2> QED
        BY <2>1, <2>2, <2>3, PreservedFollows, ClickHolds
<1>3. CASE Scan
    <2>1. Click(RequestUnderpricing(app)) /\ ops' = ops
        BY <1>3 DEF Scan
    <2>2. Good(RequestUnderpricing(app), faults)
        BY <1>1, RequestUnderpricingKeeps
    <2>3. faults = 0 => Preserves(app, RequestUnderpricing(app), messages, count, data)
        BY <1>1, RequestUnderpricingPreserves
    <2> QED
        BY <2>1, <2>2, <2>3, PreservedFollows, ClickHolds
<1>4. CASE CloseExplorer
    <2> DEFINE b == [app EXCEPT !.explorer = None]
    <2>1. Click(b) /\ ops' = ops
        BY <1>4 DEF CloseExplorer
    <2>2. Good(b, faults)
        BY <1>1, ExplorerClosed
    <2>3. faults = 0 => Preserves(app, b, messages, count, data)
        BY <1>1, ChoicesPreserve
    <2> HIDE DEF b
    <2> QED
        BY <2>1, <2>2, <2>3, PreservedFollows, ClickHolds
<1>5. CASE LeaveProfile
    <2>1. Click(CloseProfile(app)) /\ ops' = ops
        BY <1>5 DEF LeaveProfile
    <2>2. Good(CloseProfile(app), faults)
        BY <1>1, CloseProfileKeeps
    <2>3. faults = 0 => Preserves(app, CloseProfile(app), messages, count, data)
        BY <1>1, ChoicesPreserve
    <2> QED
        BY <2>1, <2>2, <2>3, PreservedFollows, ClickHolds
<1> QED
    BY <1>2, <1>3, <1>4, <1>5

\* The user opens the groups of a kind.
LEMMA ExploreHolds ==
    ASSUME IInv, FInv, NEW k \in Kinds, Explore(k)
    PROVE  FInv'
<1>1. faults \in Nat /\ Good(app, faults) /\ messages \in Seq(Answers(app, faults))
    BY DEF IInv
<1>2. Click(OpenGroupExplorer(app, k)) /\ ops' = ops
    BY DEF Explore
<1>3. Good(OpenGroupExplorer(app, k), faults)
    BY <1>1, OpenGroupExplorerKeeps
<1>4. faults = 0 => Preserves(app, OpenGroupExplorer(app, k), messages, count, data)
    BY <1>1, OpenGroupExplorerPreserves
<1> QED
    BY <1>2, <1>3, <1>4, PreservedFollows, ClickHolds

\* The user opens a dossier.
LEMMA ShowProfileHolds ==
    ASSUME IInv, FInv, NEW co \in Companies, ShowProfile(co)
    PROVE  FInv'
<1>1. faults \in Nat /\ Good(app, faults) /\ messages \in Seq(Answers(app, faults))
    BY DEF IInv
<1>2. Click(OpenProfile(app, co)) /\ ops' = ops
    BY DEF ShowProfile
<1>3. Good(OpenProfile(app, co), faults)
    BY <1>1, OpenProfileKeeps
<1>4. faults = 0 => Preserves(app, OpenProfile(app, co), messages, count, data)
    BY <1>1, OpenProfilePreserves
<1> QED
    BY <1>2, <1>3, <1>4, PreservedFollows, ClickHolds

\* The user starts an import, an export, a clearing or a maintenance.
LEMMA StartHolds ==
    ASSUME IInv, FInv, StartImport \/ StartExport \/ StartClear \/ StartMaintenance
    PROVE  FInv'
<1>1. faults \in Nat /\ Good(app, faults) /\ messages \in Seq(Answers(app, faults))
    BY DEF IInv
<1>2. PICK kind : app.ready /\ Start(kind)
    BY DEF StartImport, StartExport, StartClear, StartMaintenance
<1> DEFINE b == [app EXCEPT !.busy = TRUE]
<1>3. Click(b) /\ ops' = Append(ops, Operation(kind))
    BY <1>2 DEF Start
<1>4. Good(b, faults)
    BY <1>1, BusyKeeps
<1>5. faults = 0 => Preserves(app, b, messages, count, data)
    BY <1>1, ChoicesPreserve
<1> HIDE DEF b
<1> QED
    BY <1>2, <1>3, <1>4, <1>5, PreservedFollows, ClickHolds

\* Whatever the user does.
LEMMA UserHolds ==
    ASSUME IInv, FInv, User
    PROVE  FInv'
<1>1. CASE \E q \in Asked : Type(q) \/ \E tab \in {"Results", "Analytics"} : Find(q, tab)
    BY <1>1, TypeHolds, FindHolds
<1>2. CASE TurnPage \/ ShowMore
    BY <1>2, TurnPageHolds, ShowMoreHolds
<1>3. CASE \E tab \in {"Results", "Analytics"} : ShowTab(tab)
    BY <1>3, ShowTabHolds
<1>4. CASE \E v \in Views : ChooseView(v) \/ GuideToView(v)
    BY <1>4, ChooseViewHolds, GuideToViewHolds
<1>5. CASE \E l \in Levels : ChooseLevel(l)
    BY <1>5, ChooseLevelHolds
<1>6. CASE Compare \/ Scan \/ CloseExplorer \/ LeaveProfile
    BY <1>6, AskingHolds
<1>7. CASE \E d \in Dims : Repivot(d) \/ GuideToPivot(d)
    BY <1>7, RepivotHolds, GuideToPivotHolds
<1>8. CASE \E k \in Kinds : Explore(k) \/ GuideToGroups(k)
    BY <1>8, ExploreHolds, GuideToGroupsHolds
<1>9. CASE \E co \in Companies : ShowProfile(co)
    BY <1>9, ShowProfileHolds
<1>10. CASE StartImport \/ StartExport \/ StartClear \/ StartMaintenance
    BY <1>10, StartHolds
<1> QED
    BY <1>1, <1>2, <1>3, <1>4, <1>5, <1>6, <1>7, <1>8, <1>9, <1>10 DEF User

\* The window paints a frame that finds nothing to show.
LEMMA RepaintHolds ==
    ASSUME IInv, FInv, Repaint
    PROVE  FInv'
<1>1. faults \in Nat /\ Good(app, faults) /\ messages \in Seq(Answers(app, faults))
    BY DEF IInv
<1>2. /\ Window(RequestAnalytics(app)) /\ ops' = ops
      /\ UNCHANGED <<messages, startup, search, count, analyst, data, faults>>
    BY DEF Repaint, workerVars
<1>3. Carries(app, app)
    BY DEF Carries
<1>4. Good(RequestAnalytics(app), faults) /\ (faults = 0 => Follows(RequestAnalytics(app)))
    BY <1>1, <1>3, PreservesItself, AskingFollows
<1> QED
    BY <1>2, <1>4, WindowHolds

----------------------------------------------------------------------------
(* The window takes in an answer: a is the window, b the window after, and *)
(* Head(ms) the answer.                                                    *)

\* An answer leaves what is asked for as it is.
Takes(a, b) ==
    /\ b.gen = a.gen /\ b.searchTx = a.searchTx /\ b.analyticsTx = a.analyticsTx
    /\ b.turned = a.turned /\ b.overtaken = a.overtaken /\ b.limit = a.limit /\ b.level = a.level
    /\ b.dims = a.dims /\ b.underpricing.gen = a.underpricing.gen
    /\ b.explorer = a.explorer \/ (a.explorer # None /\ b.explorer.gen = a.explorer.gen)

\* What becomes of what holds of the window.
Heard(a, b, ms, c, d) ==
    /\ b.ready = a.ready
    /\ Searching(b, Tail(ms), c) /\ Asking(b, Tail(ms))
    /\ Fresh(a, ms, c, d) => Fresh(b, Tail(ms), c, d)

\* Windows that show the same search, and the same report or less of it.
SameSearch(a, b) ==
    b.rows = a.rows /\ b.total = a.total /\ b.searching = a.searching /\ b.counting = a.counting
SameReport(a, b) == b.analytics = a.analytics /\ b.loaded \cap Scopes \subseteq a.loaded

\* An answer of another search leaves this one under way.
LEMMA HeardSearching ==
    ASSUME NEW a, NEW b, Takes(a, b), SameSearch(a, b), NEW T, NEW ms \in Seq(T), ms # <<>>, NEW c,
           Searching(a, ms, c),
           ~OfGen(a, "SearchPage", Head(ms)), ~OfGen(a, "SearchCount", Head(ms))
    PROVE  Searching(b, Tail(ms), c)
<1>1. ToSet(ms) = {Head(ms)} \cup ToSet(Tail(ms))
    BY ItemsTaken
<1>2. /\ b.gen = a.gen /\ b.searchTx = a.searchTx /\ b.rows = a.rows /\ b.total = a.total
      /\ b.searching = a.searching /\ b.counting = a.counting
    BY DEF Takes, SameSearch
<1>3. \A k, m : OfGen(b, k, m) <=> OfGen(a, k, m)
    BY <1>2 DEF OfGen
<1> HIDE DEF Takes, SameSearch, OfGen
<1>4. /\ \A i \in 1..Len(b.searchTx) : OfGen(b, "Search", b.searchTx[i]) <=> i = Len(b.searchTx)
      /\ b.searchTx # <<>> =>
            /\ \A m \in ToSet(c.rx) : ~OfGen(b, "Count", m)
            /\ c.at # None => c.at.gen # b.gen
            /\ \A m \in ToSet(Tail(ms)) : ~OfGen(b, "SearchPage", m) /\ ~OfGen(b, "SearchCount", m)
    BY <1>1, <1>2, <1>3 DEF Searching
<1>5. b.total = None /\ ~b.counting =>
         /\ b.rows = None /\ b.searchTx = <<>>
         /\ \A m \in ToSet(Tail(ms)) : ~OfGen(b, "SearchPage", m)
    BY <1>1, <1>2, <1>3 DEF Searching
<1>6. b.searching => b.searchTx # <<>> \/ \E m \in ToSet(Tail(ms)) : OfGen(b, "SearchPage", m)
    BY <1>1, <1>2, <1>3 DEF Searching
<1>7. b.counting =>
        \/ b.searchTx # <<>>
        \/ c.rx # <<>> /\ OfGen(b, "Count", c.rx[Len(c.rx)])
        \/ c.at # None /\ c.at.gen = b.gen
        \/ \E m \in ToSet(Tail(ms)) : OfGen(b, "SearchCount", m)
    BY <1>1, <1>2, <1>3 DEF Searching
<1> QED
    BY <1>4, <1>5, <1>6, <1>7 DEF Searching

\* The limit of what is loaded.
LEMMA HeardLimited ==
    ASSUME NEW a, NEW b, Takes(a, b), NEW T, NEW ms \in Seq(T), ms # <<>>, Limited(a, ms),
           ~a.overtaken /\ b.analytics # None =>
              \A s \in b.loaded \cap Scopes : b.analytics.sections[s].limit = a.limit
    PROVE  Limited(b, Tail(ms))
<1>1. ToSet(ms) = {Head(ms)} \cup ToSet(Tail(ms))
    BY ItemsTaken
<1>2. /\ b.gen = a.gen /\ b.analyticsTx = a.analyticsTx /\ b.overtaken = a.overtaken
      /\ b.limit = a.limit
    BY DEF Takes
<1>3. \A k, m : OfGen(b, k, m) <=> OfGen(a, k, m)
    BY <1>2 DEF OfGen
<1> QED
    BY <1>1, <1>2, <1>3 DEF Limited

\* The products and the pivot that are shown have the present settings.
ShownLevel(a) ==
    a.analytics # None /\ "Products" \in a.loaded => a.analytics.sections["Products"].level = a.level
ShownDims(a) == a.pivot # None => a.pivot.dims = a.dims

\* The level of the products.
LEMMA HeardLeveled ==
    ASSUME NEW a, NEW b, Takes(a, b), NEW T, NEW ms \in Seq(T), ms # <<>>, Leveled(a, ms),
           Head(ms) \notin ProductsFound(a.gen) /\ ShownLevel(a) => ShownLevel(b),
           Head(ms) \in ProductsFound(a.gen) /\ Head(ms).level = a.level => ShownLevel(b)
    PROVE  Leveled(b, Tail(ms))
<1> DEFINE P == ProductsAsked(a.gen)
           Q == {m \in ProductsAsked(a.gen) : m.level = a.level}
           R == ProductsFound(a.gen)
           S == {m \in ProductsFound(a.gen) : m.level = a.level}
           shown == ShownLevel(a)
           after == ShownLevel(b)
<1>1. b.gen = a.gen /\ b.analyticsTx = a.analyticsTx /\ b.turned = a.turned /\ b.level = a.level
    BY DEF Takes
<1>2. ~a.turned => Decided(a.analyticsTx, P, Q, ms, R, S, shown)
    BY DEF Leveled, ShownLevel
<1>3. (Head(ms) \notin R /\ shown => after) /\ (Head(ms) \in R /\ Head(ms) \in S => after)
    OBVIOUS
<1> HIDE DEF P, Q, R, S, shown, after
<1>4. ~a.turned => Decided(a.analyticsTx, P, Q, Tail(ms), R, S, after)
    BY <1>2, <1>3, DecidedHear
<1>5. ~b.turned => Decided(b.analyticsTx, P, Q, Tail(ms), R, S, after)
    BY <1>1, <1>4
<1> QED
    BY <1>1, <1>5, Zenon DEF Leveled, P, Q, R, S, after, ShownLevel

\* The dimensions of the pivot.
LEMMA HeardPivoted ==
    ASSUME NEW a, NEW b, Takes(a, b), NEW T, NEW ms \in Seq(T), ms # <<>>, Pivoted(a, ms),
           Head(ms) \notin PivotFound(a.gen) /\ ShownDims(a) => ShownDims(b),
           Head(ms) \in PivotFound(a.gen) /\ Head(ms).dims = a.dims => ShownDims(b)
    PROVE  Pivoted(b, Tail(ms))
<1> DEFINE P == PivotAsked(a.gen)
           Q == {m \in PivotAsked(a.gen) : m.dims = a.dims}
           R == PivotFound(a.gen)
           S == {m \in PivotFound(a.gen) : m.dims = a.dims}
           shown == ShownDims(a)
           after == ShownDims(b)
<1>1. b.gen = a.gen /\ b.analyticsTx = a.analyticsTx /\ b.turned = a.turned /\ b.dims = a.dims
    BY DEF Takes
<1>2. ~a.turned => Decided(a.analyticsTx, P, Q, ms, R, S, shown)
    BY DEF Pivoted, ShownDims
<1>3. (Head(ms) \notin R /\ shown => after) /\ (Head(ms) \in R /\ Head(ms) \in S => after)
    OBVIOUS
<1> HIDE DEF P, Q, R, S, shown, after
<1>4. ~a.turned => Decided(a.analyticsTx, P, Q, Tail(ms), R, S, after)
    BY <1>2, <1>3, DecidedHear
<1>5. ~b.turned => Decided(b.analyticsTx, P, Q, Tail(ms), R, S, after)
    BY <1>1, <1>4
<1> QED
    BY <1>1, <1>5, Zenon DEF Pivoted, P, Q, R, S, after, ShownDims

\* The groups of the explorer.
LEMMA HeardGrouped ==
    ASSUME NEW a, NEW b, Takes(a, b), NEW T, NEW ms \in Seq(T), ms # <<>>, Grouped(a, ms),
           \/ b.explorer.rows # None
           \/ /\ b.explorer = a.explorer
              /\ a.explorer # None => ~OfExplorer(a.explorer, "SectionDone", Head(ms))
    PROVE  Grouped(b, Tail(ms))
<1>1. ToSet(ms) = {Head(ms)} \cup ToSet(Tail(ms))
    BY ItemsTaken
<1>2. b.analyticsTx = a.analyticsTx
    BY DEF Takes
<1> QED
    BY <1>1, <1>2 DEF Grouped

\* The data that are shown.
LEMMA HeardFreshNow ==
    ASSUME NEW a, NEW b, Takes(a, b), NEW T, NEW ms \in Seq(T), ms # <<>>, NEW c, NEW d,
           FreshNow(a, ms, c, d), FreshAnswer(a, d, Head(ms)) => FreshShown(b, d)
    PROVE  FreshNow(b, Tail(ms), c, d)
<1>1. ToSet(ms) = {Head(ms)} \cup ToSet(Tail(ms))
    BY ItemsTaken
<1>2. b.gen = a.gen /\ b.underpricing.gen = a.underpricing.gen
    BY DEF Takes
<1>3. b.explorer # None => a.explorer # None /\ b.explorer.gen = a.explorer.gen
    BY DEF Takes
<1>4. ASSUME NEW m \in ToSet(Tail(ms)) PROVE FreshAnswer(b, d, m)
    <2>1. FreshAnswer(a, d, m)
        BY <1>1 DEF FreshNow
    <2> QED
        BY <1>2, <1>3, <2>1 DEF FreshAnswer, OfGen
<1>5. FreshShown(b, d)
    BY <1>1 DEF FreshNow
<1> QED
    BY <1>2, <1>4, <1>5 DEF FreshNow

\* The total of the database and the cache of the counts.
LEMMA HeardCounted ==
    ASSUME NEW a, NEW b, Takes(a, b), NEW T, NEW ms \in Seq(T), ms # <<>>, NEW c, NEW d,
           Counted(a, ms, d), Cached(a, c, d), b.ready = a.ready,
           \/ b.dbTotal = a.dbTotal /\ Head(ms) \notin StatsFound
           \/ b.dbTotal = Head(ms).at /\ Head(ms) \in StatsFound
    PROVE  Counted(b, Tail(ms), d) /\ Cached(b, c, d)
<1> DEFINE S == {m \in StatsFound : m.at = d.version}
           shown == a.ready => a.dbTotal = d.version
           after == b.ready => b.dbTotal = d.version
<1>1. b.searchTx = a.searchTx /\ b.ready = a.ready
    BY DEF Takes
<1>2. Decided(a.searchTx, StatsAsked, StatsAsked, ms, StatsFound, S, shown)
    BY DEF Counted
<1>3. (Head(ms) \notin StatsFound /\ shown => after) /\ (Head(ms) \in StatsFound /\ Head(ms) \in S => after)
    BY <1>1
<1> HIDE DEF S, shown, after
<1>4. Decided(a.searchTx, StatsAsked, StatsAsked, Tail(ms), StatsFound, S, after)
    BY <1>2, <1>3, DecidedHear
<1>5. Counted(b, Tail(ms), d)
    BY <1>1, <1>4, Zenon DEF Counted, S, after
<1> QED
    BY <1>1, <1>5 DEF Cached

\* The report stays what it is.
LEMMA ReportStays ==
    ASSUME NEW a, NEW b, Takes(a, b), SameReport(a, b), NEW T, NEW ms \in Seq(T), ms # <<>>,
           Limited(a, ms), Leveled(a, ms), ~OfGen(a, "AnalyticsDone", Head(ms))
    PROVE  Limited(b, Tail(ms)) /\ Leveled(b, Tail(ms))
<1>1. b.analytics = a.analytics /\ b.loaded \cap Scopes \subseteq a.loaded
    BY DEF SameReport
<1>2. ~a.overtaken /\ b.analytics # None =>
          \A s \in b.loaded \cap Scopes : b.analytics.sections[s].limit = a.limit
    BY <1>1 DEF Limited
<1>3. Limited(b, Tail(ms))
    BY <1>2, HeardLimited
<1>4. Head(ms) \notin ProductsFound(a.gen)
    BY DEF ProductsFound, OfGen
<1>5. ShownLevel(a) => ShownLevel(b)
    <2>1. b.level = a.level /\ "Products" \in Scopes
        BY NamesAssumption DEF Takes
    <2> QED
        BY <1>1, <2>1 DEF ShownLevel
<1>6. Leveled(b, Tail(ms))
    BY <1>4, <1>5, HeardLeveled
<1> QED
    BY <1>3, <1>6

\* The pivot stays what it is.
LEMMA PivotStays ==
    ASSUME NEW a, NEW b, Takes(a, b), b.pivot = a.pivot, NEW T, NEW ms \in Seq(T), ms # <<>>,
           Pivoted(a, ms), ~OfGen(a, "PivotDone", Head(ms))
    PROVE  Pivoted(b, Tail(ms))
<1>1. Head(ms) \notin PivotFound(a.gen)
    BY DEF PivotFound, OfGen
<1>2. ShownDims(a) => ShownDims(b)
    BY DEF ShownDims, Takes
<1> QED
    BY <1>1, <1>2, HeardPivoted

\* The groups stay what they are.
LEMMA GroupsStay ==
    ASSUME NEW a, NEW b, Takes(a, b), b.explorer = a.explorer, NEW T, NEW ms \in Seq(T), ms # <<>>,
           Grouped(a, ms), a.explorer # None => ~OfExplorer(a.explorer, "SectionDone", Head(ms))
    PROVE  Grouped(b, Tail(ms))
BY HeardGrouped

\* What holds after an answer, together.
LEMMA HeardTogether ==
    ASSUME NEW a, NEW b, Takes(a, b), b.ready = a.ready,
           NEW T, NEW ms \in Seq(T), ms # <<>>, NEW c, NEW d,
           Searching(b, Tail(ms), c), Limited(b, Tail(ms)), Leveled(b, Tail(ms)), Pivoted(b, Tail(ms)),
           Grouped(b, Tail(ms)), FreshAnswer(a, d, Head(ms)) /\ FreshShown(a, d) => FreshShown(b, d),
           \/ b.dbTotal = a.dbTotal /\ Head(ms) \notin StatsFound
           \/ b.dbTotal = Head(ms).at /\ Head(ms) \in StatsFound
    PROVE  Heard(a, b, ms, c, d)
<1>1. ASSUME Fresh(a, ms, c, d) PROVE Fresh(b, Tail(ms), c, d)
    <2>1. FreshNow(a, ms, c, d) /\ Counted(a, ms, d) /\ Cached(a, c, d)
        BY <1>1 DEF Fresh
    <2>2. Counted(b, Tail(ms), d) /\ Cached(b, c, d)
        BY <2>1, HeardCounted
    <2>3. FreshAnswer(a, d, Head(ms)) => FreshShown(b, d)
        BY <2>1 DEF FreshNow
    <2>4. FreshNow(b, Tail(ms), c, d)
        BY <2>1, <2>3, HeardFreshNow
    <2> QED
        BY <2>2, <2>4 DEF Fresh
<1> QED
    BY <1>1 DEF Heard, Asking

\* An answer that neither the search nor the report waits for.
LEMMA HeardAside ==
    ASSUME NEW a, NEW b, Takes(a, b), SameSearch(a, b), SameReport(a, b), b.ready = a.ready,
           b.pivot = a.pivot, b.explorer = a.explorer, NEW T, NEW ms \in Seq(T), ms # <<>>, NEW c, NEW d,
           Searching(a, ms, c), Asking(a, ms),
           \A k \in {"SearchPage", "SearchCount", "AnalyticsDone", "PivotDone"} : ~OfGen(a, k, Head(ms)),
           a.explorer # None => ~OfExplorer(a.explorer, "SectionDone", Head(ms)),
           \/ b.dbTotal = a.dbTotal /\ Head(ms) \notin StatsFound
           \/ b.dbTotal = Head(ms).at /\ Head(ms) \in StatsFound,
           \/ b.underpricing.shown = a.underpricing.shown
           \/ FreshAnswer(a, d, Head(ms)) => b.underpricing.shown.at = d.version
    PROVE  Heard(a, b, ms, c, d)
<1>1. Searching(b, Tail(ms), c)
    BY HeardSearching
<1>2. Limited(b, Tail(ms)) /\ Leveled(b, Tail(ms))
    BY ReportStays DEF Asking
<1>3. Pivoted(b, Tail(ms))
    BY PivotStays DEF Asking
<1>4. Grouped(b, Tail(ms))
    BY GroupsStay DEF Asking
<1>5. FreshAnswer(a, d, Head(ms)) /\ FreshShown(a, d) => FreshShown(b, d)
    <2>1. /\ b.rows = a.rows /\ b.total = a.total /\ b.searching = a.searching
          /\ b.ready = a.ready /\ b.analytics = a.analytics /\ b.loaded \cap Scopes \subseteq a.loaded
        BY DEF SameSearch, SameReport, Takes
    <2> HIDE DEF FreshAnswer
    <2> QED
        BY <2>1 DEF FreshShown
<1> QED
    BY <1>1, <1>2, <1>3, <1>4, <1>5, HeardTogether

\* Fields that nothing here depends on.
Beside == {"profile", "compare", "busy", "dbTotal", "underpricing"}

\* The window as it is, and one of which only these differ.
LEMMA BesideTakes ==
    ASSUME NEW a, NEW b, \A x \in Fields \ Beside : b[x] = a[x],
           b.underpricing.gen = a.underpricing.gen
    PROVE  /\ Takes(a, b) /\ SameSearch(a, b) /\ SameReport(a, b)
           /\ b.ready = a.ready /\ b.pivot = a.pivot /\ b.explorer = a.explorer
<1>1. /\ b.ready = a.ready /\ b.gen = a.gen /\ b.searchTx = a.searchTx /\ b.analyticsTx = a.analyticsTx
      /\ b.turned = a.turned /\ b.overtaken = a.overtaken /\ b.limit = a.limit /\ b.level = a.level
      /\ b.dims = a.dims /\ b.explorer = a.explorer /\ b.pivot = a.pivot
    BY DEF Fields, Beside
<1>2. /\ b.rows = a.rows /\ b.total = a.total /\ b.searching = a.searching /\ b.counting = a.counting
      /\ b.analytics = a.analytics /\ b.loaded = a.loaded
    BY DEF Fields, Beside
<1> QED
    BY <1>1, <1>2 DEF Takes, SameSearch, SameReport

\* An answer that is thrown away.
LEMMA Thrown ==
    ASSUME NEW a, NEW T, NEW ms \in Seq(T), ms # <<>>, NEW c, NEW d, Searching(a, ms, c), Asking(a, ms),
           \A k \in {"SearchPage", "SearchCount", "AnalyticsDone", "PivotDone"} : ~OfGen(a, k, Head(ms)),
           a.explorer # None => ~OfExplorer(a.explorer, "SectionDone", Head(ms)),
           Head(ms) \notin StatsFound
    PROVE  Heard(a, a, ms, c, d)
<1>1. /\ Takes(a, a) /\ SameSearch(a, a) /\ SameReport(a, a)
    BY BesideTakes
<1> QED
    BY <1>1, HeardAside

\* The minor answers (drain_messages).
LEMMA MinorHeard ==
    ASSUME NEW a, Good(a, 0), NEW ms \in Seq(Answers(a, 0)), ms # <<>>, NEW c, NEW d,
           Searching(a, ms, c), Asking(a, ms),
           Head(ms).kind \in {"ProfileDone", "CompareDone", "ExportDone", "MaintenanceDone", "Fatal"}
    PROVE  Heard(a, Handled(a, Head(ms)), ms, c, d)
<1> DEFINE m == Head(ms)
           p == PanelDone(a.profile, m)
           q == PanelDone(a.compare, m)
           b1 == [a EXCEPT !.profile = p]
           b2 == [a EXCEPT !.compare = q]
           b3 == [a EXCEPT !.busy = FALSE]
<1>1. /\ \A k \in {"SearchPage", "SearchCount", "AnalyticsDone", "PivotDone"} : ~OfGen(a, k, m)
      /\ a.explorer # None => ~OfExplorer(a.explorer, "SectionDone", m)
      /\ m \notin StatsFound
    BY DEF OfGen, OfExplorer, StatsFound
<1>2. Handled(a, m) \in {b1, b2, b3}
    BY DEF Handled
<1> HIDE DEF m, p, q
<1>3. \A b \in {b1, b2, b3} : \A x \in Fields \ {"profile", "compare", "busy"} : b[x] = a[x]
    BY DEF Good, IsWindow
<1> HIDE DEF b1, b2, b3
<1>4. ASSUME NEW b \in {b1, b2, b3} PROVE Heard(a, b, ms, c, d)
    <2>1. /\ \A x \in Fields \ Beside : b[x] = a[x]
          /\ b.underpricing = a.underpricing /\ b.dbTotal = a.dbTotal
        BY <1>3 DEF Fields, Beside
    <2>2. /\ Takes(a, b) /\ SameSearch(a, b) /\ SameReport(a, b)
          /\ b.ready = a.ready /\ b.pivot = a.pivot /\ b.explorer = a.explorer
        BY <2>1, BesideTakes
    <2> QED
        BY <1>1, <2>1, <2>2, HeardAside DEF m
<1> QED
    BY <1>2, <1>4 DEF m

\* The statistics, and a scan.
LEMMA StatsHeard ==
    ASSUME NEW a, Good(a, 0), NEW ms \in Seq(Answers(a, 0)), ms # <<>>, NEW c, NEW d,
           Searching(a, ms, c), Asking(a, ms), Head(ms) \in Answers(a, 0), Head(ms).kind = "Stats"
    PROVE  Heard(a, Handled(a, Head(ms)), ms, c, d)
<1> DEFINE m == Head(ms)
           v == m.at
           b == [a EXCEPT !.dbTotal = v]
<1>1. /\ \A k \in {"SearchPage", "SearchCount", "AnalyticsDone", "PivotDone"} : ~OfGen(a, k, m)
      /\ a.explorer # None => ~OfExplorer(a.explorer, "SectionDone", m)
    BY DEF OfGen, OfExplorer
<1>2. m \in StatsFound
    BY KindsOfAnswers
<1>3. Handled(a, m) = b
    BY DEF Handled
<1> HIDE DEF v
<1>4. \A x \in Fields \ {"dbTotal"} : b[x] = a[x]
    BY DEF Good, IsWindow
<1>5. b.dbTotal = v
    BY DEF Good, IsWindow, Fields
<1> HIDE DEF b
<1>6. /\ \A x \in Fields \ Beside : b[x] = a[x]
      /\ b.underpricing = a.underpricing
    BY <1>4 DEF Fields, Beside
<1>7. /\ Takes(a, b) /\ SameSearch(a, b) /\ SameReport(a, b)
      /\ b.ready = a.ready /\ b.pivot = a.pivot /\ b.explorer = a.explorer
    BY <1>6, BesideTakes
<1>8. b.dbTotal = Head(ms).at
    BY <1>5 DEF v
<1> HIDE DEF m
<1>9. Heard(a, b, ms, c, d)
    BY <1>1, <1>2, <1>6, <1>7, <1>8, HeardAside DEF m
<1> QED
    BY <1>3, <1>9 DEF m

\* A scan that is found is of the data it read.
LEMMA ScanHeard ==
    ASSUME NEW a, Good(a, 0), NEW ms \in Seq(Answers(a, 0)), ms # <<>>, NEW c, NEW d,
           Searching(a, ms, c), Asking(a, ms), Head(ms).kind = "UnderpricingDone"
    PROVE  Heard(a, Handled(a, Head(ms)), ms, c, d)
<1> DEFINE m == Head(ms)
           p == PanelDone(a.underpricing, m)
           b == [a EXCEPT !.underpricing = p]
<1>1. /\ \A k \in {"SearchPage", "SearchCount", "AnalyticsDone", "PivotDone"} : ~OfGen(a, k, m)
      /\ a.explorer # None => ~OfExplorer(a.explorer, "SectionDone", m)
      /\ m \notin StatsFound
    BY DEF OfGen, OfExplorer, StatsFound
<1>2. a.underpricing \in Panel(Asked)
    BY DEF Good, Results
<1>3. p.gen = a.underpricing.gen /\ (p = a.underpricing \/ (m.gen = a.underpricing.gen /\ p.shown = Source(m)))
    BY <1>2 DEF PanelDone, Panel
<1>4. Source(m).at = m.at
    BY DEF Source
<1>5. FreshAnswer(a, d, m) /\ m.gen = a.underpricing.gen => m.at = d.version
    BY DEF FreshAnswer
<1>6. Handled(a, m) = b
    BY DEF Handled
<1> HIDE DEF m, p
<1>7. \A x \in Fields \ {"underpricing"} : b[x] = a[x]
    BY DEF Good, IsWindow
<1>8. b.underpricing = p
    BY DEF Good, IsWindow, Fields
<1> HIDE DEF b
<1>9. b.dbTotal = a.dbTotal /\ \A x \in Fields \ Beside : b[x] = a[x]
    BY <1>7 DEF Fields, Beside
<1>10. /\ Takes(a, b) /\ SameSearch(a, b) /\ SameReport(a, b)
       /\ b.ready = a.ready /\ b.pivot = a.pivot /\ b.explorer = a.explorer
    BY <1>3, <1>8, <1>9, BesideTakes
<1>11. \/ b.underpricing.shown = a.underpricing.shown
       \/ FreshAnswer(a, d, m) => b.underpricing.shown.at = d.version
    BY <1>3, <1>4, <1>5, <1>8
<1>12. Heard(a, b, ms, c, d)
    BY <1>1, <1>9, <1>10, <1>11, HeardAside DEF m
<1> QED
    BY <1>6, <1>12 DEF m

\* The page that is waited for.
LEMMA PageHeard ==
    ASSUME NEW a, Good(a, 0), NEW ms \in Seq(Answers(a, 0)), ms # <<>>, NEW c, NEW d,
           Searching(a, ms, c), Asking(a, ms), Head(ms) \in PagesFound(a)
    PROVE  Heard(a, SearchPage(a, Head(ms)), ms, c, d)
<1> DEFINE m == Head(ms)
           rows == [query |-> m.query, page |-> m.page, at |-> m.at, none |-> m.none]
           none == a.page = 0 /\ m.none
           empty == [query |-> m.query, at |-> m.at, pages |-> 0]
           total == IF none THEN empty ELSE a.total
           counting == a.counting /\ ~none
           b == [a EXCEPT !.rows = rows, !.more = m.more, !.searching = FALSE, !.total = total,
                          !.counting = counting]
<1>1. m.kind = "SearchPage"
    BY DEF PagesFound
<1>2. /\ ~OfGen(a, "SearchCount", m) /\ ~OfGen(a, "AnalyticsDone", m) /\ ~OfGen(a, "PivotDone", m)
      /\ a.explorer # None => ~OfExplorer(a.explorer, "SectionDone", m)
      /\ m \notin StatsFound
    BY <1>1 DEF OfGen, OfExplorer, StatsFound
<1>3. CASE m.gen # a.gen
    <2>1. SearchPage(a, m) = a
        BY <1>3 DEF SearchPage
    <2>2. \A k \in {"SearchPage", "SearchCount", "AnalyticsDone", "PivotDone"} : ~OfGen(a, k, m)
        BY <1>3 DEF OfGen
    <2> HIDE DEF m
    <2>3. Heard(a, a, ms, c, d)
        BY <1>2, <2>2, Thrown DEF m
    <2> QED
        BY <2>1, <2>3 DEF m
<1>4. CASE m.gen = a.gen
    <2>1. OfGen(a, "SearchPage", m)
        BY <1>1, <1>4 DEF OfGen
    <2>2. ToSet(ms) = {m} \cup ToSet(Tail(ms))
        BY ItemsTaken
    <2>3. /\ m.query = a.active /\ m.page = a.page /\ m.query \in Asked /\ m.page \in Nat
          /\ m.at \in Versions /\ m.none \in BOOLEAN
        BY <1>4 DEF PagesFound, OfPage, Current
    <2>4. rows # None /\ empty # None
        <3>1. /\ rows \in [query : Asked, page : Nat, at : Versions, none : BOOLEAN]
              /\ empty \in [query : Asked, at : Versions, pages : Nat]
            BY <2>3
        <3> QED
            BY <3>1, NamesAssumption
    <2>5. /\ rows.at = m.at /\ empty.at = m.at /\ empty.pages = 0 /\ empty.query = m.query
        OBVIOUS
    <2>6. SearchPage(a, m) = b
        BY <1>4 DEF SearchPage
    <2>7. (none => m.none /\ m.page = 0) /\ (none => total = empty /\ ~counting)
          /\ (~none => total = a.total /\ counting = a.counting)
        BY <2>3 DEF Good, Settings
    <2>8. FreshAnswer(a, d, m) => m.at = d.version /\ (m.none => PagesIn(d, m.query) <= m.page)
        BY <1>1, <1>4 DEF FreshAnswer, OfGen
    <2>9. PagesIn(d, m.query) \in Nat
        BY <2>3, NumbersAssumption DEF PagesIn
    <2> HIDE DEF m, rows, none, empty, total, counting
    <2>10. \A x \in Fields \ PageParts : b[x] = a[x]
        BY DEF Good, IsWindow, PageParts
    <2>11. b.rows = rows /\ b.searching = FALSE /\ b.total = total /\ b.counting = counting
        BY DEF Good, IsWindow, Fields
    <2> HIDE DEF b
    <2>12. /\ b.ready = a.ready /\ b.gen = a.gen /\ b.searchTx = a.searchTx /\ b.analyticsTx = a.analyticsTx
           /\ b.turned = a.turned /\ b.overtaken = a.overtaken /\ b.limit = a.limit /\ b.level = a.level
           /\ b.dims = a.dims /\ b.explorer = a.explorer /\ b.pivot = a.pivot
           /\ b.analytics = a.analytics /\ b.loaded = a.loaded /\ b.underpricing = a.underpricing
           /\ b.dbTotal = a.dbTotal
        BY <2>10 DEF Fields, PageParts
    <2>13. Takes(a, b) /\ SameReport(a, b)
        BY <2>12 DEF Takes, SameReport
    <2>14. b.searchTx = <<>> /\ (a.total # None \/ a.counting)
        BY <2>1, <2>2, <2>12 DEF Searching
    <2>15. b.total # None \/ b.counting
        BY <2>4, <2>7, <2>11, <2>14
    <2>16. b.counting => a.counting
        BY <2>7, <2>11
    <2>17. b.counting =>
              \/ c.rx # <<>> /\ OfGen(a, "Count", c.rx[Len(c.rx)])
              \/ c.at # None /\ c.at.gen = a.gen
              \/ \E n \in ToSet(Tail(ms)) : OfGen(a, "SearchCount", n)
        BY <1>2, <2>2, <2>12, <2>14, <2>16 DEF Searching
    <2>18. \A k, n : OfGen(b, k, n) <=> OfGen(a, k, n)
        BY <2>12 DEF OfGen
    <2>19. Searching(b, Tail(ms), c)
        <3>1. 1..Len(b.searchTx) = {}
            BY <2>14
        <3> QED
            BY <2>11, <2>12, <2>14, <2>15, <2>17, <2>18, <3>1 DEF Searching
    <2>20. Limited(b, Tail(ms)) /\ Leveled(b, Tail(ms))
        BY <1>2, <2>13, ReportStays DEF Asking, m
    <2>21. Pivoted(b, Tail(ms))
        BY <1>2, <2>12, <2>13, PivotStays DEF Asking, m
    <2>22. Grouped(b, Tail(ms))
        BY <1>2, <2>12, <2>13, GroupsStay DEF Asking, m
    <2>23. FreshAnswer(a, d, m) /\ FreshShown(a, d) => FreshShown(b, d)
        <3> SUFFICES ASSUME FreshAnswer(a, d, m), FreshShown(a, d) PROVE FreshShown(b, d)
            OBVIOUS
        <3>1. b.rows # None /\ b.rows.at = d.version
            BY <2>4, <2>5, <2>8, <2>11
        <3>2. b.total # None => b.total.at = d.version /\ b.total.pages = PagesIn(d, b.total.query)
            <4>1. CASE none
                BY <4>1, <2>5, <2>7, <2>8, <2>9, <2>11
            <4>2. CASE ~none
                BY <4>2, <2>7, <2>11 DEF FreshShown
            <4> QED
                BY <4>1, <4>2
        <3> QED
            BY <2>12, <3>1, <3>2 DEF FreshShown
    <2>24. Heard(a, b, ms, c, d)
        BY <1>2, <2>12, <2>13, <2>19, <2>20, <2>21, <2>22, <2>23, HeardTogether DEF m
    <2> QED
        BY <2>6, <2>24 DEF m
<1> QED
    BY <1>3, <1>4

\* The count that is waited for.
LEMMA CountHeard ==
    ASSUME NEW a, Good(a, 0), NEW ms \in Seq(Answers(a, 0)), ms # <<>>, NEW c, NEW d,
           Searching(a, ms, c), Asking(a, ms), Head(ms) \in CountsFound(a)
    PROVE  Heard(a, SearchCount(a, Head(ms)), ms, c, d)
<1> DEFINE m == Head(ms)
           total == [query |-> m.query, at |-> m.at, pages |-> m.pages]
           b == [a EXCEPT !.total = total, !.counting = FALSE]
<1>1. m.kind = "SearchCount"
    BY DEF CountsFound
<1>2. /\ ~OfGen(a, "SearchPage", m) /\ ~OfGen(a, "AnalyticsDone", m) /\ ~OfGen(a, "PivotDone", m)
      /\ a.explorer # None => ~OfExplorer(a.explorer, "SectionDone", m)
      /\ m \notin StatsFound
    BY <1>1 DEF OfGen, OfExplorer, StatsFound
<1>3. CASE m.gen # a.gen
    <2>1. SearchCount(a, m) = a
        BY <1>3 DEF SearchCount
    <2>2. \A k \in {"SearchPage", "SearchCount", "AnalyticsDone", "PivotDone"} : ~OfGen(a, k, m)
        BY <1>3 DEF OfGen
    <2> HIDE DEF m
    <2>3. Heard(a, a, ms, c, d)
        BY <1>2, <2>2, Thrown DEF m
    <2> QED
        BY <2>1, <2>3 DEF m
<1>4. CASE m.gen = a.gen
    <2>1. OfGen(a, "SearchCount", m)
        BY <1>1, <1>4 DEF OfGen
    <2>2. ToSet(ms) = {m} \cup ToSet(Tail(ms))
        BY ItemsTaken
    <2>3. total # None
        <3>1. total \in [query : Asked, at : Versions, pages : Nat]
            BY DEF CountsFound
        <3> QED
            BY <3>1, NamesAssumption
    <2>4. total.at = m.at /\ total.pages = m.pages /\ total.query = m.query
        OBVIOUS
    <2>5. SearchCount(a, m) = b
        BY <1>4 DEF SearchCount
    <2>6. FreshAnswer(a, d, m) => m.at = d.version /\ m.pages = PagesIn(d, m.query)
        BY <1>1, <1>4 DEF FreshAnswer, OfGen
    <2> HIDE DEF m, total
    <2>7. \A x \in Fields \ {"total", "counting"} : b[x] = a[x]
        BY DEF Good, IsWindow
    <2>8. b.total = total /\ b.counting = FALSE
        BY DEF Good, IsWindow, Fields
    <2> HIDE DEF b
    <2>9. /\ b.ready = a.ready /\ b.gen = a.gen /\ b.searchTx = a.searchTx /\ b.analyticsTx = a.analyticsTx
          /\ b.turned = a.turned /\ b.overtaken = a.overtaken /\ b.limit = a.limit /\ b.level = a.level
          /\ b.dims = a.dims /\ b.explorer = a.explorer /\ b.pivot = a.pivot
          /\ b.analytics = a.analytics /\ b.loaded = a.loaded /\ b.underpricing = a.underpricing
          /\ b.dbTotal = a.dbTotal /\ b.rows = a.rows /\ b.searching = a.searching
        BY <2>7 DEF Fields
    <2>10. Takes(a, b) /\ SameReport(a, b)
        BY <2>9 DEF Takes, SameReport
    <2>11. b.searchTx = <<>>
        BY <2>1, <2>2, <2>9 DEF Searching
    <2>12. b.searching => \E n \in ToSet(Tail(ms)) : OfGen(a, "SearchPage", n)
        BY <1>2, <2>2, <2>9, <2>11 DEF Searching
    <2>13. \A k, n : OfGen(b, k, n) <=> OfGen(a, k, n)
        BY <2>9 DEF OfGen
    <2>14. Searching(b, Tail(ms), c)
        <3>1. 1..Len(b.searchTx) = {}
            BY <2>11
        <3> QED
            BY <2>3, <2>8, <2>11, <2>12, <2>13, <3>1 DEF Searching
    <2>15. Limited(b, Tail(ms)) /\ Leveled(b, Tail(ms))
        BY <1>2, <2>10, ReportStays DEF Asking, m
    <2>16. Pivoted(b, Tail(ms))
        BY <1>2, <2>9, <2>10, PivotStays DEF Asking, m
    <2>17. Grouped(b, Tail(ms))
        BY <1>2, <2>9, <2>10, GroupsStay DEF Asking, m
    <2>18. FreshAnswer(a, d, m) /\ FreshShown(a, d) => FreshShown(b, d)
        BY <2>4, <2>6, <2>8, <2>9 DEF FreshShown
    <2>19. Heard(a, b, ms, c, d)
        BY <1>2, <2>9, <2>10, <2>14, <2>15, <2>16, <2>17, <2>18, HeardTogether DEF m
    <2> QED
        BY <2>5, <2>19 DEF m
<1> QED
    BY <1>3, <1>4

\* A report of a scope puts its section in its place; the others that count as loaded stay.
LEMMA SectionsAfter ==
    ASSUME NEW a, Good(a, 0), NEW m \in ScopesFound(a), m.gen = a.gen
    PROVE  /\ \A x \in Fields \ {"analytics", "loaded", "analyticsGen", "loading"} :
                 AnalyticsDone(a, m)[x] = a[x]
           /\ AnalyticsDone(a, m).analytics.base.at = m.at
           /\ \A s \in AnalyticsDone(a, m).loaded \cap Scopes :
                 \/ /\ s = m.scope
                    /\ AnalyticsDone(a, m).analytics.sections[s].at = m.at
                    /\ AnalyticsDone(a, m).analytics.sections[s].limit = m.limit
                    /\ AnalyticsDone(a, m).analytics.sections[s].level = m.level
                 \/ /\ s # m.scope /\ a.analytics # None /\ s \in a.loaded
                    /\ AnalyticsDone(a, m).analytics.sections[s] = a.analytics.sections[s]
<1> DEFINE same == a.analytics # None /\ a.analyticsGen = m.gen
           sections == IF same THEN a.analytics.sections ELSE [s \in Scopes |-> None]
           section == [query |-> m.query, at |-> m.at, limit |-> m.limit, level |-> m.level]
           all == [s \in Scopes |-> IF s = m.scope THEN section ELSE sections[s]]
           base == Source(m)
           analytics == [base |-> base, sections |-> all]
           loaded == (IF same THEN a.loaded ELSE {}) \cup {ViewOf(m.scope)}
           b == [a EXCEPT !.analytics = analytics, !.loaded = loaded, !.analyticsGen = m.gen,
                          !.loading = FALSE]
<1>1. m.scope \in Scopes \cup {None}
    BY DEF ScopesFound
<1>2. section.at = m.at /\ section.limit = m.limit /\ section.level = m.level
    OBVIOUS
<1>3. base.at = m.at
    BY DEF Source
<1>4. ASSUME NEW s \in loaded \cap Scopes
      PROVE  \/ s = m.scope /\ all[s] = section
             \/ s # m.scope /\ a.analytics # None /\ s \in a.loaded /\ all[s] = a.analytics.sections[s]
    <2>1. CASE s = m.scope
        BY <2>1
    <2>2. CASE s # m.scope
        <3>1. s # ViewOf(m.scope)
            BY <2>2, <1>1, NamesAssumption DEF ViewOf
        <3>2. same /\ s \in a.loaded
            BY <3>1
        <3>3. all[s] = sections[s] /\ sections[s] = a.analytics.sections[s]
            BY <2>2, <3>2
        <3> QED
            BY <2>2, <3>2, <3>3
    <2> QED
        BY <2>1, <2>2
<1>5. AnalyticsDone(a, m) = b
    BY DEF AnalyticsDone
<1> HIDE DEF all, base, loaded, section
<1>6. analytics.base = base /\ analytics.sections = all
    OBVIOUS
<1> HIDE DEF analytics
<1>7. \A x \in Fields \ {"analytics", "loaded", "analyticsGen", "loading"} : b[x] = a[x]
    BY DEF Good, IsWindow
<1>8. b.analytics = analytics /\ b.loaded = loaded
    BY DEF Good, IsWindow, Fields
<1> HIDE DEF b
<1>9. ASSUME NEW s \in b.loaded \cap Scopes
      PROVE  \/ /\ s = m.scope
                /\ b.analytics.sections[s].at = m.at
                /\ b.analytics.sections[s].limit = m.limit
                /\ b.analytics.sections[s].level = m.level
             \/ /\ s # m.scope /\ a.analytics # None /\ s \in a.loaded
                /\ b.analytics.sections[s] = a.analytics.sections[s]
    BY <1>2, <1>4, <1>6, <1>8
<1> QED
    BY <1>3, <1>5, <1>6, <1>7, <1>8, <1>9

\* A report of a scope.
LEMMA ReportHeard ==
    ASSUME NEW a, Good(a, 0), NEW ms \in Seq(Answers(a, 0)), ms # <<>>, NEW c, NEW d,
           Searching(a, ms, c), Asking(a, ms), Head(ms) \in ScopesFound(a)
    PROVE  Heard(a, AnalyticsDone(a, Head(ms)), ms, c, d)
<1> DEFINE m == Head(ms)
           b == AnalyticsDone(a, m)
<1>1. m.kind = "AnalyticsDone"
    BY DEF ScopesFound
<1>2. /\ ~OfGen(a, "SearchPage", m) /\ ~OfGen(a, "SearchCount", m) /\ ~OfGen(a, "PivotDone", m)
      /\ a.explorer # None => ~OfExplorer(a.explorer, "SectionDone", m)
      /\ m \notin StatsFound
    BY <1>1 DEF OfGen, OfExplorer, StatsFound
<1>3. CASE m.gen # a.gen
    <2>1. b = a
        BY <1>3 DEF AnalyticsDone
    <2>2. \A k \in {"SearchPage", "SearchCount", "AnalyticsDone", "PivotDone"} : ~OfGen(a, k, m)
        BY <1>3 DEF OfGen
    <2> HIDE DEF m
    <2>3. Heard(a, a, ms, c, d)
        BY <1>2, <2>2, Thrown DEF m
    <2> HIDE DEF b
    <2>4. Heard(a, b, ms, c, d)
        BY <2>1, <2>3
    <2> QED
        BY <2>4 DEF m, b
<1>4. CASE m.gen = a.gen
    <2>1. OfGen(a, "AnalyticsDone", m) /\ m \in ToSet(ms)
        BY <1>1, <1>4, ItemsTaken DEF OfGen
    <2>2. \A x \in Fields \ {"analytics", "loaded", "analyticsGen", "loading"} : b[x] = a[x]
        BY <1>4, SectionsAfter
    <2>3. b.analytics.base.at = m.at
        BY <1>4, SectionsAfter
    <2>4. \A s \in b.loaded \cap Scopes :
             \/ /\ s = m.scope
                /\ b.analytics.sections[s].at = m.at
                /\ b.analytics.sections[s].limit = m.limit
                /\ b.analytics.sections[s].level = m.level
             \/ /\ s # m.scope /\ a.analytics # None /\ s \in a.loaded
                /\ b.analytics.sections[s] = a.analytics.sections[s]
        BY <1>4, SectionsAfter
    <2>5. m \in ProductsFound(a.gen) <=> m.scope = "Products"
        BY <1>4 DEF ScopesFound, ProductsFound
    <2>6. FreshAnswer(a, d, m) => m.at = d.version
        BY <1>1, <1>4 DEF FreshAnswer
    <2>7. "Products" \in Scopes
        BY NamesAssumption
    <2> HIDE DEF m, b
    <2>8. /\ b.ready = a.ready /\ b.gen = a.gen /\ b.searchTx = a.searchTx /\ b.analyticsTx = a.analyticsTx
          /\ b.turned = a.turned /\ b.overtaken = a.overtaken /\ b.limit = a.limit /\ b.level = a.level
          /\ b.dims = a.dims /\ b.explorer = a.explorer /\ b.pivot = a.pivot
          /\ b.underpricing = a.underpricing /\ b.dbTotal = a.dbTotal
        BY <2>2 DEF Fields
    <2>9. /\ b.rows = a.rows /\ b.total = a.total /\ b.searching = a.searching /\ b.counting = a.counting
        BY <2>2 DEF Fields
    <2>10. Takes(a, b) /\ SameSearch(a, b)
        BY <2>8, <2>9 DEF Takes, SameSearch
    <2>11. Searching(b, Tail(ms), c)
        BY <1>2, <2>10, HeardSearching DEF m
    <2>12. Limited(b, Tail(ms))
        <3>1. ASSUME ~a.overtaken, NEW s \in b.loaded \cap Scopes
              PROVE  b.analytics.sections[s].limit = a.limit
            <4>1. m.limit = a.limit
                BY <2>1, <3>1 DEF Limited, Asking
            <4>2. a.analytics # None /\ s \in a.loaded => a.analytics.sections[s].limit = a.limit
                BY <3>1 DEF Limited, Asking
            <4> QED
                BY <2>4, <4>1, <4>2
        <3> QED
            BY <2>10, <3>1, HeardLimited DEF Asking
    <2>13. Leveled(b, Tail(ms))
        <3>1. m \notin ProductsFound(a.gen) /\ ShownLevel(a) => ShownLevel(b)
            BY <2>4, <2>5, <2>7, <2>8 DEF ShownLevel
        <3>2. m \in ProductsFound(a.gen) /\ m.level = a.level => ShownLevel(b)
            BY <2>4, <2>5, <2>7, <2>8 DEF ShownLevel
        <3> QED
            BY <2>10, <3>1, <3>2, HeardLeveled DEF Asking, m
    <2>14. Pivoted(b, Tail(ms))
        BY <1>2, <2>8, <2>10, PivotStays DEF Asking, m
    <2>15. Grouped(b, Tail(ms))
        BY <1>2, <2>8, <2>10, GroupsStay DEF Asking, m
    <2>16. FreshAnswer(a, d, m) /\ FreshShown(a, d) => FreshShown(b, d)
        <3> SUFFICES ASSUME FreshAnswer(a, d, m), FreshShown(a, d) PROVE FreshShown(b, d)
            OBVIOUS
        <3>1. m.at = d.version
            BY <2>6
        <3>2. /\ b.analytics.base.at = d.version
              /\ \A s \in b.loaded \cap Scopes : b.analytics.sections[s].at = d.version
            BY <2>3, <2>4, <3>1 DEF FreshShown
        <3> QED
            BY <2>8, <2>9, <3>2 DEF FreshShown
    <2>17. Heard(a, b, ms, c, d)
        BY <1>2, <2>8, <2>10, <2>11, <2>12, <2>13, <2>14, <2>15, <2>16, HeardTogether DEF m
    <2> QED
        BY <2>17 DEF m, b
<1> QED
    BY <1>3, <1>4

\* A pivot.
LEMMA PivotHeard ==
    ASSUME NEW a, Good(a, 0), NEW ms \in Seq(Answers(a, 0)), ms # <<>>, NEW c, NEW d,
           Searching(a, ms, c), Asking(a, ms), Head(ms) \in PivotsFound(a)
    PROVE  Heard(a, PivotDone(a, Head(ms)), ms, c, d)
<1> DEFINE m == Head(ms)
           pivot == [query |-> m.query, at |-> m.at, dims |-> m.dims]
           loaded == a.loaded \cup {"Pivot"}
           b == [a EXCEPT !.pivot = pivot, !.analyticsGen = m.gen, !.loaded = loaded, !.loading = FALSE]
<1>1. m.kind = "PivotDone"
    BY DEF PivotsFound
<1>2. /\ ~OfGen(a, "SearchPage", m) /\ ~OfGen(a, "SearchCount", m) /\ ~OfGen(a, "AnalyticsDone", m)
      /\ a.explorer # None => ~OfExplorer(a.explorer, "SectionDone", m)
      /\ m \notin StatsFound
    BY <1>1 DEF OfGen, OfExplorer, StatsFound
<1>3. CASE m.gen # a.gen
    <2>1. PivotDone(a, m) = a
        BY <1>3 DEF PivotDone
    <2>2. \A k \in {"SearchPage", "SearchCount", "AnalyticsDone", "PivotDone"} : ~OfGen(a, k, m)
        BY <1>3 DEF OfGen
    <2> HIDE DEF m
    <2>3. Heard(a, a, ms, c, d)
        BY <1>2, <2>2, Thrown DEF m
    <2> QED
        BY <2>1, <2>3 DEF m
<1>4. CASE m.gen = a.gen
    <2>1. pivot.at = m.at /\ pivot.dims = m.dims
        OBVIOUS
    <2>2. loaded \cap Scopes \subseteq a.loaded
        BY NamesAssumption
    <2>3. m \in PivotFound(a.gen)
        BY <1>4 DEF PivotsFound, PivotFound
    <2>4. FreshAnswer(a, d, m) => m.at = d.version
        BY <1>1, <1>4 DEF FreshAnswer
    <2>5. PivotDone(a, m) = b
        BY <1>4 DEF PivotDone
    <2> HIDE DEF m, pivot, loaded
    <2>6. \A x \in Fields \ {"pivot", "loaded", "analyticsGen", "loading"} : b[x] = a[x]
        BY DEF Good, IsWindow
    <2>7. b.pivot = pivot /\ b.loaded = loaded
        BY DEF Good, IsWindow, Fields
    <2> HIDE DEF b
    <2>8. /\ b.ready = a.ready /\ b.gen = a.gen /\ b.searchTx = a.searchTx /\ b.analyticsTx = a.analyticsTx
          /\ b.turned = a.turned /\ b.overtaken = a.overtaken /\ b.limit = a.limit /\ b.level = a.level
          /\ b.dims = a.dims /\ b.explorer = a.explorer /\ b.analytics = a.analytics
          /\ b.underpricing = a.underpricing /\ b.dbTotal = a.dbTotal
        BY <2>6 DEF Fields
    <2>9. /\ b.rows = a.rows /\ b.total = a.total /\ b.searching = a.searching /\ b.counting = a.counting
        BY <2>6 DEF Fields
    <2>10. Takes(a, b) /\ SameSearch(a, b) /\ SameReport(a, b)
        BY <2>2, <2>7, <2>8, <2>9 DEF Takes, SameSearch, SameReport
    <2>11. Searching(b, Tail(ms), c)
        BY <1>2, <2>10, HeardSearching DEF m
    <2>12. Limited(b, Tail(ms)) /\ Leveled(b, Tail(ms))
        BY <1>2, <2>10, ReportStays DEF Asking, m
    <2>13. m.dims = a.dims => ShownDims(b)
        BY <2>1, <2>7, <2>8 DEF ShownDims
    <2>14. Pivoted(b, Tail(ms))
        BY <2>3, <2>10, <2>13, HeardPivoted DEF Asking, m
    <2>15. Grouped(b, Tail(ms))
        BY <1>2, <2>8, <2>10, GroupsStay DEF Asking, m
    <2>16. FreshAnswer(a, d, m) /\ FreshShown(a, d) => FreshShown(b, d)
        BY <2>1, <2>2, <2>4, <2>7, <2>8, <2>9 DEF FreshShown
    <2>17. Heard(a, b, ms, c, d)
        BY <1>2, <2>8, <2>10, <2>11, <2>12, <2>14, <2>15, <2>16, HeardTogether DEF m
    <2> QED
        BY <2>5, <2>17 DEF m
<1> QED
    BY <1>3, <1>4

\* Groups that the explorer waits for, or has had.
LEMMA GroupsHeard ==
    ASSUME NEW a, Good(a, 0), NEW ms \in Seq(Answers(a, 0)), ms # <<>>, NEW c, NEW d,
           Searching(a, ms, c), Asking(a, ms), Head(ms) \in GroupsFound(a)
    PROVE  Heard(a, SectionDone(a, Head(ms)), ms, c, d)
<1> DEFINE m == Head(ms)
           rows == [query |-> m.query, at |-> m.at]
           e == [a.explorer EXCEPT !.rows = rows, !.loading = FALSE]
           b == [a EXCEPT !.explorer = e]
<1>1. m.kind = "SectionDone"
    BY DEF GroupsFound
<1>2. /\ ~OfGen(a, "SearchPage", m) /\ ~OfGen(a, "SearchCount", m) /\ ~OfGen(a, "AnalyticsDone", m)
      /\ ~OfGen(a, "PivotDone", m) /\ m \notin StatsFound
    BY <1>1 DEF OfGen, StatsFound
<1>3. CASE ~(a.explorer # None /\ a.explorer.gen = m.gen /\ a.explorer.kind = m.section)
    <2>1. SectionDone(a, m) = a
        BY <1>3 DEF SectionDone
    <2>2. a.explorer # None => ~OfExplorer(a.explorer, "SectionDone", m)
        BY <1>3 DEF OfExplorer
    <2> HIDE DEF m
    <2>3. Heard(a, a, ms, c, d)
        BY <1>2, <2>2, Thrown DEF m
    <2> QED
        BY <2>1, <2>3 DEF m
<1>4. CASE a.explorer # None /\ a.explorer.gen = m.gen /\ a.explorer.kind = m.section
    <2>1. rows # None
        <3>1. rows \in [query : Asked, at : Versions]
            BY DEF GroupsFound
        <3> QED
            BY <3>1, NamesAssumption
    <2>2. rows.at = m.at
        OBVIOUS
    <2>3. FreshAnswer(a, d, m) => m.at = d.version
        BY <1>1, <1>4 DEF FreshAnswer
    <2>4. SectionDone(a, m) = b
        BY <1>4 DEF SectionDone, Source
    <2> HIDE DEF m, rows
    <2>5. a.explorer \in Explorer
        BY <1>4 DEF Good, Results
    <2>6. e.gen = a.explorer.gen /\ e.rows = rows
        BY <2>5 DEF Explorer
    <2> HIDE DEF e
    <2>7. \A x \in Fields \ {"explorer"} : b[x] = a[x]
        BY DEF Good, IsWindow
    <2>8. b.explorer = e
        BY DEF Good, IsWindow, Fields
    <2> HIDE DEF b
    <2>9. /\ b.ready = a.ready /\ b.gen = a.gen /\ b.searchTx = a.searchTx /\ b.analyticsTx = a.analyticsTx
          /\ b.turned = a.turned /\ b.overtaken = a.overtaken /\ b.limit = a.limit /\ b.level = a.level
          /\ b.dims = a.dims /\ b.analytics = a.analytics /\ b.loaded = a.loaded /\ b.pivot = a.pivot
          /\ b.underpricing = a.underpricing /\ b.dbTotal = a.dbTotal
        BY <2>7 DEF Fields
    <2>10. /\ b.rows = a.rows /\ b.total = a.total /\ b.searching = a.searching /\ b.counting = a.counting
        BY <2>7 DEF Fields
    <2>11. Takes(a, b) /\ SameSearch(a, b) /\ SameReport(a, b)
        BY <1>4, <2>6, <2>8, <2>9, <2>10 DEF Takes, SameSearch, SameReport
    <2>12. Searching(b, Tail(ms), c)
        BY <1>2, <2>11, HeardSearching DEF m
    <2>13. Limited(b, Tail(ms)) /\ Leveled(b, Tail(ms))
        BY <1>2, <2>11, ReportStays DEF Asking, m
    <2>14. Pivoted(b, Tail(ms))
        BY <1>2, <2>9, <2>11, PivotStays DEF Asking, m
    <2>15. Grouped(b, Tail(ms))
        BY <2>1, <2>6, <2>8, <2>11, HeardGrouped DEF Asking
    <2>16. FreshAnswer(a, d, m) /\ FreshShown(a, d) => FreshShown(b, d)
        BY <2>2, <2>3, <2>6, <2>8, <2>9, <2>10 DEF FreshShown
    <2>17. Heard(a, b, ms, c, d)
        BY <1>2, <2>9, <2>11, <2>12, <2>13, <2>14, <2>15, <2>16, HeardTogether DEF m
    <2> QED
        BY <2>4, <2>17 DEF m
<1> QED
    BY <1>3, <1>4

\* After an import or a clearing everything is asked for anew.
LEMMA ChangeHeard ==
    ASSUME NEW a, Good(a, 0), NEW ms \in Seq(Answers(a, 0)), NEW c \in CountStates(a), NEW d
    PROVE  /\ AfterChange(a).ready = a.ready
           /\ Searching(AfterChange(a), ms, c) /\ Asking(AfterChange(a), ms)
           /\ Fresh(AfterChange(a), ms, c, d)
<1> DEFINE e == [a EXCEPT !.busy = FALSE]
<1>1. Good(e, 0) /\ Carries(a, e)
    BY BusyKeeps
<1>2. AfterChange(a) = StartSearch(AskSearch(e, [kind |-> "Stats"]))
    BY DEF AfterChange
<1>3. e.ready = a.ready
    BY DEF Good, IsWindow, Fields
<1> HIDE DEF e
<1>4. ms \in Seq(Answers(e, 0)) /\ c \in CountStates(e)
    BY <1>1, AnswersCarried, CountsCarried
<1> QED
    BY <1>1, <1>2, <1>3, <1>4, RefreshHolds

\* What becomes of what holds of the window, and that the data are asked for anew after a change.
LEMMA AnswerHeard ==
    ASSUME NEW a, Good(a, 0), NEW ms \in Seq(Answers(a, 0)), ms # <<>>, NEW c \in CountStates(a), NEW d,
           Searching(a, ms, c), Asking(a, ms), Head(ms).kind # "StartupDone"
    PROVE  /\ Handled(a, Head(ms)).ready = a.ready
           /\ Searching(Handled(a, Head(ms)), Tail(ms), c) /\ Asking(Handled(a, Head(ms)), Tail(ms))
           /\ Fresh(a, ms, c, d) \/ Head(ms).kind \in {"ImportDone", "DbCleared"}
                => Fresh(Handled(a, Head(ms)), Tail(ms), c, d)
<1> DEFINE m == Head(ms)
<1>1. m \in Answers(a, 0) /\ Tail(ms) \in Seq(Answers(a, 0))
    BY Channels
<1>2. CASE m.kind \in {"ProfileDone", "CompareDone", "ExportDone", "MaintenanceDone", "Fatal"}
    <2>1. m.kind \notin {"ImportDone", "DbCleared"}
        BY <1>2
    <2>2. Heard(a, Handled(a, m), ms, c, d)
        BY <1>2, MinorHeard
    <2> HIDE DEF m
    <2>3. /\ Handled(a, m).ready = a.ready
          /\ Searching(Handled(a, m), Tail(ms), c) /\ Asking(Handled(a, m), Tail(ms))
          /\ Fresh(a, ms, c, d) => Fresh(Handled(a, m), Tail(ms), c, d)
        BY <2>2 DEF Heard
    <2> QED
        BY <2>1, <2>3 DEF m
<1>3. CASE m.kind \in {"SearchPage", "SearchCount", "AnalyticsDone", "SectionDone", "PivotDone",
                       "UnderpricingDone", "Stats"}
    <2>1. m.kind \notin {"ImportDone", "DbCleared"}
        BY <1>3
    <2>2. Heard(a, Handled(a, m), ms, c, d)
        <3>1. CASE m.kind = "SearchPage"
            <4>1. m \in PagesFound(a)
                BY <1>1, <3>1, KindsOfAnswers
            <4>2. Handled(a, m) = SearchPage(a, m)
                BY <3>1 DEF Handled
            <4> QED
                BY <4>1, <4>2, PageHeard
        <3>2. CASE m.kind = "SearchCount"
            <4>1. m \in CountsFound(a)
                BY <1>1, <3>2, KindsOfAnswers
            <4>2. Handled(a, m) = SearchCount(a, m)
                BY <3>2 DEF Handled
            <4> QED
                BY <4>1, <4>2, CountHeard
        <3>3. CASE m.kind = "AnalyticsDone"
            <4>1. m \in ScopesFound(a)
                BY <1>1, <3>3, KindsOfAnswers
            <4>2. Handled(a, m) = AnalyticsDone(a, m)
                BY <3>3 DEF Handled
            <4> QED
                BY <4>1, <4>2, ReportHeard
        <3>4. CASE m.kind = "SectionDone"
            <4>1. m \in GroupsFound(a)
                BY <1>1, <3>4, KindsOfAnswers
            <4>2. Handled(a, m) = SectionDone(a, m)
                BY <3>4 DEF Handled
            <4> QED
                BY <4>1, <4>2, GroupsHeard
        <3>5. CASE m.kind = "PivotDone"
            <4>1. m \in PivotsFound(a)
                BY <1>1, <3>5, KindsOfAnswers
            <4>2. Handled(a, m) = PivotDone(a, m)
                BY <3>5 DEF Handled
            <4> QED
                BY <4>1, <4>2, PivotHeard
        <3>6. CASE m.kind = "UnderpricingDone"
            BY <3>6, ScanHeard
        <3>7. CASE m.kind = "Stats"
            BY <1>1, <3>7, StatsHeard
        <3> QED
            BY <1>3, <3>1, <3>2, <3>3, <3>4, <3>5, <3>6, <3>7
    <2> HIDE DEF m
    <2>3. /\ Handled(a, m).ready = a.ready
          /\ Searching(Handled(a, m), Tail(ms), c) /\ Asking(Handled(a, m), Tail(ms))
          /\ Fresh(a, ms, c, d) => Fresh(Handled(a, m), Tail(ms), c, d)
        BY <2>2 DEF Heard
    <2> QED
        BY <2>1, <2>3 DEF m
<1>4. CASE m.kind = "ImportDone"
    <2> DEFINE v == m.at
               e == [a EXCEPT !.dbTotal = v]
    <2>1. m \in News
        <3>1. m \notin Found(a) /\ m \notin Starts /\ m \notin Ends
            BY <1>4 DEF Found, PagesFound, CountsFound, ScopesFound, GroupsFound, PivotsFound, ScansFound,
                        DossiersFound, ComparisonsFound, Starts, Ends
        <3>2. m \notin Errors(0) /\ m \notin FailedStarts(0)
            BY DEF Errors, FailedStarts
        <3> QED
            BY <1>1, <3>1, <3>2 DEF Answers, Notices
    <2>2. v \in Versions
        BY <2>1 DEF News
    <2>3. Handled(a, m) = AfterChange(e)
        BY <1>4 DEF Handled
    <2> HIDE DEF m, v
    <2>4. Good(e, 0) /\ Carries(a, e)
        BY <2>2, StatsKeeps
    <2>5. e.ready = a.ready
        BY DEF Good, IsWindow, Fields
    <2> HIDE DEF e
    <2>6. Tail(ms) \in Seq(Answers(e, 0)) /\ c \in CountStates(e)
        BY <1>1, <2>4, AnswersCarried, CountsCarried
    <2> QED
        BY <2>3, <2>4, <2>5, <2>6, ChangeHeard DEF m
<1>5. CASE m.kind = "DbCleared"
    <2>1. Handled(a, m) = AfterChange(a)
        BY <1>5 DEF Handled
    <2> HIDE DEF m
    <2> QED
        BY <1>1, <2>1, ChangeHeard DEF m
<1> QED
    BY <1>1, <1>2, <1>3, <1>4, <1>5, KindsOfAnswers

\* An empty database shows no rows, and nothing is asked.
LEMMA EmptyOpened ==
    ASSUME NEW a, NEW b, NEW T, NEW ms \in Seq(T), ms # <<>>, NEW c, NEW d,
           Searching(a, ms, c), Asking(a, ms), Head(ms).kind = "StartupDone", d.empty,
           \A x \in Fields \ {"ready", "dbTotal", "busy", "rows", "total"} : b[x] = a[x],
           b.dbTotal = d.version, b.rows = None,
           b.total # None, b.total.at = d.version, b.total.pages = 0
    PROVE  /\ Searching(b, Tail(ms), c) /\ Asking(b, Tail(ms))
           /\ Fresh(a, ms, c, d) => Fresh(b, Tail(ms), c, d)
<1>1. /\ b.gen = a.gen /\ b.searchTx = a.searchTx /\ b.analyticsTx = a.analyticsTx
      /\ b.turned = a.turned /\ b.overtaken = a.overtaken /\ b.limit = a.limit /\ b.level = a.level
      /\ b.dims = a.dims /\ b.explorer = a.explorer /\ b.pivot = a.pivot
      /\ b.analytics = a.analytics /\ b.loaded = a.loaded /\ b.underpricing = a.underpricing
      /\ b.searching = a.searching /\ b.counting = a.counting
    BY DEF Fields
<1>2. \A k, m : OfGen(b, k, m) <=> OfGen(a, k, m)
    BY <1>1 DEF OfGen
<1>3. Takes(a, b) /\ SameReport(a, b)
    BY <1>1 DEF Takes, SameReport
<1>4. /\ ~OfGen(a, "SearchPage", Head(ms)) /\ ~OfGen(a, "SearchCount", Head(ms))
      /\ ~OfGen(a, "AnalyticsDone", Head(ms)) /\ ~OfGen(a, "PivotDone", Head(ms))
      /\ a.explorer # None => ~OfExplorer(a.explorer, "SectionDone", Head(ms))
      /\ Head(ms) \notin StatsFound
    BY DEF OfGen, OfExplorer, StatsFound
<1>5. ToSet(ms) = {Head(ms)} \cup ToSet(Tail(ms))
    BY ItemsTaken
<1>6. Searching(b, Tail(ms), c)
    <2>1. /\ \A i \in 1..Len(b.searchTx) : OfGen(b, "Search", b.searchTx[i]) <=> i = Len(b.searchTx)
          /\ b.searchTx # <<>> =>
              /\ \A m \in ToSet(c.rx) : ~OfGen(b, "Count", m)
              /\ c.at # None => c.at.gen # b.gen
              /\ \A m \in ToSet(Tail(ms)) : ~OfGen(b, "SearchPage", m) /\ ~OfGen(b, "SearchCount", m)
        BY <1>1, <1>2, <1>5 DEF Searching
    <2>2. b.searching => b.searchTx # <<>> \/ \E m \in ToSet(Tail(ms)) : OfGen(b, "SearchPage", m)
        BY <1>1, <1>2, <1>4, <1>5 DEF Searching
    <2>3. b.counting =>
            \/ b.searchTx # <<>>
            \/ c.rx # <<>> /\ OfGen(b, "Count", c.rx[Len(c.rx)])
            \/ c.at # None /\ c.at.gen = b.gen
            \/ \E m \in ToSet(Tail(ms)) : OfGen(b, "SearchCount", m)
        BY <1>1, <1>2, <1>4, <1>5 DEF Searching
    <2> QED
        BY <2>1, <2>2, <2>3 DEF Searching
<1>7. Limited(b, Tail(ms)) /\ Leveled(b, Tail(ms))
    BY <1>3, <1>4, ReportStays DEF Asking
<1>8. Pivoted(b, Tail(ms))
    BY <1>1, <1>3, <1>4, PivotStays DEF Asking
<1>9. Grouped(b, Tail(ms))
    BY <1>1, <1>3, <1>4, GroupsStay DEF Asking
<1>10. ASSUME FreshNow(a, ms, c, d) PROVE FreshNow(b, Tail(ms), c, d)
    <2>1. FreshShown(a, d)
        BY <1>10 DEF FreshNow
    <2>2. PagesIn(d, b.total.query) = 0
        BY DEF PagesIn
    <2>3. FreshShown(b, d)
        BY <1>1, <2>1, <2>2 DEF FreshShown
    <2> QED
        BY <1>3, <1>10, <2>3, HeardFreshNow
<1>11. ASSUME Counted(a, ms, d) PROVE Counted(b, Tail(ms), d)
    <2> DEFINE S == {m \in StatsFound : m.at = d.version}
               shown == a.ready => a.dbTotal = d.version
               after == b.ready => b.dbTotal = d.version
    <2>1. Decided(a.searchTx, StatsAsked, StatsAsked, ms, StatsFound, S, shown)
        BY <1>11 DEF Counted
    <2>2. after
        OBVIOUS
    <2> HIDE DEF S, shown, after
    <2>3. Decided(a.searchTx, StatsAsked, StatsAsked, Tail(ms), StatsFound, S, after)
        BY <2>1, <2>2, DecidedHear
    <2> QED
        BY <1>1, <2>3, Zenon DEF Counted, S, after
<1>12. Cached(a, c, d) => Cached(b, c, d)
    BY <1>1 DEF Cached
<1> QED
    BY <1>6, <1>7, <1>8, <1>9, <1>10, <1>11, <1>12 DEF Asking, Fresh

\* The database that was opened: it is empty, or its rows are asked for.
LEMMA OpenedHeard ==
    ASSUME NEW a, Good(a, 0), NEW ms \in Seq(Answers(a, 0)), ms # <<>>, NEW c \in CountStates(a), NEW d,
           Searching(a, ms, c), Asking(a, ms), Head(ms).kind = "StartupDone",
           Head(ms).at = d.version, Head(ms).empty = d.empty
    PROVE  /\ Searching(Handled(a, Head(ms)), Tail(ms), c) /\ Asking(Handled(a, Head(ms)), Tail(ms))
           /\ Fresh(a, ms, c, d) => Fresh(Handled(a, Head(ms)), Tail(ms), c, d)
<1> DEFINE m == Head(ms)
           v == m.at
           busy == a.busy \/ m.unindexed
           b == [a EXCEPT !.ready = TRUE, !.dbTotal = v, !.busy = busy]
           total == [query |-> a.active, at |-> v, pages |-> 0]
           e == [b EXCEPT !.rows = None, !.total = total]
<1>1. m \in Starts /\ Tail(ms) \in Seq(Answers(a, 0))
    BY Channels, KindsOfAnswers
<1>2. v \in Versions /\ busy \in BOOLEAN
    BY <1>1 DEF Starts
<1>3. Handled(a, m) = StartupDone(a, m)
    BY DEF Handled
<1>4. Handled(a, m) = IF d.empty THEN e ELSE StartSearch(AskSearch(b, [kind |-> "Stats"]))
    BY <1>3 DEF StartupDone
<1>5. v = d.version
    OBVIOUS
<1> HIDE DEF v, busy
<1>6. IsWindow(b) /\ \A x \in Fields \ {"ready", "dbTotal", "busy"} : b[x] = a[x]
    BY DEF Good, IsWindow
<1>7. b.ready = TRUE /\ b.dbTotal = v /\ b.busy = busy
    BY DEF Good, IsWindow, Fields
<1> HIDE DEF b
<1>8. Good(b, 0) /\ Carries(a, b)
    <2>1. Settings(b) /\ \A x \in Fields \ Settled : b[x] = a[x]
        BY <1>2, <1>6, <1>7 DEF Good, Settings, Fields, Settled
    <2> QED
        BY <1>6, <2>1, SettledKeeps
<1>9. CASE d.empty
    <2>1. total.at = v /\ total.pages = 0 /\ total # None
        <3>1. total \in [query : Asked, at : Versions, pages : Nat]
            BY <1>2 DEF Good, Results
        <3> QED
            BY <3>1, NamesAssumption
    <2> HIDE DEF total
    <2>2. \A x \in Fields \ {"rows", "total"} : e[x] = b[x]
        BY <1>6 DEF IsWindow
    <2>3. e.rows = None /\ e.total = total
        BY <1>6 DEF IsWindow, Fields
    <2> HIDE DEF e
    <2>4. e.dbTotal = v
        BY <1>7, <2>2 DEF Fields
    <2>5. \A x \in Fields \ {"ready", "dbTotal", "busy", "rows", "total"} : e[x] = a[x]
        BY <1>6, <2>2
    <2>6. /\ Searching(e, Tail(ms), c) /\ Asking(e, Tail(ms))
          /\ Fresh(a, ms, c, d) => Fresh(e, Tail(ms), c, d)
        BY <1>5, <1>9, <2>1, <2>3, <2>4, <2>5, EmptyOpened
    <2> QED
        BY <1>4, <1>9, <2>6
<1>10. CASE ~d.empty
    <2>1. Tail(ms) \in Seq(Answers(b, 0)) /\ c \in CountStates(b)
        BY <1>1, <1>8, AnswersCarried, CountsCarried
    <2> QED
        BY <1>4, <1>8, <1>10, <2>1, RefreshHolds
<1> QED
    BY <1>9, <1>10

\* A channel that sends nothing away: a window that may send to both.
LEMMA WindowIs ==
    ASSUME NEW b, IsWindow(b), Alive, Window(b)
    PROVE  app' = b
<1>1. app' = [b EXCEPT !.searchTx = b.searchTx, !.analyticsTx = b.analyticsTx]
    BY DEF Window, Alive
<1> QED
    BY <1>1 DEF IsWindow, Fields

\* What is left to be read of the startup.
LEMMA StartingTail ==
    ASSUME NEW a, NEW b, NEW T, NEW ms \in Seq(T), ms # <<>>, NEW st, NEW os, NEW d,
           Starting(a, ms, st, os, d),
           Head(ms).kind # "StartupDone" => b.ready = a.ready,
           NEW ot, Head(ms).kind # "StartupDone" => ot = os
    PROVE  Starting(b, Tail(ms), st, ot, d)
<1>1. /\ Len(ms) \in Nat /\ Len(ms) # 0 /\ Len(Tail(ms)) = Len(ms) - 1 /\ Head(ms) = ms[1]
      /\ DOMAIN Tail(ms) = 1..(Len(ms) - 1)
      /\ \A i \in 1..(Len(ms) - 1) : Tail(ms)[i] = ms[i + 1]
    BY Positions
<1>2. \A i \in 1..(Len(ms) - 1) : i + 1 \in 1..Len(ms) /\ i + 1 # 1
    BY <1>1
<1>3. 1 \in 1..Len(ms)
    BY <1>1
<1>4. ToSet(ms) = {Head(ms)} \cup ToSet(Tail(ms))
    BY ItemsTaken
<1>5. ASSUME NEW i \in 1..(Len(ms) - 1), Tail(ms)[i].kind = "StartupDone"
      PROVE  /\ st # "running" /\ Tail(ms)[i].at = d.version /\ Tail(ms)[i].empty = d.empty
             /\ \A j \in 1..(Len(ms) - 1) : Tail(ms)[j].kind = "StartupDone" => i = j
             /\ Head(ms).kind # "StartupDone"
    <2>1. i + 1 \in 1..Len(ms) /\ ms[i + 1].kind = "StartupDone" /\ Tail(ms)[i] = ms[i + 1]
        BY <1>1, <1>2, <1>5
    <2>2. /\ st # "running" /\ ms[i + 1].at = d.version /\ ms[i + 1].empty = d.empty
          /\ \A j \in 1..Len(ms) : ms[j].kind = "StartupDone" => i + 1 = j
        BY <2>1 DEF Starting
    <2>3. Head(ms).kind # "StartupDone"
        BY <1>1, <1>2, <1>3, <2>2
    <2>4. ASSUME NEW j \in 1..(Len(ms) - 1), Tail(ms)[j].kind = "StartupDone" PROVE i = j
        <3>1. i + 1 = j + 1
            BY <1>1, <1>2, <2>2, <2>4
        <3> QED
            BY <3>1
    <2> QED
        BY <2>1, <2>2, <2>3, <2>4
<1>6. Head(ms).kind = "StartupDone" => st # "running"
    BY <1>1, <1>3 DEF Starting
<1>7. ASSUME st = "running" \/ \E m \in ToSet(Tail(ms)) : m.kind = "StartupDone"
      PROVE  ~b.ready /\ ot = <<>>
    <2>1. Head(ms).kind # "StartupDone"
        BY <1>1, <1>5, <1>6, <1>7 DEF ToSet
    <2>2. ~a.ready /\ os = <<>>
        BY <1>4, <1>7 DEF Starting
    <2> QED
        BY <2>1, <2>2
<1> QED
    BY <1>1, <1>5, <1>7 DEF Starting

\* The window reads what it is told.
LEMMA DrainHolds ==
    ASSUME IInv, FInv, Drain
    PROVE  FInv'
<1> SUFFICES ASSUME faults = 0
             PROVE  /\ Alive'
                    /\ Starting(app', messages', startup', ops', data')
                    /\ Searching(app', messages', count') /\ Asking(app', messages')
                    /\ ~Renewal(messages', ops') => Fresh(app', messages', count', data')
    <2>1. faults' = faults
        BY DEF Drain
    <2> QED
        BY <2>1 DEF FInv
<1> DEFINE m == Head(messages)
           b == Handled(app, m)
<1>1. /\ messages # <<>> /\ Window(b) /\ messages' = Tail(messages)
      /\ ops' = IF m.kind = "StartupDone" /\ m.unindexed THEN Append(ops, Operation("Repair")) ELSE ops
      /\ startup' = startup /\ search' = search /\ count' = count /\ analyst' = analyst /\ data' = data
    BY DEF Drain
<1>2. /\ Good(app, 0) /\ messages \in Seq(Answers(app, 0)) /\ count \in CountStates(app)
      /\ ops \in Seq(Operations)
    BY DEF IInv
<1>3. /\ Alive /\ Starting(app, messages, startup, ops, data)
      /\ Searching(app, messages, count) /\ Asking(app, messages)
      /\ ~Renewal(messages, ops) => Fresh(app, messages, count, data)
    BY DEF FInv
<1>4. Alive'
    BY <1>1, <1>3 DEF Alive
<1>5. m \in Answers(app, 0)
    BY <1>1, <1>2, Channels
<1>6. Good(b, 0)
    BY <1>2, <1>5, HandledKeeps
<1>7. app' = b
    BY <1>1, <1>3, <1>6, WindowIs DEF Good
<1>8. ToSet(messages) = {m} \cup ToSet(Tail(messages))
    BY <1>1, <1>2, ItemsTaken
<1>9. m.kind = "StartupDone" => m.at = data.version /\ m.empty = data.empty
    <2>1. Len(messages) \in Nat /\ Len(messages) # 0 /\ m = messages[1]
        BY <1>1, <1>2, Positions
    <2>2. 1 \in 1..Len(messages)
        BY <2>1
    <2> QED
        BY <1>3, <2>1, <2>2 DEF Starting
<1>10. m.kind # "StartupDone" =>
         /\ b.ready = app.ready
         /\ Searching(b, Tail(messages), count) /\ Asking(b, Tail(messages))
         /\ Fresh(app, messages, count, data) \/ m.kind \in {"ImportDone", "DbCleared"}
              => Fresh(b, Tail(messages), count, data)
    BY <1>1, <1>2, <1>3, AnswerHeard
<1>11. m.kind = "StartupDone" =>
         /\ Searching(b, Tail(messages), count) /\ Asking(b, Tail(messages))
         /\ Fresh(app, messages, count, data) => Fresh(b, Tail(messages), count, data)
    BY <1>1, <1>2, <1>3, <1>9, OpenedHeard
<1> HIDE DEF b
<1>12. Starting(b, Tail(messages), startup, ops', data)
    BY <1>1, <1>2, <1>3, <1>10, StartingTail
<1>13. Renewal(messages, ops) => m.kind \in {"ImportDone", "DbCleared"} \/ Renewal(Tail(messages), ops')
    <2>1. \A i \in DOMAIN ops : i \in DOMAIN ops' /\ ops'[i] = ops[i]
        <3>1. CASE ops' = ops
            BY <3>1
        <3>2. CASE ops' = Append(ops, Operation("Repair"))
            BY <1>2, <3>2
        <3> QED
            BY <1>1, <3>1, <3>2
    <2> QED
        BY <1>8, <2>1 DEF Renewal
<1>14. ~Renewal(Tail(messages), ops') => Fresh(b, Tail(messages), count, data)
    BY <1>3, <1>10, <1>11, <1>13
<1>15. Searching(b, Tail(messages), count) /\ Asking(b, Tail(messages))
    BY <1>10, <1>11
<1> HIDE DEF m
<1> QED
    BY <1>1, <1>4, <1>7, <1>12, <1>14, <1>15

----------------------------------------------------------------------------
(* The threads tell the window: m is what they tell.                       *)

\* Who waits for the search is not told of it.
LEMMA ToldSearching ==
    ASSUME NEW a, NEW T, NEW ms \in Seq(T), NEW m \in T, NEW c, Searching(a, ms, c),
           ~OfGen(a, "SearchPage", m), ~OfGen(a, "SearchCount", m)
    PROVE  Searching(a, Append(ms, m), c)
<1>1. ToSet(Append(ms, m)) = ToSet(ms) \cup {m}
    BY ItemsAppended
<1> HIDE DEF OfGen
<1> QED
    BY <1>1 DEF Searching

\* Who waits for analytics is told of what was asked, or of nothing.
LEMMA ToldAsking ==
    ASSUME NEW a, NEW T, NEW ms \in Seq(T), NEW m \in T, Asking(a, ms),
           ~OfGen(a, "AnalyticsDone", m), ~OfGen(a, "PivotDone", m)
    PROVE  Asking(a, Append(ms, m))
<1>1. ToSet(Append(ms, m)) = ToSet(ms) \cup {m}
    BY ItemsAppended
<1>2. Limited(a, Append(ms, m))
    BY <1>1 DEF Limited, Asking
<1>3. m \notin ProductsFound(a.gen) /\ m \notin PivotFound(a.gen)
    BY DEF ProductsFound, PivotFound, OfGen
<1>4. Leveled(a, Append(ms, m))
    BY <1>3, DecidedTell DEF Leveled, Asking
<1>5. Pivoted(a, Append(ms, m))
    BY <1>3, DecidedTell DEF Pivoted, Asking
<1>6. Grouped(a, Append(ms, m))
    BY <1>1 DEF Grouped, Asking
<1> QED
    BY <1>2, <1>4, <1>5, <1>6 DEF Asking

\* What is told is of the data as they are.
LEMMA ToldFresh ==
    ASSUME NEW a, NEW T, NEW ms \in Seq(T), NEW m \in T, NEW c, NEW d, Fresh(a, ms, c, d),
           FreshAnswer(a, d, m), m \in StatsFound => m.at = d.version
    PROVE  Fresh(a, Append(ms, m), c, d)
<1>1. ToSet(Append(ms, m)) = ToSet(ms) \cup {m}
    BY ItemsAppended
<1>2. FreshNow(a, Append(ms, m), c, d)
    <2> HIDE DEF FreshAnswer
    <2> QED
        BY <1>1 DEF FreshNow, Fresh
<1>3. Counted(a, Append(ms, m), d)
    <2> DEFINE S == {n \in StatsFound : n.at = d.version}
               shown == a.ready => a.dbTotal = d.version
    <2>1. Decided(a.searchTx, StatsAsked, StatsAsked, ms, StatsFound, S, shown)
        BY DEF Counted, Fresh
    <2>2. m \in StatsFound => m \in S
        OBVIOUS
    <2> HIDE DEF S, shown
    <2>3. Decided(a.searchTx, StatsAsked, StatsAsked, Append(ms, m), StatsFound, S, shown)
        BY <2>1, <2>2, DecidedTell
    <2> QED
        BY <2>3, Zenon DEF Counted, S, shown
<1> QED
    BY <1>2, <1>3 DEF Fresh

\* What is told does not end a renewal, and no other startup is under way.
LEMMA ToldStarting ==
    ASSUME NEW a, NEW T, NEW ms \in Seq(T), NEW m \in T, m.kind # "StartupDone",
           NEW st, NEW os, NEW ot, os = <<>> => ot = <<>>, NEW d
    PROVE  /\ Starting(a, ms, st, os, d) => Starting(a, Append(ms, m), st, ot, d)
           /\ Renewal(ms, os) => Renewal(Append(ms, m), os)
<1>1. ToSet(Append(ms, m)) = ToSet(ms) \cup {m}
    BY ItemsAppended
<1>2. /\ Len(ms) \in Nat /\ Len(Append(ms, m)) = Len(ms) + 1 /\ Append(ms, m)[Len(ms) + 1] = m
      /\ \A i \in 1..Len(ms) : Append(ms, m)[i] = ms[i]
    BY Positions
<1>3. \A i \in 1..(Len(ms) + 1) : i \in 1..Len(ms) \/ i = Len(ms) + 1
    BY <1>2
<1>4. \A i \in 1..(Len(ms) + 1) : Append(ms, m)[i].kind = "StartupDone" =>
         i \in 1..Len(ms) /\ ms[i].kind = "StartupDone" /\ Append(ms, m)[i] = ms[i]
    BY <1>2, <1>3
<1>5. ASSUME Starting(a, ms, st, os, d) PROVE Starting(a, Append(ms, m), st, ot, d)
    <2>1. st = "running" \/ (\E n \in ToSet(Append(ms, m)) : n.kind = "StartupDone") => ~a.ready /\ ot = <<>>
        BY <1>1, <1>5 DEF Starting
    <2>2. \A i \in 1..(Len(ms) + 1) : Append(ms, m)[i].kind = "StartupDone" =>
              /\ st # "running" /\ Append(ms, m)[i].at = d.version /\ Append(ms, m)[i].empty = d.empty
              /\ \A j \in 1..(Len(ms) + 1) : Append(ms, m)[j].kind = "StartupDone" => i = j
        BY <1>4, <1>5 DEF Starting
    <2> QED
        BY <1>2, <2>1, <2>2 DEF Starting
<1>6. Renewal(ms, os) => Renewal(Append(ms, m), os)
    BY <1>1 DEF Renewal
<1> QED
    BY <1>5, <1>6

\* The notices: answers to no request.
Notified == {"StartupDone", "ImportDone", "DbCleared", "ExportDone", "MaintenanceDone"}

\* A notice is no answer.
LEMMA ToldNotice ==
    ASSUME NEW a, NEW T, NEW ms \in Seq(T), NEW m \in T, m.kind \in Notified, NEW c, NEW d,
           Searching(a, ms, c), Asking(a, ms)
    PROVE  /\ Searching(a, Append(ms, m), c) /\ Asking(a, Append(ms, m))
           /\ Fresh(a, ms, c, d) => Fresh(a, Append(ms, m), c, d)
<1>1. /\ ~OfGen(a, "SearchPage", m) /\ ~OfGen(a, "SearchCount", m)
      /\ ~OfGen(a, "AnalyticsDone", m) /\ ~OfGen(a, "PivotDone", m) /\ m \notin StatsFound
    BY DEF Notified, OfGen, StatsFound
<1>2. FreshAnswer(a, d, m)
    BY DEF Notified, FreshAnswer, OfGen
<1> QED
    BY <1>1, <1>2, ToldSearching, ToldAsking, ToldFresh

\* A step after which nothing has failed.
LEMMA Unfailed ==
    ASSUME IInv, FInv, faults' = faults \/ Fails
    PROVE  /\ FInv' \/ (faults' = 0 /\ faults = 0 /\ ~Fails)
<1>1. faults \in Nat
    BY DEF IInv
<1>2. Fails => faults' # 0
    BY <1>1 DEF Fails
<1>3. faults' # 0 => FInv'
    BY DEF FInv
<1> QED
    BY <1>2, <1>3

\* The database has been opened for the window.
LEMMA StartupHolds ==
    ASSUME IInv, FInv, Startup
    PROVE  FInv'
<1>1. faults' = faults \/ Fails
    BY DEF Startup
<1> SUFFICES ASSUME faults' = 0, faults = 0, ~Fails PROVE FInv'
    BY <1>1, Unfailed
<1>2. /\ app' = app /\ search' = search /\ count' = count /\ analyst' = analyst /\ ops' = ops
      /\ data' = data /\ startup = "running" /\ startup' = "ended"
    BY DEF Startup
<1>3. PICK u \in BOOLEAN :
          Tell([kind |-> "StartupDone", at |-> data.version, empty |-> data.empty, unindexed |-> u])
    BY DEF Startup
<1> DEFINE m == [kind |-> "StartupDone", at |-> data.version, empty |-> data.empty, unindexed |-> u]
           T == Answers(app, 0)
<1>4. messages' = Append(messages, m)
    BY <1>3 DEF Tell
<1>5. messages \in Seq(T) /\ m \in T
    BY NoticesToldOf DEF IInv
<1>6. m.kind = "StartupDone" /\ m.at = data.version /\ m.empty = data.empty
    OBVIOUS
<1>7. /\ Alive /\ Starting(app, messages, "running", ops, data)
      /\ Searching(app, messages, count) /\ Asking(app, messages)
      /\ ~Renewal(messages, ops) => Fresh(app, messages, count, data)
    BY <1>2 DEF FInv
<1> HIDE DEF m, T
<1>8. /\ Searching(app, Append(messages, m), count) /\ Asking(app, Append(messages, m))
      /\ Fresh(app, messages, count, data) => Fresh(app, Append(messages, m), count, data)
    BY <1>5, <1>6, <1>7, ToldNotice DEF Notified
<1>9. ToSet(Append(messages, m)) = ToSet(messages) \cup {m}
    BY <1>5, ItemsAppended
<1>10. Starting(app, Append(messages, m), "ended", ops, data)
    <2>1. /\ Len(messages) \in Nat /\ Len(Append(messages, m)) = Len(messages) + 1
          /\ Append(messages, m)[Len(messages) + 1] = m
          /\ \A i \in 1..Len(messages) : Append(messages, m)[i] = messages[i]
        BY <1>5, Positions
    <2>2. \A i \in 1..(Len(messages) + 1) : i \in 1..Len(messages) \/ i = Len(messages) + 1
        BY <2>1
    <2>3. ~app.ready /\ ops = <<>> /\ \A i \in 1..Len(messages) : messages[i].kind # "StartupDone"
        BY <1>7 DEF Starting
    <2>4. \A i \in 1..(Len(messages) + 1) :
             Append(messages, m)[i].kind = "StartupDone" => i = Len(messages) + 1
        BY <2>1, <2>2, <2>3
    <2> QED
        BY <1>6, <2>1, <2>3, <2>4 DEF Starting
<1>11. Renewal(messages, ops) => Renewal(Append(messages, m), ops)
    BY <1>9 DEF Renewal
<1>12. Alive'
    BY <1>2, <1>7 DEF Alive
<1> QED
    BY <1>2, <1>4, <1>7, <1>8, <1>10, <1>11, <1>12 DEF FInv

\* An operation changes the data: the window will be told, or is going to be.
LEMMA CommitHolds ==
    ASSUME IInv, FInv, NEW i \in DOMAIN ops, Commit(i)
    PROVE  FInv'
<1>1. /\ app' = app /\ messages' = messages /\ startup' = startup /\ search' = search
      /\ count' = count /\ analyst' = analyst /\ faults' = faults
      /\ ops' = [ops EXCEPT ![i].changed = TRUE]
    BY DEF Commit
<1>2. ops[i].at = "running" /\ ops[i].kind \in {"Import", "Repair", "Clear"}
    BY DEF Commit, Running
<1> SUFFICES ASSUME faults = 0 PROVE FInv'
    BY <1>1 DEF FInv
<1>3. /\ Alive /\ Starting(app, messages, startup, ops, data)
      /\ Searching(app, messages, count) /\ Asking(app, messages)
    BY DEF FInv
<1>4. ops \in Seq(Operations)
    BY DEF IInv
<1>5. ops # <<>>
    BY <1>4
<1>6. Renewal(messages, ops')
    <2>1. ops[i] \in Operations
        BY <1>4
    <2>2. i \in DOMAIN ops' /\ ops'[i] = [ops[i] EXCEPT !.changed = TRUE]
        BY <1>1, <1>4
    <2>3. ops'[i].at = "running" /\ ops'[i].kind \in {"Import", "Repair", "Clear"}
        BY <1>2, <2>1, <2>2 DEF Operations
    <2> QED
        BY <2>2, <2>3 DEF Renewal
<1>7. Starting(app, messages, startup, ops', data')
    <2>1. startup # "running" /\ ~\E m \in ToSet(messages) : m.kind = "StartupDone"
        BY <1>3, <1>5 DEF Starting
    <2>2. messages \in Seq(Answers(app, 0))
        BY DEF IInv
    <2>3. \A j \in 1..Len(messages) : messages[j] \in ToSet(messages)
        BY <2>2, Positions DEF ToSet
    <2> QED
        BY <2>1, <2>3 DEF Starting
<1>8. Alive'
    BY <1>1, <1>3 DEF Alive
<1> QED
    BY <1>1, <1>3, <1>6, <1>7, <1>8 DEF FInv

\* An operation ends, and the window is told.
LEMMA FinishHolds ==
    ASSUME IInv, FInv, NEW i \in DOMAIN ops, Finish(i)
    PROVE  FInv'
<1> DEFINE m == CASE ops[i].kind \in {"Import", "Repair"} -> [kind |-> "ImportDone", at |-> data.version]
                  [] ops[i].kind = "Clear" -> [kind |-> "DbCleared"]
                  [] ops[i].kind = "Export" -> [kind |-> "ExportDone"]
                  [] ops[i].kind = "Maintenance" -> [kind |-> "MaintenanceDone"]
           T == Answers(app, 0)
<1>1. /\ app' = app /\ startup' = startup /\ search' = search
      /\ count' = count /\ analyst' = analyst /\ data' = data /\ faults' = faults
      /\ ops' = [ops EXCEPT ![i].at = "ended"]
    BY DEF Finish, Ended
<1>2. messages' = Append(messages, m)
    BY DEF Finish, Tell
<1> SUFFICES ASSUME faults = 0 PROVE FInv'
    BY <1>1 DEF FInv
<1>3. /\ Alive /\ Starting(app, messages, startup, ops, data)
      /\ Searching(app, messages, count) /\ Asking(app, messages)
      /\ ~Renewal(messages, ops) => Fresh(app, messages, count, data)
    BY DEF FInv
<1>4. ops \in Seq(Operations) /\ messages \in Seq(T) /\ data.version \in Versions
    BY DEF IInv
<1>5. ops[i].kind \in OpKinds
    BY <1>4, OperationKept
<1>6. /\ m.kind \in Notified \ {"StartupDone"}
      /\ ops[i].kind \in {"Import", "Repair", "Clear"} => m.kind \in {"ImportDone", "DbCleared"}
    BY <1>5 DEF OpKinds, Notified
<1>7. m \in T
    <2>1. /\ [kind |-> "ImportDone", at |-> data.version] \in T
          /\ \A k \in {"DbCleared", "ExportDone", "MaintenanceDone"} : [kind |-> k] \in T
        BY <1>4, NoticesToldOf
    <2> HIDE DEF T
    <2> QED
        BY <1>5, <2>1 DEF OpKinds
<1> HIDE DEF m, T
<1>8. /\ Searching(app, Append(messages, m), count) /\ Asking(app, Append(messages, m))
      /\ Fresh(app, messages, count, data) => Fresh(app, Append(messages, m), count, data)
    BY <1>3, <1>4, <1>6, <1>7, ToldNotice
<1>9. Starting(app, Append(messages, m), startup, ops', data)
    <2>1. ops # <<>>
        BY <1>4
    <2> QED
        BY <1>3, <1>4, <1>6, <1>7, <2>1, ToldStarting
<1>10. Renewal(messages, ops) => Renewal(Append(messages, m), ops')
    <2>1. ToSet(Append(messages, m)) = ToSet(messages) \cup {m}
        BY <1>4, <1>7, ItemsAppended
    <2>2. \A j \in DOMAIN ops : j # i => j \in DOMAIN ops' /\ ops'[j] = ops[j]
        BY <1>1, <1>4
    <2>3. CASE ops[i].kind \in {"Import", "Repair", "Clear"}
        BY <1>6, <2>1, <2>3 DEF Renewal
    <2>4. CASE ops[i].kind \notin {"Import", "Repair", "Clear"}
        BY <2>1, <2>2, <2>4 DEF Renewal
    <2> QED
        BY <2>3, <2>4
<1>11. Alive'
    BY <1>1, <1>3 DEF Alive
<1> QED
    BY <1>1, <1>2, <1>3, <1>8, <1>9, <1>10, <1>11 DEF FInv

----------------------------------------------------------------------------
(* The count worker.                                                       *)

\* The count worker takes all there is: the search that waits for its count is the last, and a
\* change that is known to the search worker has cleared the cache.
LEMMA CountsTaken ==
    ASSUME NEW a, NEW ms, NEW c \in CountStates(a), NEW e, NEW d, NEW last, c.rx # <<>>, c.at = None,
           last = c.rx[Len(c.rx)], e.rx = <<>>, e.at = IF last.kind = "Count" THEN last ELSE None,
           e.cache = IF \E m \in ToSet(c.rx) : m.kind = "ClearCache" THEN None ELSE c.cache,
           Searching(a, ms, c)
    PROVE  Searching(a, ms, e) /\ (Fresh(a, ms, c, d) => Fresh(a, ms, e, d))
<1>1. c.rx \in Seq(Counts(a))
    BY CountStateOf
<1>2. last \in ToSet(c.rx) /\ last \in Counts(a) /\ ToSet(e.rx) = {}
    BY <1>1, ItemsOf
<1>3. last.kind = "Count" => last # None
    BY <1>2, NamesAssumption DEF Counts, CountsAsked
<1>4. a.searchTx # <<>> => (e.at # None => e.at.gen # a.gen)
    BY <1>2 DEF Searching, OfGen
<1>5. OfGen(a, "Count", last) => e.at # None /\ e.at.gen = a.gen
    BY <1>3 DEF OfGen
<1>6. Searching(a, ms, e)
    <2>1. a.searchTx # <<>> =>
            /\ \A m \in ToSet(e.rx) : ~OfGen(a, "Count", m)
            /\ e.at # None => e.at.gen # a.gen
            /\ \A m \in ToSet(ms) : ~OfGen(a, "SearchPage", m) /\ ~OfGen(a, "SearchCount", m)
        BY <1>2, <1>4 DEF Searching
    <2>2. a.counting =>
            \/ a.searchTx # <<>>
            \/ e.at # None /\ e.at.gen = a.gen
            \/ \E m \in ToSet(ms) : OfGen(a, "SearchCount", m)
        BY <1>5 DEF Searching
    <2> HIDE DEF OfGen
    <2> QED
        BY <2>1, <2>2 DEF Searching
<1>7. FreshCache(c, d) \/ (\E m \in ToSet(c.rx) : m.kind = "ClearCache") => FreshCache(e, d)
    BY DEF FreshCache
<1>8. ASSUME Fresh(a, ms, c, d) PROVE Fresh(a, ms, e, d)
    <2>1. Cached(a, e, d)
        BY <1>7, <1>8 DEF Fresh, Cached
    <2>2. ASSUME e.at # None, e.at.gen = a.gen PROVE FreshCache(e, d)
        <3>1. a.searchTx = <<>>
            BY <1>4, <2>2
        <3>2. ToSet(a.searchTx) = {}
            BY <3>1 DEF ToSet
        <3> QED
            BY <1>7, <1>8, <3>2 DEF Fresh, Cached
    <2>3. FreshNow(a, ms, e, d)
        <3> HIDE DEF FreshAnswer, FreshShown, FreshCache
        <3> QED
            BY <1>8, <2>2 DEF Fresh, FreshNow
    <2> QED
        BY <1>8, <2>1, <2>3 DEF Fresh
<1> QED
    BY <1>6, <1>8

\* The count worker takes what there is.
LEMMA DrainCountsHolds ==
    ASSUME IInv, FInv, DrainCounts
    PROVE  FInv'
<1> DEFINE last == count.rx[Len(count.rx)]
           r == IF last.kind = "Count" THEN last ELSE None
           t == IF \E i \in DOMAIN count.rx : count.rx[i].kind = "ClearCache" THEN None ELSE count.cache
<1>1. /\ app' = app /\ messages' = messages /\ data' = data /\ ops' = ops /\ faults' = faults
      /\ startup' = startup /\ search' = search /\ analyst' = analyst
      /\ count.rx # <<>> /\ count.at = None
      /\ count' = [count EXCEPT !.worker = "open", !.rx = <<>>, !.at = r, !.cache = t]
    BY DEF DrainCounts
<1> SUFFICES ASSUME faults = 0 PROVE FInv'
    BY <1>1 DEF FInv
<1>2. count \in CountStates(app)
    BY DEF IInv
<1>3. count = [x \in {"worker", "rx", "cache", "at"} |-> count[x]]
    BY <1>2 DEF CountStates
<1> HIDE DEF r, t
<1>4. count'.worker = "open" /\ count'.rx = <<>> /\ count'.at = r /\ count'.cache = t
    BY <1>1, <1>3
<1>5. t = IF \E m \in ToSet(count.rx) : m.kind = "ClearCache" THEN None ELSE count.cache
    BY DEF t, ToSet
<1>6. /\ Alive /\ Starting(app, messages, startup, ops, data)
      /\ Searching(app, messages, count) /\ Asking(app, messages)
      /\ ~Renewal(messages, ops) => Fresh(app, messages, count, data)
    BY DEF FInv
<1>7. /\ Searching(app, messages, count')
      /\ Fresh(app, messages, count, data) => Fresh(app, messages, count', data)
    <2>1. count.rx # <<>> /\ count.at = None
        BY <1>1
    <2>2. count'.at = IF last.kind = "Count" THEN last ELSE None
        BY <1>4 DEF r
    <2>3. count'.cache = IF \E m \in ToSet(count.rx) : m.kind = "ClearCache" THEN None ELSE count.cache
        BY <1>4, <1>5
    <2>4. Searching(app, messages, count)
        BY <1>6
    <2> QED
        BY <1>2, <1>4, <2>1, <2>2, <2>3, <2>4, CountsTaken
<1>8. Alive'
    BY <1>1, <1>4, <1>6 DEF Alive
<1> QED
    BY <1>1, <1>6, <1>7, <1>8 DEF FInv

\* The count of the search that waits is of the data: the cache is by then.
LEMMA CountTold ==
    ASSUME NEW a, NEW ms \in Seq(Answers(a, 0)), NEW c, NEW e, NEW d, NEW m \in Answers(a, 0), NEW total,
           c.at # None, m.kind = "SearchCount", m.gen = c.at.gen, m.query = total.query, m.at = total.at,
           m.pages = total.pages, e.rx = c.rx, e.at = None, e.cache = total,
           FreshCache(c, d) => total.at = d.version /\ total.pages = PagesIn(d, total.query),
           Searching(a, ms, c)
    PROVE  Searching(a, Append(ms, m), e) /\ (Fresh(a, ms, c, d) => Fresh(a, Append(ms, m), e, d))
<1>1. ToSet(Append(ms, m)) = ToSet(ms) \cup {m}
    BY ItemsAppended
<1>2. /\ ~OfGen(a, "SearchPage", m) /\ (OfGen(a, "SearchCount", m) <=> c.at.gen = a.gen)
      /\ m \notin StatsFound
    BY DEF OfGen, StatsFound
<1>3. Searching(a, Append(ms, m), e)
    <2> HIDE DEF OfGen
    <2> QED
        BY <1>1, <1>2 DEF Searching
<1>4. ASSUME Fresh(a, ms, c, d) PROVE Fresh(a, Append(ms, m), e, d)
    <2>1. FreshAnswer(a, d, m)
        <3>1. m.gen = a.gen => FreshCache(c, d)
            BY <1>4 DEF Fresh, FreshNow
        <3> QED
            BY <3>1 DEF FreshAnswer, OfGen
    <2>2. Fresh(a, Append(ms, m), c, d)
        BY <1>2, <1>4, <2>1, ToldFresh
    <2>3. FreshNow(a, Append(ms, m), e, d)
        <3> HIDE DEF FreshAnswer, FreshShown, FreshCache
        <3> QED
            BY <2>2 DEF Fresh, FreshNow
    <2>4. Cached(a, e, d)
        <3>1. FreshCache(c, d) => FreshCache(e, d)
            BY DEF FreshCache
        <3> QED
            BY <2>2, <3>1 DEF Fresh, Cached
    <2> QED
        BY <2>2, <2>3, <2>4 DEF Fresh
<1> QED
    BY <1>3, <1>4

\* The count worker counts.
LEMMA CountHolds ==
    ASSUME IInv, FInv, Count
    PROVE  FInv'
<1>1. faults' = faults \/ Fails
    BY DEF Count
<1> SUFFICES ASSUME faults' = 0, faults = 0, ~Fails PROVE FInv'
    BY <1>1, Unfailed
<1> DEFINE req == count.at
           Totals == [query : Asked, at : Versions, pages : Nat]
           hit == count.cache # None /\ count.cache.query = req.query
           fresh == [query |-> req.query, at |-> data.version, pages |-> PagesOf(req.query)]
           total == IF hit THEN count.cache ELSE fresh
           m == CountOf(req, total.at, total.pages)
           T == Answers(app, 0)
<1>2. /\ app' = app /\ startup' = startup /\ search' = search /\ analyst' = analyst /\ ops' = ops
      /\ data' = data /\ req # None
    BY DEF Count
<1>3. Tell(m) /\ count' = [count EXCEPT !.at = None, !.cache = total]
    BY DEF Count
<1>4. /\ data.version \in Versions /\ count \in CountStates(app) /\ messages \in Seq(T)
    BY DEF IInv
<1>5. /\ req \in CountsAsked(app) /\ count.cache \in {None} \cup Totals
    BY <1>2, <1>4, CountStateOf
<1>6. req.query \in Asked /\ req.gen \in Nat /\ Current(app, req)
    BY <1>5 DEF CountsAsked
<1>7. fresh \in Totals
    BY <1>4, <1>6, PagesAreCounted
<1>8. total \in Totals /\ total.query = req.query
    BY <1>5, <1>7
<1>9. FreshCache(count, data) => total.at = data.version /\ total.pages = PagesIn(data, total.query)
    BY DEF FreshCache, PagesOf, PagesIn
<1> HIDE DEF hit, fresh, total
<1>10. /\ m.kind = "SearchCount" /\ m.gen = req.gen /\ m.query = total.query /\ m.at = total.at
       /\ m.pages = total.pages
    BY <1>8 DEF CountOf
<1>11. m \in T
    <2>1. total.at \in Versions /\ total.pages \in Nat
        BY <1>8
    <2> HIDE DEF req
    <2>2. m \in CountsFound(app)
        BY <1>6, <2>1 DEF CountOf, CountsFound, Current
    <2> HIDE DEF m
    <2> QED
        BY <2>2 DEF Answers, Found
<1>12. messages' = Append(messages, m)
    BY <1>3 DEF Tell
<1>13. /\ count'.rx = count.rx /\ count'.at = None /\ count'.cache = total
       /\ count'.worker = count.worker
    <2>1. count = [x \in {"worker", "rx", "cache", "at"} |-> count[x]]
        BY <1>4 DEF CountStates
    <2> QED
        BY <1>3, <2>1
<1>14. /\ Alive /\ Starting(app, messages, startup, ops, data)
       /\ Searching(app, messages, count) /\ Asking(app, messages)
       /\ ~Renewal(messages, ops) => Fresh(app, messages, count, data)
    BY DEF FInv
<1> HIDE DEF m
<1>15. /\ Searching(app, Append(messages, m), count')
       /\ Fresh(app, messages, count, data) => Fresh(app, Append(messages, m), count', data)
    BY <1>2, <1>4, <1>9, <1>10, <1>11, <1>13, <1>14, CountTold
<1>16. /\ Asking(app, Append(messages, m))
       /\ Starting(app, Append(messages, m), startup, ops, data)
       /\ Renewal(messages, ops) => Renewal(Append(messages, m), ops)
    <2>1. ~OfGen(app, "AnalyticsDone", m) /\ ~OfGen(app, "PivotDone", m) /\ m.kind # "StartupDone"
        BY <1>10 DEF OfGen
    <2> QED
        BY <1>4, <1>11, <1>14, <2>1, ToldAsking, ToldStarting
<1>17. Alive'
    BY <1>2, <1>13, <1>14 DEF Alive
<1> QED
    BY <1>2, <1>12, <1>14, <1>15, <1>16, <1>17 DEF FInv

----------------------------------------------------------------------------
(* The search worker: b is the window when the first of a's requests is    *)
(* taken from its channel.                                                 *)

\* The search worker has taken its request.
Served(a, b) ==
    /\ \A x \in Fields \ {"searchTx"} : b[x] = a[x]
    /\ a.searchTx # <<>> /\ b.searchTx = Tail(a.searchTx)

\* The items of N join those of s.
Joined(s, N, t) == ToSet(t) = ToSet(s) \cup N

\* N is told and K asked for request req: when it is the search that waits, its page, and its
\* count told or asked for last; otherwise nothing of that search.
Settles(a, req, N, K, c) ==
    IF OfGen(a, "Search", req)
    THEN /\ \E m \in N : OfGen(a, "SearchPage", m)
         /\ \/ \E m \in N : OfGen(a, "SearchCount", m)
            \/ c.rx # <<>> /\ OfGen(a, "Count", c.rx[Len(c.rx)])
    ELSE /\ \A m \in N : ~OfGen(a, "SearchPage", m) /\ ~OfGen(a, "SearchCount", m)
         /\ \A m \in K : ~OfGen(a, "Count", m)

\* The channel to the search worker is nothing of the rest.
LEMMA ServedAlike ==
    ASSUME NEW a, NEW b, Served(a, b), NEW ms
    PROVE  /\ Asking(a, ms) => Asking(b, ms)
           /\ \A c, d : FreshNow(a, ms, c, d) => FreshNow(b, ms, c, d)
           /\ \A st, os, d : Starting(a, ms, st, os, d) => Starting(b, ms, st, os, d)
<1>1. /\ b.gen = a.gen /\ b.analyticsTx = a.analyticsTx /\ b.limit = a.limit /\ b.overtaken = a.overtaken
      /\ b.analytics = a.analytics /\ b.loaded = a.loaded /\ b.turned = a.turned /\ b.level = a.level
      /\ b.pivot = a.pivot /\ b.dims = a.dims /\ b.explorer = a.explorer /\ b.underpricing = a.underpricing
      /\ b.ready = a.ready /\ b.searching = a.searching /\ b.rows = a.rows /\ b.total = a.total
    BY DEF Served, Fields
<1>2. Asking(a, ms) => Asking(b, ms)
    <2>1. Limited(a, ms) => Limited(b, ms)
        BY <1>1 DEF Limited, OfGen
    <2>2. Leveled(a, ms) => Leveled(b, ms)
        BY <1>1, Zenon DEF Leveled
    <2>3. Pivoted(a, ms) => Pivoted(b, ms)
        BY <1>1, Zenon DEF Pivoted
    <2>4. Grouped(a, ms) => Grouped(b, ms)
        BY <1>1 DEF Grouped
    <2> QED
        BY <2>1, <2>2, <2>3, <2>4 DEF Asking
<1>3. ASSUME NEW c, NEW d, FreshNow(a, ms, c, d) PROVE FreshNow(b, ms, c, d)
    <2>1. \A m : FreshAnswer(a, d, m) => FreshAnswer(b, d, m)
        BY <1>1 DEF FreshAnswer, OfGen
    <2>2. FreshShown(a, d) => FreshShown(b, d)
        BY <1>1 DEF FreshShown
    <2> HIDE DEF FreshAnswer, FreshShown, FreshCache
    <2> QED
        BY <1>1, <1>3, <2>1, <2>2 DEF FreshNow
<1>4. ASSUME NEW st, NEW os, NEW d, Starting(a, ms, st, os, d) PROVE Starting(b, ms, st, os, d)
    BY <1>1, <1>4 DEF Starting
<1> QED
    BY <1>2, <1>3, <1>4

\* The search that waits is the last in the channel: when it is served the page is told, and its
\* count is told or asked for.
LEMMA ServedSearching ==
    ASSUME NEW a, NEW b, Served(a, b), NEW T, a.searchTx \in Seq(T), NEW ms, NEW mt, NEW c, NEW e,
           NEW N, NEW K, Joined(ms, N, mt), Joined(c.rx, K, e.rx), e.at = c.at,
           Searching(a, ms, c), Settles(a, Head(a.searchTx), N, K, e)
    PROVE  Searching(b, mt, e)
<1>1. /\ b.gen = a.gen /\ b.searching = a.searching /\ b.rows = a.rows /\ b.total = a.total
      /\ b.counting = a.counting /\ a.searchTx # <<>> /\ b.searchTx = Tail(a.searchTx)
    BY DEF Served, Fields
<1>2. /\ Len(a.searchTx) \in Nat /\ Len(a.searchTx) # 0 /\ Len(b.searchTx) = Len(a.searchTx) - 1
      /\ Head(a.searchTx) = a.searchTx[1]
      /\ \A i \in 1..(Len(a.searchTx) - 1) : b.searchTx[i] = a.searchTx[i + 1]
    BY <1>1, Positions
<1>3. \A k, m : OfGen(b, k, m) <=> OfGen(a, k, m)
    BY <1>1 DEF OfGen
<1>4. \A i \in 1..Len(b.searchTx) : OfGen(b, "Search", b.searchTx[i]) <=> i = Len(b.searchTx)
    <2>1. \A i \in 1..(Len(a.searchTx) - 1) :
             i + 1 \in 1..Len(a.searchTx) /\ (i + 1 = Len(a.searchTx) <=> i = Len(a.searchTx) - 1)
        BY <1>2
    <2>2. \A i \in 1..Len(a.searchTx) : OfGen(a, "Search", a.searchTx[i]) <=> i = Len(a.searchTx)
        BY DEF Searching
    <2> HIDE DEF OfGen
    <2> QED
        BY <1>2, <1>3, <2>1, <2>2
<1>5. OfGen(a, "Search", Head(a.searchTx)) <=> Len(a.searchTx) = 1
    <2>1. 1 \in 1..Len(a.searchTx)
        BY <1>2
    <2> QED
        BY <1>2, <2>1 DEF Searching
<1>6. ~(b.total = None /\ ~b.counting)
    BY <1>1 DEF Searching
<1>7. b.searchTx = <<>> <=> Len(a.searchTx) = 1
    <2>1. b.searchTx \in Seq(T)
        BY <1>1, Channels
    <2>2. b.searchTx = <<>> <=> Len(b.searchTx) = 0
        BY <2>1, Positions
    <2> QED
        BY <1>2, <2>2
<1>8. CASE OfGen(a, "Search", Head(a.searchTx))
    <2>1. b.searchTx = <<>>
        BY <1>5, <1>8, <1>7
    <2>2. /\ \E m \in ToSet(mt) : OfGen(b, "SearchPage", m)
          /\ \/ \E m \in ToSet(mt) : OfGen(b, "SearchCount", m)
             \/ e.rx # <<>> /\ OfGen(b, "Count", e.rx[Len(e.rx)])
        BY <1>3, <1>8 DEF Joined, Settles
    <2> HIDE DEF OfGen
    <2> QED
        BY <1>4, <1>6, <2>1, <2>2 DEF Searching
<1>9. CASE ~OfGen(a, "Search", Head(a.searchTx))
    <2>1. b.searchTx # <<>>
        BY <1>5, <1>9, <1>7
    <2>2. /\ \A m \in ToSet(e.rx) : ~OfGen(b, "Count", m)
          /\ e.at # None => e.at.gen # b.gen
          /\ \A m \in ToSet(mt) : ~OfGen(b, "SearchPage", m) /\ ~OfGen(b, "SearchCount", m)
        <3> HIDE DEF OfGen
        <3> QED
            BY <1>1, <1>3, <1>9 DEF Searching, Joined, Settles
    <2> HIDE DEF OfGen
    <2> QED
        BY <1>4, <1>6, <2>1, <2>2 DEF Searching
<1> QED
    BY <1>8, <1>9

\* What the search worker answers is of the data as they are; it has the cache cleared before it
\* answers to a change.
LEMMA ServedFresh ==
    ASSUME NEW a, NEW b, Served(a, b), NEW T, a.searchTx \in Seq(T), NEW U, NEW ms \in Seq(U), NEW m \in U,
           NEW c, NEW e, NEW d, e.at = c.at, e.cache = c.cache, ToSet(c.rx) \subseteq ToSet(e.rx),
           Fresh(a, ms, c, d), FreshAnswer(a, d, m),
           Head(a.searchTx) \in StatsAsked <=> m \in StatsFound, m \in StatsFound => m.at = d.version,
           Head(a.searchTx).kind = "Stats" => \E x \in ToSet(e.rx) : x.kind = "ClearCache"
    PROVE  Fresh(b, Append(ms, m), e, d)
<1>1. ToSet(Append(ms, m)) = ToSet(ms) \cup {m}
    BY ItemsAppended
<1>2. b.ready = a.ready /\ b.dbTotal = a.dbTotal /\ a.searchTx # <<>> /\ b.searchTx = Tail(a.searchTx)
    BY DEF Served, Fields
<1>3. FreshNow(a, Append(ms, m), e, d)
    <2>1. FreshCache(c, d) => FreshCache(e, d)
        BY DEF FreshCache
    <2> HIDE DEF FreshAnswer, FreshShown, FreshCache
    <2> QED
        BY <1>1, <2>1 DEF Fresh, FreshNow
<1>4. FreshNow(b, Append(ms, m), e, d)
    BY <1>3, ServedAlike
<1>5. Counted(b, Append(ms, m), d)
    <2> DEFINE S == {n \in StatsFound : n.at = d.version}
               shown == a.ready => a.dbTotal = d.version
    <2>1. Decided(a.searchTx, StatsAsked, StatsAsked, ms, StatsFound, S, shown)
        BY DEF Counted, Fresh
    <2>2. m \in StatsFound => m \in S
        OBVIOUS
    <2> HIDE DEF S, shown
    <2>3. Decided(Tail(a.searchTx), StatsAsked, StatsAsked, Append(ms, m), StatsFound, S, shown)
        BY <1>2, <2>1, <2>2, DecidedServe
    <2> QED
        BY <1>2, <2>3, Zenon DEF Counted, S, shown
<1>6. Cached(b, e, d)
    <2>1. ToSet(a.searchTx) = {Head(a.searchTx)} \cup ToSet(b.searchTx)
        BY <1>2, ItemsTaken
    <2>2. FreshCache(c, d) => FreshCache(e, d)
        BY DEF FreshCache
    <2> HIDE DEF FreshCache
    <2> QED
        BY <2>1, <2>2 DEF Fresh, Cached
<1> QED
    BY <1>4, <1>5, <1>6 DEF Fresh

\* What the search worker leaves to the count worker.
LEMMA CountAsked ==
    ASSUME IInv, Alive
    PROVE  /\ \A req \in Counts(app) : AskCount(req) =>
                /\ count'.at = count.at /\ count'.cache = count.cache /\ count'.worker # "dead"
                /\ ToSet(count'.rx) = ToSet(count.rx) \cup {req}
                /\ count'.rx # <<>> /\ count'.rx[Len(count'.rx)] = req
           /\ NoCount =>
                /\ count'.at = count.at /\ count'.cache = count.cache /\ count'.worker # "dead"
                /\ count'.rx = count.rx
<1>1. count \in CountStates(app) /\ count.worker # "dead"
    BY DEF IInv, Alive
<1>2. count = [x \in {"worker", "rx", "cache", "at"} |-> count[x]] /\ count.rx \in Seq(Counts(app))
    BY <1>1 DEF CountStates
<1>3. ASSUME NEW req \in Counts(app), AskCount(req)
      PROVE  /\ count'.at = count.at /\ count'.cache = count.cache /\ count'.worker # "dead"
             /\ count'.rx = Append(count.rx, req)
    BY <1>1, <1>2, <1>3 DEF AskCount
<1>4. ASSUME NEW req \in Counts(app)
      PROVE  /\ ToSet(Append(count.rx, req)) = ToSet(count.rx) \cup {req}
             /\ Append(count.rx, req) # <<>>
             /\ Append(count.rx, req)[Len(Append(count.rx, req))] = req
    <2>1. ToSet(Append(count.rx, req)) = ToSet(count.rx) \cup {req}
        BY <1>2, ItemsAppended
    <2>2. /\ Len(count.rx) \in Nat /\ Len(Append(count.rx, req)) = Len(count.rx) + 1
          /\ Append(count.rx, req)[Len(count.rx) + 1] = req
        BY <1>2, Positions
    <2>3. Append(count.rx, req) # <<>>
        BY <1>2
    <2> QED
        BY <2>1, <2>2, <2>3
<1>5. ASSUME NoCount
      PROVE  /\ count'.at = count.at /\ count'.cache = count.cache /\ count'.worker # "dead"
             /\ count'.rx = count.rx
    BY <1>1, <1>2, <1>5 DEF NoCount
<1> QED
    BY <1>3, <1>4, <1>5

\* A step of the search worker, in what it does to the window and what it tells it.
LEMMA SearchAnswered ==
    ASSUME IInv, FInv, faults = 0, faults' = 0, Served(app, app'), search' = "open",
           startup' = startup, analyst' = analyst, ops' = ops, data' = data, count'.worker # "dead",
           Starting(app, messages', startup, ops, data),
           Renewal(messages, ops) => Renewal(messages', ops),
           Searching(app', messages', count'), Asking(app, messages'),
           Fresh(app, messages, count, data) => Fresh(app', messages', count', data)
    PROVE  FInv'
<1>1. Alive' /\ (~Renewal(messages, ops) => Fresh(app, messages, count, data))
    BY DEF FInv, Alive
<1>2. Asking(app', messages') /\ Starting(app', messages', startup, ops, data)
    BY ServedAlike
<1> QED
    BY <1>1, <1>2 DEF FInv

\* The search worker has found nothing and tells the count at once.
LEMMA NothingFoundHolds ==
    ASSUME IInv, FInv, faults = 0, NEW req, req = Head(app.searchTx), req \in Searches(app),
           Served(app, app'), req.kind = "Search",
           NEW m \in Answers(app, 0), m = PageOf(req), PagesOf(req.query) = 0,
           NEW n \in Answers(app, 0), n = CountOf(req, data.version, 0),
           messages' = Append(Append(messages, m), n), NoCount
    PROVE  /\ Starting(app, messages', startup, ops, data)
           /\ Renewal(messages, ops) => Renewal(messages', ops)
           /\ Searching(app', messages', count') /\ Asking(app, messages')
           /\ Fresh(app, messages, count, data) => Fresh(app', messages', count', data)
<1> DEFINE T == Answers(app, 0)
           ms == Append(messages, m)
<1>1. /\ Alive /\ Starting(app, messages, startup, ops, data)
      /\ Searching(app, messages, count) /\ Asking(app, messages)
    BY DEF FInv
<1>2. /\ messages \in Seq(T) /\ Good(app, 0) /\ m \in T /\ n \in T
    BY DEF IInv
<1>3. /\ m.kind = "SearchPage" /\ m.gen = req.gen /\ m.at = data.version /\ m.query = req.query
      /\ m.page = req.page /\ (m.none <=> PagesIn(data, m.query) <= m.page)
    BY DEF PageOf, PagesOf, PagesIn
<1>4. /\ n.kind = "SearchCount" /\ n.gen = req.gen /\ n.at = data.version /\ n.query = req.query
      /\ n.pages = PagesIn(data, n.query)
    BY DEF CountOf, PagesOf, PagesIn
<1> HIDE DEF T
<1>5. ms \in Seq(T) /\ ToSet(ms) = ToSet(messages) \cup {m}
    BY <1>2, Channels, ItemsAppended
<1>6. messages' = Append(ms, n)
    OBVIOUS
<1>7. /\ Starting(app, ms, startup, ops, data)
      /\ Renewal(messages, ops) => Renewal(ms, ops)
      /\ Asking(app, ms)
    BY <1>1, <1>2, <1>3, ToldStarting, ToldAsking DEF OfGen
<1> HIDE DEF ms
<1>8. ToSet(messages') = ToSet(ms) \cup {n}
    <2>1. ToSet(Append(ms, n)) = ToSet(ms) \cup {n}
        BY <1>2, <1>5, ItemsAppended
    <2> QED
        BY <1>6, <2>1, Zenon
<1>9. /\ Starting(app, Append(ms, n), startup, ops, data)
      /\ Renewal(ms, ops) => Renewal(Append(ms, n), ops)
      /\ Asking(app, Append(ms, n))
    BY <1>2, <1>4, <1>5, <1>7, ToldStarting, ToldAsking DEF OfGen
<1>10. /\ app.searchTx \in Seq(Searches(app))
       /\ count'.at = count.at /\ count'.cache = count.cache /\ count'.rx = count.rx
    BY <1>1, <1>2, CountAsked DEF Good, Sent
<1>11. Searching(app', messages', count')
    <2> DEFINE N == {m, n}
               K == {}
    <2>1. Joined(messages, N, messages') /\ Joined(count.rx, K, count'.rx)
        BY <1>5, <1>8, <1>10 DEF Joined
    <2>2. Settles(app, req, N, K, count')
        BY <1>3, <1>4 DEF Settles, OfGen
    <2> HIDE DEF N, K
    <2> QED
        BY <1>1, <1>10, <2>1, <2>2, ServedSearching
<1>12. FreshAnswer(app, data, m) /\ FreshAnswer(app', data, n)
    BY <1>3, <1>4 DEF FreshAnswer, OfGen
<1>13. m \notin StatsFound /\ n \notin StatsFound /\ req \notin StatsAsked
    BY <1>3, <1>4 DEF StatsFound, StatsAsked
<1>14. ASSUME Fresh(app, messages, count, data)
       PROVE  Fresh(app', messages', count', data)
    <2>1. Fresh(app', ms, count', data)
        BY <1>2, <1>10, <1>12, <1>13, <1>14, ServedFresh DEF ms
    <2>2. Fresh(app', Append(ms, n), count', data)
        BY <1>2, <1>5, <1>12, <1>13, <2>1, ToldFresh
    <2> QED
        BY <1>6, <2>2
<1> QED
    BY <1>6, <1>7, <1>9, <1>11, <1>14

\* Two messages are told one after the other.
LEMMA BothTold ==
    ASSUME NEW T, NEW s \in Seq(T), NEW m \in T, NEW n \in T
    PROVE  s \o <<m, n>> = Append(Append(s, m), n)
<1> DEFINE t == Append(s, m)
<1>1. t \in Seq(T) /\ <<m>> \in Seq(T) /\ <<n>> \in Seq(T)
    BY Channels
<1>2. t = s \o <<m>> /\ Append(t, n) = t \o <<n>>
    BY <1>1, OneMore
<1>3. (s \o <<m>>) \o <<n>> = s \o (<<m>> \o <<n>>)
    BY <1>1, ConcatAssociative
<1>4. <<m>> \o <<n>> = <<m, n>>
    <2>1. /\ <<m, n>> \in Seq(T) /\ <<m>> \o <<n>> \in Seq(T)
          /\ Len(<<m, n>>) = 2 /\ Len(<<m>> \o <<n>>) = 2
        OBVIOUS
    <2>2. /\ <<m, n>>[1] = m /\ <<m, n>>[2] = n
          /\ (<<m>> \o <<n>>)[1] = m /\ (<<m>> \o <<n>>)[2] = n
        OBVIOUS
    <2>3. \A i \in 1..2 : i = 1 \/ i = 2
        OBVIOUS
    <2>4. \A i \in 1..2 : (<<m>> \o <<n>>)[i] = <<m, n>>[i]
        BY <2>2, <2>3
    <2> QED
        BY <2>1, <2>4, SeqEqual
<1> HIDE DEF t
<1>5. Append(t, n) = s \o <<m, n>>
    BY <1>2, <1>3, <1>4
<1> QED
    BY <1>5 DEF t

\* The search worker has found a page and has it counted.
LEMMA PageFoundHolds ==
    ASSUME IInv, FInv, faults = 0, NEW req, req = Head(app.searchTx), req \in Searches(app),
           Served(app, app'), req.kind = "Search",
           messages' = Append(messages, PageOf(req)),
           AskCount([kind |-> "Count", query |-> req.query, gen |-> req.gen])
    PROVE  /\ Starting(app, messages', startup, ops, data)
           /\ Renewal(messages, ops) => Renewal(messages', ops)
           /\ Searching(app', messages', count') /\ Asking(app, messages')
           /\ Fresh(app, messages, count, data) => Fresh(app', messages', count', data)
<1> DEFINE m == PageOf(req)
           k == [kind |-> "Count", query |-> req.query, gen |-> req.gen]
           T == Answers(app, 0)
<1>1. /\ Alive /\ Starting(app, messages, startup, ops, data)
      /\ Searching(app, messages, count) /\ Asking(app, messages)
    BY DEF FInv
<1>2. /\ messages \in Seq(T) /\ data.version \in Versions /\ Good(app, 0)
    BY DEF IInv
<1>3. m \in PagesFound(app) /\ k \in CountsAsked(app)
    BY <1>2, PageIsFound
<1>4. /\ m.kind = "SearchPage" /\ m.gen = req.gen /\ m.at = data.version /\ m.query = req.query
      /\ m.page = req.page /\ (m.none <=> PagesIn(data, m.query) <= m.page)
    BY DEF PageOf, PagesOf, PagesIn
<1>5. k.kind = "Count" /\ k.gen = req.gen
    OBVIOUS
<1> HIDE DEF m, k
<1>6. m \in T /\ k \in Counts(app)
    BY <1>3 DEF Answers, Found, Counts
<1>7. messages' = Append(messages, m) /\ AskCount(k)
    BY DEF m, k
<1> HIDE DEF T
<1>8. ToSet(messages') = ToSet(messages) \cup {m}
    BY <1>2, <1>6, <1>7, ItemsAppended
<1>9. /\ Starting(app, messages', startup, ops, data)
      /\ Renewal(messages, ops) => Renewal(messages', ops)
    BY <1>1, <1>2, <1>4, <1>6, <1>7, ToldStarting
<1>10. Asking(app, messages')
    BY <1>1, <1>2, <1>4, <1>6, <1>7, ToldAsking DEF OfGen
<1>11. /\ app.searchTx \in Seq(Searches(app))
       /\ count'.at = count.at /\ count'.cache = count.cache
       /\ ToSet(count'.rx) = ToSet(count.rx) \cup {k}
       /\ count'.rx # <<>> /\ count'.rx[Len(count'.rx)] = k
    BY <1>1, <1>2, <1>6, <1>7, CountAsked DEF Good, Sent
<1>12. Searching(app', messages', count')
    <2> DEFINE N == {m}
               K == {k}
    <2>1. Joined(messages, N, messages') /\ Joined(count.rx, K, count'.rx)
        BY <1>8, <1>11 DEF Joined
    <2>2. Settles(app, req, N, K, count')
        BY <1>4, <1>5, <1>11 DEF Settles, OfGen
    <2> HIDE DEF N, K
    <2> QED
        BY <1>1, <1>11, <2>1, <2>2, ServedSearching
<1>13. FreshAnswer(app, data, m)
    BY <1>4 DEF FreshAnswer, OfGen
<1>14. m \notin StatsFound /\ req \notin StatsAsked
    BY <1>4 DEF StatsFound, StatsAsked
<1>15. Fresh(app, messages, count, data) => Fresh(app', messages', count', data)
    BY <1>2, <1>6, <1>7, <1>11, <1>13, <1>14, ServedFresh
<1> QED
    BY <1>9, <1>10, <1>12, <1>15

\* The search worker has the cache cleared and tells how the data are.
LEMMA StatsToldHolds ==
    ASSUME IInv, FInv, faults = 0, NEW req, req = Head(app.searchTx), req \in Searches(app),
           Served(app, app'), req.kind = "Stats",
           NEW m \in Answers(app, 0), m \in StatsFound, m.kind = "Stats", m.at = data.version,
           messages' = Append(messages, m), NEW k \in Counts(app), k.kind = "ClearCache", AskCount(k)
    PROVE  /\ Starting(app, messages', startup, ops, data)
           /\ Renewal(messages, ops) => Renewal(messages', ops)
           /\ Searching(app', messages', count') /\ Asking(app, messages')
           /\ Fresh(app, messages, count, data) => Fresh(app', messages', count', data)
<1> DEFINE T == Answers(app, 0)
<1>1. /\ Alive /\ Starting(app, messages, startup, ops, data)
      /\ Searching(app, messages, count) /\ Asking(app, messages)
    BY DEF FInv
<1>2. /\ messages \in Seq(T) /\ m \in T /\ data.version \in Versions /\ Good(app, 0)
    BY DEF IInv
<1>3. req \in StatsAsked
    BY DEF Searches, StatsAsked
<1> HIDE DEF T
<1>4. ToSet(messages') = ToSet(messages) \cup {m}
    BY <1>2, ItemsAppended
<1>5. /\ Starting(app, messages', startup, ops, data)
      /\ Renewal(messages, ops) => Renewal(messages', ops)
    BY <1>1, <1>2, ToldStarting
<1>6. Asking(app, messages')
    BY <1>1, <1>2, ToldAsking DEF OfGen
<1>7. /\ app.searchTx \in Seq(Searches(app))
      /\ count'.at = count.at /\ count'.cache = count.cache
      /\ ToSet(count'.rx) = ToSet(count.rx) \cup {k}
    BY <1>1, <1>2, CountAsked DEF Good, Sent
<1>8. Searching(app', messages', count')
    <2> DEFINE N == {m}
               K == {k}
    <2>1. Joined(messages, N, messages') /\ Joined(count.rx, K, count'.rx)
        BY <1>4, <1>7 DEF Joined
    <2>2. Settles(app, req, N, K, count')
        BY DEF Settles, OfGen
    <2> HIDE DEF N, K
    <2> QED
        BY <1>1, <1>7, <2>1, <2>2, ServedSearching
<1>9. FreshAnswer(app, data, m)
    BY DEF FreshAnswer, OfGen
<1>10. Fresh(app, messages, count, data) => Fresh(app', messages', count', data)
    BY <1>2, <1>3, <1>7, <1>9, ServedFresh
<1> QED
    BY <1>5, <1>6, <1>8, <1>10

\* The search worker serves its next request.
LEMMA ServeSearchHolds ==
    ASSUME IInv, FInv, ServeSearch
    PROVE  FInv'
<1>1. faults' = faults \/ Fails
    BY DEF ServeSearch
<1> SUFFICES ASSUME faults' = 0, faults = 0, ~Fails PROVE FInv'
    BY <1>1, Unfailed
<1> DEFINE req == Head(app.searchTx)
           page == PageOf(req)
           total == CountOf(req, data.version, 0)
           asked == [kind |-> "Count", query |-> req.query, gen |-> req.gen]
<1>2. /\ app.searchTx # <<>> /\ app' = [app EXCEPT !.searchTx = Tail(@)] /\ data' = data /\ ops' = ops
      /\ startup' = startup /\ search' = "open" /\ analyst' = analyst
    BY DEF ServeSearch
<1>3. Good(app, 0) /\ Alive
    BY DEF IInv, FInv
<1>4. Served(app, app')
    <2>1. \A x \in Fields \ {"searchTx"} : app'[x] = app[x]
        BY <1>2, <1>3 DEF Good, IsWindow
    <2>2. app'.searchTx = Tail(app.searchTx)
        BY <1>2, <1>3 DEF Good, IsWindow, Fields
    <2> QED
        BY <1>2, <2>1, <2>2 DEF Served
<1>5. req \in Searches(app)
    <2>1. app.searchTx \in Seq(Searches(app))
        BY <1>3 DEF Good, Sent
    <2> QED
        BY <1>2, <2>1, Channels
<1>6. \/ /\ req.kind = "Search" /\ page.none /\ req.page = 0
         /\ messages' = messages \o <<page, total>> /\ NoCount
      \/ req.kind = "Search" /\ Tell(page) /\ AskCount(asked)
      \/ /\ req.kind = "Stats" /\ AskCount([kind |-> "ClearCache"])
         /\ Tell([kind |-> "Stats", at |-> data.version])
    BY DEF ServeSearch
<1>7. count'.worker # "dead"
    <2>1. req.kind = "Search" => asked \in CountsAsked(app)
        BY <1>5, PageIsFound
    <2>2. [kind |-> "ClearCache"] \in Counts(app) /\ CountsAsked(app) \subseteq Counts(app)
        BY DEF Counts
    <2> HIDE DEF req, asked, page, total
    <2> QED
        BY <1>3, <1>6, <2>1, <2>2, CountAsked
<1>8. /\ Starting(app, messages', startup, ops, data)
      /\ Renewal(messages, ops) => Renewal(messages', ops)
      /\ Searching(app', messages', count') /\ Asking(app, messages')
      /\ Fresh(app, messages, count, data) => Fresh(app', messages', count', data)
    <2>1. CASE /\ req.kind = "Search" /\ page.none /\ req.page = 0
               /\ messages' = messages \o <<page, total>> /\ NoCount
        <3>1. /\ page \in PagesFound(app) /\ total \in CountsFound(app) /\ req.query \in Asked
            <4>1. /\ page \in PagesFound(app) /\ req.query \in Asked
                  /\ \A v \in Versions, i \in Nat : CountOf(req, v, i) \in CountsFound(app)
                BY <1>5, <2>1, PageIsFound
            <4>2. 0 \in Nat /\ data.version \in Versions
                BY DEF IInv
            <4> QED
                BY <4>1, <4>2
        <3>2. PagesOf(req.query) = 0
            <4>1. PagesOf(req.query) \in Nat /\ PagesOf(req.query) <= req.page
                BY <2>1, <3>1, PagesAreCounted DEF PageOf
            <4> QED
                BY <2>1, <4>1
        <3>3. page \in Answers(app, 0) /\ total \in Answers(app, 0) /\ messages \in Seq(Answers(app, 0))
            <4>1. messages \in Seq(Answers(app, 0))
                BY DEF IInv
            <4> HIDE DEF page, total
            <4> QED
                BY <3>1, <4>1 DEF Answers, Found
        <3>4. messages' = Append(Append(messages, page), total)
            BY <2>1, <3>3, BothTold
        <3> QED
            BY <1>4, <1>5, <2>1, <3>2, <3>3, <3>4, NothingFoundHolds
    <2>2. CASE req.kind = "Search" /\ Tell(page) /\ AskCount(asked)
        BY <1>4, <1>5, <2>2, PageFoundHolds DEF Tell
    <2>3. CASE /\ req.kind = "Stats" /\ AskCount([kind |-> "ClearCache"])
               /\ Tell([kind |-> "Stats", at |-> data.version])
        <3> DEFINE m == [kind |-> "Stats", at |-> data.version]
                   k == [kind |-> "ClearCache"]
        <3>1. data.version \in Versions
            BY DEF IInv
        <3>2. /\ m \in Answers(app, 0) /\ m \in StatsFound /\ m.kind = "Stats" /\ m.at = data.version
              /\ k \in Counts(app) /\ k.kind = "ClearCache"
            BY <3>1, NoticesToldOf DEF StatsFound, Counts
        <3>3. messages' = Append(messages, m) /\ AskCount(k) /\ req.kind = "Stats"
            BY <2>3 DEF Tell
        <3> HIDE DEF m, k
        <3> QED
            BY <1>4, <1>5, <3>2, <3>3, StatsToldHolds
    <2> QED
        BY <1>6, <2>1, <2>2, <2>3
<1> QED
    BY <1>2, <1>4, <1>7, <1>8, SearchAnswered

----------------------------------------------------------------------------
(* The analytics worker: b is the window when the first of a's requests is *)
(* taken from its channel.                                                 *)

\* The analytics worker has taken its request.
Examined(a, b) ==
    /\ \A x \in Fields \ {"analyticsTx"} : b[x] = a[x]
    /\ a.analyticsTx # <<>> /\ b.analyticsTx = Tail(a.analyticsTx)

\* m is what is answered to req, of the data as they are: with the settings it was asked with.
Suits(req, m, d) ==
    /\ m.at = d.version
    /\ m.kind \in {"AnalyticsDone", "SectionDone", "PivotDone", "UnderpricingDone",
                   "ProfileDone", "CompareDone"}
    /\ m.kind = "AnalyticsDone" => req.kind = "Analytics" /\ m.gen = req.gen /\ m.limit = req.limit
    /\ \A g : /\ req \in ProductsAsked(g) <=> m \in ProductsFound(g)
              /\ req \in ProductsAsked(g) => m.level = req.level
              /\ req \in PivotAsked(g) <=> m \in PivotFound(g)
              /\ req \in PivotAsked(g) => m.dims = req.dims
    /\ req.kind = "Section" => m.kind = "SectionDone" /\ m.gen = req.gen /\ m.section = req.section

\* The analytics worker answers what it was asked.
LEMMA AnswerSuits ==
    ASSUME IInv, NEW req \in Analyses(app)
    PROVE  Suits(req, Answer(req), data)
<1>1. data.version \in Versions
    BY DEF IInv
<1> DEFINE m == Answer(req)
<1>2. CASE req \in ScopesAsked(app)
    <2>1. /\ m = [kind |-> "AnalyticsDone", gen |-> req.gen, query |-> req.query, at |-> data.version,
                  scope |-> req.scope, limit |-> req.limit, level |-> req.level]
          /\ req \in [kind : {"Analytics"}, query : Asked, scope : Scopes \cup {None}, limit : Limits,
                      level : Levels, gen : Nat]
        BY <1>2 DEF ScopesAsked, Answer
    <2> HIDE DEF m
    <2>2. /\ m.at = data.version /\ m.kind = "AnalyticsDone" /\ req.kind = "Analytics" /\ m.gen = req.gen
          /\ m.limit = req.limit /\ m.level = req.level /\ m.scope = req.scope
        BY <2>1
    <2>3. \A g : /\ m \notin PivotFound(g) /\ req \notin PivotAsked(g)
        BY <2>2 DEF PivotFound, PivotAsked
    <2>4. ASSUME NEW g PROVE req \in ProductsAsked(g) <=> m \in ProductsFound(g)
        <3>1. req \in ProductsAsked(g) <=> req.scope = "Products" /\ req.gen = g
            BY <2>1 DEF ProductsAsked
        <3>2. m \in ProductsFound(g) <=> req.scope = "Products" /\ req.gen = g
            BY <1>1, <2>1 DEF ProductsFound
        <3> QED
            BY <3>1, <3>2
    <2>5. Suits(req, m, data)
        BY <2>2, <2>3, <2>4 DEF Suits
    <2> QED
        BY <2>5 DEF m
<1>3. CASE req \in PivotsAsked(app)
    <2>1. /\ m = [kind |-> "PivotDone", gen |-> req.gen, query |-> req.query, at |-> data.version,
                  dims |-> req.dims]
          /\ req \in [kind : {"Pivot"}, query : Asked, dims : Dims, gen : Nat]
        BY <1>3 DEF PivotsAsked, Answer
    <2> HIDE DEF m
    <2>2. /\ m.at = data.version /\ m.kind = "PivotDone" /\ req.kind = "Pivot" /\ m.gen = req.gen
          /\ m.dims = req.dims
        BY <2>1
    <2>3. \A g : /\ m \notin ProductsFound(g) /\ req \notin ProductsAsked(g)
        BY <2>2 DEF ProductsFound, ProductsAsked
    <2>4. ASSUME NEW g PROVE req \in PivotAsked(g) <=> m \in PivotFound(g)
        <3>1. req \in PivotAsked(g) <=> req.gen = g
            BY <2>1 DEF PivotAsked
        <3>2. m \in PivotFound(g) <=> req.gen = g
            BY <1>1, <2>1 DEF PivotFound
        <3> QED
            BY <3>1, <3>2
    <2>5. Suits(req, m, data)
        BY <2>2, <2>3, <2>4 DEF Suits
    <2> QED
        BY <2>5 DEF m
<1>4. CASE req \in GroupsAsked(app)
    <2>1. /\ m = [kind |-> "SectionDone", gen |-> req.gen, query |-> req.query, at |-> data.version,
                  section |-> req.section]
          /\ req.kind = "Section"
        BY <1>4 DEF GroupsAsked, Answer
    <2> HIDE DEF m
    <2>2. m.at = data.version /\ m.kind = "SectionDone" /\ m.gen = req.gen /\ m.section = req.section
        BY <2>1
    <2>3. \A g : /\ m \notin PivotFound(g) /\ req \notin PivotAsked(g)
                 /\ m \notin ProductsFound(g) /\ req \notin ProductsAsked(g)
        BY <2>1, <2>2 DEF PivotFound, PivotAsked, ProductsFound, ProductsAsked
    <2>4. Suits(req, m, data)
        BY <2>1, <2>2, <2>3 DEF Suits
    <2> QED
        BY <2>4 DEF m
<1>5. CASE req \in ScansAsked(app) \cup DossiersAsked(app) \cup Comparisons
    <2>1. req.kind \in {"Profile", "Compare", "Underpricing"}
        BY <1>5 DEF ScansAsked, DossiersAsked, Comparisons
    <2>2. m = [kind |-> IF req.kind = "Profile" THEN "ProfileDone"
                        ELSE IF req.kind = "Compare" THEN "CompareDone" ELSE "UnderpricingDone",
               gen |-> req.gen, query |-> req.query, at |-> data.version]
        BY <2>1 DEF Answer
    <2> HIDE DEF m
    <2>3. m.at = data.version /\ m.kind \in {"ProfileDone", "CompareDone", "UnderpricingDone"}
        BY <2>1, <2>2
    <2>4. \A g : /\ m \notin PivotFound(g) /\ req \notin PivotAsked(g)
                 /\ m \notin ProductsFound(g) /\ req \notin ProductsAsked(g)
        BY <2>1, <2>3 DEF PivotFound, PivotAsked, ProductsFound, ProductsAsked
    <2>5. Suits(req, m, data)
        BY <2>1, <2>3, <2>4 DEF Suits
    <2> QED
        BY <2>5 DEF m
<1> QED
    BY <1>2, <1>3, <1>4, <1>5 DEF Analyses

\* The channel to the analytics worker is nothing of the search and of what is shown.
LEMMA ExaminedAlike ==
    ASSUME NEW a, NEW b, Examined(a, b), NEW ms, NEW c, NEW d
    PROVE  /\ Searching(a, ms, c) => Searching(b, ms, c)
           /\ Fresh(a, ms, c, d) => Fresh(b, ms, c, d)
           /\ \A st, os : Starting(a, ms, st, os, d) => Starting(b, ms, st, os, d)
<1>1. /\ b.gen = a.gen /\ b.searchTx = a.searchTx /\ b.counting = a.counting /\ b.searching = a.searching
      /\ b.analytics = a.analytics /\ b.loaded = a.loaded /\ b.dbTotal = a.dbTotal
      /\ b.pivot = a.pivot /\ b.explorer = a.explorer /\ b.underpricing = a.underpricing
      /\ b.ready = a.ready /\ b.rows = a.rows /\ b.total = a.total
    BY DEF Examined, Fields
<1>2. Searching(a, ms, c) => Searching(b, ms, c)
    BY <1>1 DEF Searching, OfGen
<1>3. FreshNow(a, ms, c, d) => FreshNow(b, ms, c, d)
    <2>1. \A m : FreshAnswer(a, d, m) => FreshAnswer(b, d, m)
        BY <1>1 DEF FreshAnswer, OfGen
    <2>2. FreshShown(a, d) => FreshShown(b, d)
        BY <1>1 DEF FreshShown
    <2> HIDE DEF FreshAnswer, FreshShown, FreshCache
    <2> QED
        BY <1>1, <2>1, <2>2 DEF FreshNow
<1>4. Counted(a, ms, d) => Counted(b, ms, d)
    BY <1>1, Zenon DEF Counted
<1>5. Cached(a, c, d) => Cached(b, c, d)
    BY <1>1 DEF Cached
<1>6. \A st, os : Starting(a, ms, st, os, d) => Starting(b, ms, st, os, d)
    BY <1>1 DEF Starting
<1> QED
    BY <1>2, <1>3, <1>4, <1>5, <1>6 DEF Fresh

\* What was asked for last is what is told last.
LEMMA ExaminedAsking ==
    ASSUME NEW a, NEW b, Examined(a, b), NEW T, a.analyticsTx \in Seq(T),
           NEW U, NEW ms \in Seq(U), NEW m \in U,
           NEW d, Suits(Head(a.analyticsTx), m, d), Asking(a, ms)
    PROVE  Asking(b, Append(ms, m))
<1> DEFINE req == Head(a.analyticsTx)
<1>1. /\ b.gen = a.gen /\ b.limit = a.limit /\ b.overtaken = a.overtaken
      /\ b.analytics = a.analytics /\ b.loaded = a.loaded /\ b.turned = a.turned /\ b.level = a.level
      /\ b.pivot = a.pivot /\ b.dims = a.dims /\ b.explorer = a.explorer
      /\ a.analyticsTx # <<>> /\ b.analyticsTx = Tail(a.analyticsTx)
    BY DEF Examined, Fields
<1>2. ToSet(Append(ms, m)) = ToSet(ms) \cup {m}
    BY ItemsAppended
<1>3. ToSet(a.analyticsTx) = {req} \cup ToSet(b.analyticsTx)
    BY <1>1, ItemsTaken
<1>4. /\ m.kind = "AnalyticsDone" => req.kind = "Analytics" /\ m.gen = req.gen /\ m.limit = req.limit
      /\ req.kind = "Section" => m.kind = "SectionDone" /\ m.gen = req.gen /\ m.section = req.section
    BY DEF Suits
<1>5. ASSUME NEW g
      PROVE  /\ req \in ProductsAsked(g) <=> m \in ProductsFound(g)
             /\ req \in ProductsAsked(g) => m.level = req.level
             /\ req \in PivotAsked(g) <=> m \in PivotFound(g)
             /\ req \in PivotAsked(g) => m.dims = req.dims
    BY DEF Suits
<1> HIDE DEF req
<1>6. Limited(b, Append(ms, m))
    <2>1. ASSUME ~a.overtaken
          PROVE  /\ \A n \in ToSet(b.analyticsTx) : OfGen(a, "Analytics", n) => n.limit = a.limit
                 /\ \A n \in ToSet(Append(ms, m)) : OfGen(a, "AnalyticsDone", n) => n.limit = a.limit
        BY <1>2, <1>3, <1>4, <2>1 DEF Limited, Asking, OfGen
    <2> QED
        BY <1>1, <2>1 DEF Limited, Asking, OfGen
<1>7. Leveled(b, Append(ms, m))
    <2> DEFINE P == ProductsAsked(a.gen)
               Q == {n \in ProductsAsked(a.gen) : n.level = a.level}
               R == ProductsFound(a.gen)
               S == {n \in ProductsFound(a.gen) : n.level = a.level}
               shown == a.analytics # None /\ "Products" \in a.loaded =>
                            a.analytics.sections["Products"].level = a.level
    <2> SUFFICES ASSUME ~a.turned PROVE Leveled(b, Append(ms, m))
        BY <1>1 DEF Leveled
    <2>1. Decided(a.analyticsTx, P, Q, ms, R, S, shown)
        BY DEF Leveled, Asking
    <2>2. (req \in P <=> m \in R) /\ (req \in Q => m \in S)
        BY <1>5
    <2> HIDE DEF P, Q, R, S, shown
    <2>3. Decided(Tail(a.analyticsTx), P, Q, Append(ms, m), R, S, shown)
        BY <1>1, <2>1, <2>2, DecidedServe DEF req
    <2> QED
        BY <1>1, <2>3, Zenon DEF Leveled, P, Q, R, S, shown
<1>8. Pivoted(b, Append(ms, m))
    <2> DEFINE P == PivotAsked(a.gen)
               Q == {n \in PivotAsked(a.gen) : n.dims = a.dims}
               R == PivotFound(a.gen)
               S == {n \in PivotFound(a.gen) : n.dims = a.dims}
               shown == a.pivot # None => a.pivot.dims = a.dims
    <2> SUFFICES ASSUME ~a.turned PROVE Pivoted(b, Append(ms, m))
        BY <1>1 DEF Pivoted
    <2>1. Decided(a.analyticsTx, P, Q, ms, R, S, shown)
        BY DEF Pivoted, Asking
    <2>2. (req \in P <=> m \in R) /\ (req \in Q => m \in S)
        BY <1>5
    <2> HIDE DEF P, Q, R, S, shown
    <2>3. Decided(Tail(a.analyticsTx), P, Q, Append(ms, m), R, S, shown)
        BY <1>1, <2>1, <2>2, DecidedServe DEF req
    <2> QED
        BY <1>1, <2>3, Zenon DEF Pivoted, P, Q, R, S, shown
<1>9. Grouped(b, Append(ms, m))
    BY <1>1, <1>2, <1>3, <1>4 DEF Grouped, Asking, OfExplorer
<1> QED
    BY <1>6, <1>7, <1>8, <1>9 DEF Asking

\* The analytics worker serves its next request.
LEMMA ServeAnalyticsHolds ==
    ASSUME IInv, FInv, ServeAnalytics
    PROVE  FInv'
<1>1. faults' = faults \/ Fails
    BY DEF ServeAnalytics
<1> SUFFICES ASSUME faults' = 0, faults = 0, ~Fails PROVE FInv'
    BY <1>1, Unfailed
<1> DEFINE req == Head(app.analyticsTx)
           m == Answer(req)
           T == Answers(app, 0)
<1>2. /\ app.analyticsTx # <<>> /\ app' = [app EXCEPT !.analyticsTx = Tail(@)]
      /\ data' = data /\ ops' = ops /\ count' = count /\ startup' = startup /\ search' = search
      /\ analyst' = "open" /\ messages' = Append(messages, m)
    BY DEF ServeAnalytics, Tell
<1>3. /\ Good(app, 0) /\ messages \in Seq(T)
    BY DEF IInv
<1>4. app.analyticsTx \in Seq(Analyses(app))
    BY <1>3 DEF Good, Sent
<1>5. req \in Analyses(app)
    BY <1>2, <1>4, Channels
<1>6. Examined(app, app')
    <2>1. \A x \in Fields \ {"analyticsTx"} : app'[x] = app[x]
        BY <1>2, <1>3 DEF Good, IsWindow
    <2>2. app'.analyticsTx = Tail(app.analyticsTx)
        BY <1>2, <1>3 DEF Good, IsWindow, Fields
    <2> QED
        BY <1>2, <2>1, <2>2 DEF Examined
<1>7. m \in T /\ Suits(req, m, data)
    BY <1>5, AnswerIsFound, AnswerSuits
<1>8. /\ Alive /\ Starting(app, messages, startup, ops, data)
      /\ Searching(app, messages, count) /\ Asking(app, messages)
      /\ ~Renewal(messages, ops) => Fresh(app, messages, count, data)
    BY DEF FInv
<1> HIDE DEF m, T
<1>9. /\ m.kind \in {"AnalyticsDone", "SectionDone", "PivotDone", "UnderpricingDone",
                     "ProfileDone", "CompareDone"}
      /\ m.at = data.version
    BY <1>7 DEF Suits
<1>10. /\ ~OfGen(app, "SearchPage", m) /\ ~OfGen(app, "SearchCount", m) /\ m \notin StatsFound
       /\ m.kind # "StartupDone" /\ FreshAnswer(app, data, m)
    BY <1>9 DEF OfGen, StatsFound, FreshAnswer
<1>11. /\ Searching(app, Append(messages, m), count)
       /\ Starting(app, Append(messages, m), startup, ops, data)
       /\ Renewal(messages, ops) => Renewal(Append(messages, m), ops)
       /\ Fresh(app, messages, count, data) => Fresh(app, Append(messages, m), count, data)
    BY <1>3, <1>7, <1>8, <1>10, ToldSearching, ToldStarting, ToldFresh
<1>12. Asking(app', Append(messages, m))
    BY <1>3, <1>4, <1>6, <1>7, <1>8, ExaminedAsking
<1>13. /\ Searching(app', Append(messages, m), count)
       /\ Starting(app', Append(messages, m), startup, ops, data)
       /\ Fresh(app, Append(messages, m), count, data) => Fresh(app', Append(messages, m), count, data)
    BY <1>6, <1>11, ExaminedAlike
<1>14. Alive'
    BY <1>2, <1>8 DEF Alive
<1> QED
    BY <1>2, <1>8, <1>11, <1>12, <1>13, <1>14 DEF FInv

----------------------------------------------------------------------------
(* At rest.                                                                *)

\* A worker that cannot open the database, or an operation that cannot, is a failure.
LEMMA FailureHolds ==
    ASSUME IInv, FInv, Fails
    PROVE  FInv'
BY Unfailed

\* The threads keep what is under way and what is shown up with the data.
LEMMA ThreadsHold ==
    ASSUME IInv, FInv, Threads
    PROVE  FInv'
<1>1. CASE Drain \/ Repaint
    BY <1>1, DrainHolds, RepaintHolds
<1>2. CASE Startup
    BY <1>2, StartupHolds
<1>3. CASE SearchDies \/ AnalystDies \/ CountDies
    BY <1>3, FailureHolds DEF SearchDies, AnalystDies, CountDies
<1>4. CASE ServeSearch \/ ServeAnalytics
    BY <1>4, ServeSearchHolds, ServeAnalyticsHolds
<1>5. CASE DrainCounts \/ Count
    BY <1>5, DrainCountsHolds, CountHolds
<1>6. CASE \E i \in DOMAIN ops : Commit(i) \/ Finish(i) \/ CannotOpen(i)
    <2>1. PICK i \in DOMAIN ops : Commit(i) \/ Finish(i) \/ CannotOpen(i)
        BY <1>6
    <2>2. CASE Commit(i)
        BY <2>2, CommitHolds
    <2>3. CASE Finish(i)
        BY <2>3, FinishHolds
    <2>4. CASE CannotOpen(i)
        BY <2>4, FailureHolds DEF CannotOpen
    <2> QED
        BY <2>1, <2>2, <2>3, <2>4
<1> QED
    BY <1>1, <1>2, <1>3, <1>4, <1>5, <1>6 DEF Threads

\* Nothing happens, and nothing gets old.
LEMMA StillHolds ==
    ASSUME FInv, UNCHANGED vars
    PROVE  FInv'
<1>1. /\ app' = app /\ messages' = messages /\ startup' = startup /\ search' = search /\ count' = count
      /\ analyst' = analyst /\ ops' = ops /\ data' = data /\ faults' = faults
    BY DEF vars, workerVars
<1>2. Alive => Alive'
    BY <1>1 DEF Alive
<1> QED
    BY <1>1, <1>2 DEF FInv

\* Before the database is there nothing is asked and nothing shown.
LEMMA OpenedFresh ==
    ASSUME Init
    PROVE  FInv
<1>1. /\ app.searchTx = <<>> /\ app.analyticsTx = <<>> /\ app.searching = FALSE /\ app.counting = FALSE
      /\ app.rows = None /\ app.total = None /\ app.analytics = None /\ app.pivot = None
      /\ app.explorer = None /\ app.underpricing = NoPanel /\ app.ready = FALSE
    BY DEF Init
<1>2. /\ messages = <<>> /\ ops = <<>> /\ search = "new" /\ analyst = "new"
      /\ count.worker = "none" /\ count.rx = <<>> /\ count.cache = None /\ count.at = None
    BY DEF Init
<1>3. /\ ToSet(messages) = {} /\ ToSet(app.searchTx) = {} /\ ToSet(app.analyticsTx) = {}
      /\ ToSet(count.rx) = {}
    BY <1>1, <1>2 DEF ToSet
<1>4. Alive
    BY <1>2 DEF Alive
<1>5. Starting(app, messages, startup, ops, data)
    BY <1>1, <1>2, <1>3 DEF Starting
<1>6. Searching(app, messages, count)
    BY <1>1, <1>2, <1>3 DEF Searching
<1>7. messages \in Seq({}) /\ app.searchTx \in Seq({}) /\ app.analyticsTx \in Seq({})
    BY <1>1, <1>2
<1>8. Asking(app, messages)
    <2>1. Limited(app, messages) /\ Grouped(app, messages)
        BY <1>1, <1>3 DEF Limited, Grouped
    <2>2. Leveled(app, messages)
        <3> DEFINE P == ProductsAsked(app.gen)
                   Q == {n \in ProductsAsked(app.gen) : n.level = app.level}
                   R == ProductsFound(app.gen)
                   S == {n \in ProductsFound(app.gen) : n.level = app.level}
                   shown == app.analytics # None /\ "Products" \in app.loaded =>
                                app.analytics.sections["Products"].level = app.level
        <3>1. shown
            BY <1>1
        <3> HIDE DEF P, Q, R, S, shown
        <3>2. Decided(app.analyticsTx, P, Q, messages, R, S, shown)
            BY <1>3, <1>7, <3>1, DecidedNew
        <3> QED
            BY <3>2, Zenon DEF Leveled, P, Q, R, S, shown
    <2>3. Pivoted(app, messages)
        <3> DEFINE P == PivotAsked(app.gen)
                   Q == {n \in PivotAsked(app.gen) : n.dims = app.dims}
                   R == PivotFound(app.gen)
                   S == {n \in PivotFound(app.gen) : n.dims = app.dims}
                   shown == app.pivot # None => app.pivot.dims = app.dims
        <3>1. shown
            BY <1>1
        <3> HIDE DEF P, Q, R, S, shown
        <3>2. Decided(app.analyticsTx, P, Q, messages, R, S, shown)
            BY <1>3, <1>7, <3>1, DecidedNew
        <3> QED
            BY <3>2, Zenon DEF Pivoted, P, Q, R, S, shown
    <2> QED
        BY <2>1, <2>2, <2>3 DEF Asking
<1>9. Fresh(app, messages, count, data)
    <2>1. app.underpricing.shown = None
        BY <1>1 DEF NoPanel
    <2>2. FreshNow(app, messages, count, data)
        BY <1>1, <1>2, <1>3, <2>1 DEF FreshNow, FreshShown
    <2>3. Counted(app, messages, data)
        <3> DEFINE S == {n \in StatsFound : n.at = data.version}
                   shown == app.ready => app.dbTotal = data.version
        <3>1. shown
            BY <1>1
        <3> HIDE DEF S, shown
        <3>2. Decided(app.searchTx, StatsAsked, StatsAsked, messages, StatsFound, S, shown)
            BY <1>3, <1>7, <3>1, DecidedNew
        <3> QED
            BY <3>2, Zenon DEF Counted, S, shown
    <2>4. Cached(app, count, data)
        BY <1>2 DEF Cached, FreshCache
    <2> QED
        BY <2>2, <2>3, <2>4 DEF Fresh
<1> QED
    BY <1>4, <1>5, <1>6, <1>8, <1>9 DEF FInv

\* When nothing is under way, what is shown has settled.
LEMMA SettledShown ==
    ASSUME NEW P, NEW Q, NEW R, NEW S, NEW shown, Decided(<<>>, P, Q, <<>>, R, S, shown)
    PROVE  shown
<1>1. ToSet(<<>>) = {}
    BY DEF ToSet
<1> QED
    BY <1>1 DEF Decided, Has

\* At rest nothing is under way.
LEMMA NothingPending ==
    ASSUME IInv, Pending = 0
    PROVE  /\ app.searchTx = <<>> /\ app.analyticsTx = <<>> /\ messages = <<>> /\ count.rx = <<>>
           /\ count.at = None /\ ~\E i \in DOMAIN ops : Running(i)
<1> DEFINE s == Len(app.searchTx)
           t == Len(app.analyticsTx)
           u == Len(messages)
           v == Len(count.rx)
           w == IF count.at = None THEN 0 ELSE 1
           x == IF startup = "running" THEN 1 ELSE 0
           y == IF \E i \in DOMAIN ops : Running(i) THEN 1 ELSE 0
<1>1. /\ app.searchTx \in Seq(Searches(app)) /\ app.analyticsTx \in Seq(Analyses(app))
      /\ messages \in Seq(Answers(app, faults)) /\ count \in CountStates(app)
    BY DEF IInv, Good, Sent
<1>2. count.rx \in Seq(Counts(app))
    BY <1>1, CountStateOf
<1>3. /\ s \in Nat /\ t \in Nat /\ u \in Nat /\ v \in Nat
      /\ (s = 0 => app.searchTx = <<>>) /\ (t = 0 => app.analyticsTx = <<>>)
      /\ (u = 0 => messages = <<>>) /\ (v = 0 => count.rx = <<>>)
    BY <1>1, <1>2, Positions
<1>4. w \in {0, 1} /\ x \in {0, 1} /\ y \in {0, 1}
    OBVIOUS
<1>5. s + t + u + v + w + x + y = 0
    BY DEF Pending
<1>6. (w = 0 => count.at = None) /\ (y = 0 => ~\E i \in DOMAIN ops : Running(i))
    OBVIOUS
<1> HIDE DEF s, t, u, v, w, x, y
<1>7. s = 0 /\ t = 0 /\ u = 0 /\ v = 0 /\ w = 0 /\ y = 0
    BY <1>3, <1>4, <1>5
<1> QED
    BY <1>3, <1>6, <1>7

\* What is fresh or will be is fresh at rest.
LEMMA FreshWhenAtRest ==
    ASSUME IInv, FInv
    PROVE  FreshAtRest
<1> SUFFICES ASSUME AtRest PROVE FreshAtRest
    BY DEF FreshAtRest
<1>1. app.ready /\ faults = 0 /\ Pending = 0
    BY DEF AtRest
<1>2. /\ app.searchTx = <<>> /\ app.analyticsTx = <<>> /\ messages = <<>> /\ count.rx = <<>>
      /\ count.at = None /\ ~\E i \in DOMAIN ops : Running(i)
    BY <1>1, NothingPending
<1>3. ToSet(<<>>) = {}
    BY DEF ToSet
<1>4. ~Renewal(messages, ops)
    BY <1>2, <1>3 DEF Renewal, Running
<1>5. /\ Searching(app, messages, count) /\ Asking(app, messages) /\ Fresh(app, messages, count, data)
    BY <1>1, <1>4 DEF FInv
<1>6. /\ app.total # None => app.total.query = app.active
      /\ app.searching \in BOOLEAN /\ app.counting \in BOOLEAN
    BY DEF IInv, Good, Shown, Results, Settings
<1>7. ~app.searching /\ ~app.counting /\ (app.total = None => app.rows = None)
    BY <1>2, <1>3, <1>5 DEF Searching
<1>8. app.dbTotal = data.version
    <2> DEFINE S == {n \in StatsFound : n.at = data.version}
               shown == app.ready => app.dbTotal = data.version
    <2>1. Decided(app.searchTx, StatsAsked, StatsAsked, messages, StatsFound, S, shown)
        BY <1>5 DEF Fresh, Counted
    <2> HIDE DEF S, shown
    <2>2. shown
        BY <1>2, <2>1, SettledShown
    <2> QED
        BY <1>1, <2>2 DEF shown
<1>9. FreshShown(app, data)
    BY <1>5 DEF Fresh, FreshNow
<1>10. ASSUME ~app.turned
       PROVE  /\ app.analytics # None /\ "Products" \in app.loaded =>
                    app.analytics.sections["Products"].level = app.level
              /\ app.pivot # None => app.pivot.dims = app.dims
    <2> DEFINE P == ProductsAsked(app.gen)
               Q == {n \in ProductsAsked(app.gen) : n.level = app.level}
               R == ProductsFound(app.gen)
               S == {n \in ProductsFound(app.gen) : n.level = app.level}
               leveled == app.analytics # None /\ "Products" \in app.loaded =>
                              app.analytics.sections["Products"].level = app.level
               V == PivotAsked(app.gen)
               W == {n \in PivotAsked(app.gen) : n.dims = app.dims}
               X == PivotFound(app.gen)
               Y == {n \in PivotFound(app.gen) : n.dims = app.dims}
               pivoted == app.pivot # None => app.pivot.dims = app.dims
    <2>1. Decided(app.analyticsTx, P, Q, messages, R, S, leveled)
        BY <1>5, <1>10 DEF Asking, Leveled
    <2>2. Decided(app.analyticsTx, V, W, messages, X, Y, pivoted)
        BY <1>5, <1>10 DEF Asking, Pivoted
    <2> HIDE DEF P, Q, R, S, V, W, X, Y, leveled, pivoted
    <2>3. leveled
        BY <1>2, <2>1, SettledShown
    <2>4. pivoted
        BY <1>2, <2>2, SettledShown
    <2> QED
        BY <2>3, <2>4 DEF leveled, pivoted
<1>11. ~app.overtaken /\ app.analytics # None =>
          \A s \in app.loaded \cap Scopes : app.analytics.sections[s].limit = app.limit
    BY <1>5 DEF Asking, Limited
<1>12. app.explorer # None => app.explorer.rows # None
    BY <1>2, <1>3, <1>5 DEF Asking, Grouped
<1>13. /\ app.rows = None => data.empty
       /\ app.rows # None => app.rows.at = data.version /\ app.total # None
       /\ app.total # None => app.total.at = data.version /\ app.total.pages = PagesOf(app.active)
    BY <1>1, <1>6, <1>7, <1>9 DEF FreshShown, PagesOf, PagesIn
<1>14. app.analytics # None =>
         /\ app.analytics.base.at = data.version
         /\ \A s \in app.loaded \cap Scopes :
               /\ ShownSection(s).at = data.version
               /\ ~app.overtaken => ShownSection(s).limit = app.limit
               /\ ~app.turned /\ s = "Products" => ShownSection(s).level = app.level
    BY <1>9, <1>10, <1>11 DEF FreshShown, ShownSection
<1>15. /\ app.pivot # None => app.pivot.at = data.version /\ (~app.turned => app.pivot.dims = app.dims)
       /\ app.explorer # None => app.explorer.rows # None /\ app.explorer.rows.at = data.version
       /\ app.underpricing.shown # None => app.underpricing.shown.at = data.version
    BY <1>9, <1>10, <1>12 DEF FreshShown
<1> QED
    BY <1>8, <1>13, <1>14, <1>15 DEF FreshAtRest

\* When all threads have come to rest without a failure, the window shows the present data and
\* the present settings, for every number of scopes, queries, pages, clicks and operations: no
\* answer that was computed before an import or a clearing, or with settings that were changed
\* since, is the last word (drain_messages, the worker's queues, the cache of the count worker).
THEOREM RestIsFresh == Spec => []FreshAtRest
<1>1. Init => FInv
    BY OpenedFresh
<1>2. IInv /\ FInv /\ [Next]_vars => FInv'
    BY ThreadsHold, UserHolds, StillHolds DEF Next
<1>3. IInv /\ FInv => FreshAtRest
    BY FreshWhenAtRest
<1> QED
    BY <1>1, <1>2, <1>3, Inductive, PTL DEF Spec
=============================================================================
