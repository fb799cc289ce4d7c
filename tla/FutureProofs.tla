---------------------------- MODULE FutureProofs ----------------------------
(***************************************************************************)
(* Theorems about Future, for any threads, any number of futures and any   *)
(* interventions, the release of a last reference included, except where   *)
(* LoneUser is assumed.                                                    *)
(*                                                                         *)
(* A token is what will call back future x because of future p: an entry   *)
(* of an agenda or of on_ready, or a place in an executor's queue.  Tokens *)
(* are made with x and only move (OneToken); the invariant says what each  *)
(* has behind it wherever it is.                                           *)
(***************************************************************************)
EXTENDS Future, FiniteSetTheorems, SequenceTheorems, TLAPS

-----------------------------------------------------------------------------
(* The types.                                                              *)

Kinds == {"promise", "schedule", "then", "status", "combine", "merge"}
Callables == {"schedule"} \cup Continuations

Entries ==
  ({"submit", "run", "body", "priority", "release", "unlock"} \X (0 .. MaxFutures))
    \cup ({"attach", "arrive"} \X Futures \X Futures)
    \cup ({"push", "reprioritise"} \X Futures \X Queued)
    \cup ({"return"} \X Futures \X Results)

Shares == [remaining : Nat, wait_all : BOOLEAN, done : BOOLEAN, has_error : BOOLEAN,
           first_error : Results]

FutureTypes ==
  /\ created \in 0 .. MaxFutures
  /\ kind \in [Futures -> Kinds \cup {"none"}]
  /\ home \in [Futures -> Types]
  /\ accepts \in [Futures -> BOOLEAN]
  /\ sources \in [Futures -> SUBSET Futures]
  /\ result \in [Futures -> Results \cup {"none"}]
  /\ on_ready \in [Futures -> Seq(Entries)]
  /\ shared \in [Futures -> Shares]
  /\ handles \subseteq Created /\ dropped \subseteq Created
  /\ agenda \in [Threads -> Seq(Entries)]
  /\ started \in [Futures -> Nat]
  /\ queue \in [Queued -> SUBSET Created]

-----------------------------------------------------------------------------
(* The inductive invariant.                                                *)

\* What a future was made from, once and for all.
Lineage ==
  /\ \A f \in Futures \ Created :
       /\ kind[f] = "none" /\ result[f] = "none" /\ on_ready[f] = <<>> /\ started[f] = 0
       /\ sources[f] = {} /\ shared[f] = NoShared /\ ~accepts[f]
  /\ \A f \in Created :
       /\ kind[f] # "none"
       /\ sources[f] \subseteq 1 .. f - 1
       /\ kind[f] \in Continuations => sources[f] = {ParentOf(f)}
       /\ kind[f] \in {"status", "merge"} => accepts[f] /\ home[f] = "immediate"
       /\ kind[f] = "schedule" => sources[f] = {}

\* The callable of f could be called now: it has not to wait for a parent.
MayCall(f) == kind[f] \in Callables /\ (kind[f] \in Continuations => Ready(ParentOf(f)))

\* The parent's result lets the callable of f run.
Permits(f) == kind[f] \in Continuations => accepts[f] \/ result[ParentOf(f)] = "ok"

\* Future x is waiting for p.
Follows(x, p) ==
  x \in Created /\ p \in sources[x] /\ kind[x] \in Continuations \cup {"combine"}

Legal(e) ==
  /\ e[1] # "unlock" => e[2] \in Created
  /\ e[1] = "attach" => Follows(e[3], e[2])
  /\ e[1] = "arrive" => Follows(e[3], e[2]) /\ kind[e[3]] = "combine" /\ Ready(e[2])
  /\ e[1] \in {"submit", "push", "run", "body"} => MayCall(e[2])
  /\ e[1] = "push" => kind[e[2]] \in {"schedule", "then"}
  /\ e[1] = "body" => Permits(e[2])

Posted == UNION {ToSet(agenda[t]) : t \in Threads}

AgendasLegal == \A e \in Posted : Legal(e)

Awaited(g, e) == \E x \in Created : Follows(x, g) /\ e = CallbackOf(g, x)

RegistrationsLegal ==
  \A g \in Futures :
    /\ on_ready[g] # <<>> => ~Ready(g)
    /\ \A e \in ToSet(on_ready[g]) : Awaited(g, e)

QueuesLegal ==
  \A e \in Queued : \A x \in queue[e] : MayCall(x) /\ kind[x] \in {"schedule", "then"}

\* The entry at depth d of an agenda: the head is the deepest, so that the others stay where
\* they are when it is replaced.
Nth(s, d) == s[Len(s) + 1 - d]

\* What a callable waits for.
Origin(x) == IF kind[x] \in Continuations THEN ParentOf(x) ELSE 0

\* Entry e will call back x because of p.
Carries(e, p, x) ==
  \/ e[1] \in {"attach", "arrive"} /\ e[2] = p /\ e[3] = x
  \/ e[1] \in {"submit", "push", "run"} /\ e[2] = x /\ p = Origin(x)

Places == ({"agenda"} \X Threads \X Nat) \cup ({"ready"} \X Futures \X Nat)
            \cup ({"queue"} \X Queued)

\* At place a there is a token of x because of p.
Has(a, p, x) ==
  \/ /\ a[1] = "agenda" /\ a[3] \in 1 .. Len(agenda[a[2]])
     /\ Carries(Nth(agenda[a[2]], a[3]), p, x)
  \/ /\ a[1] = "ready" /\ a[3] \in DOMAIN on_ready[a[2]]
     /\ Carries(on_ready[a[2]][a[3]], p, x)
  \/ a[1] = "queue" /\ x \in queue[a[2]] /\ p = Origin(x)

Token(p, x) == \E a \in Places : Has(a, p, x)

OneToken ==
  \A p, x : \A a, b \in Places : Has(a, p, x) /\ Has(b, p, x) => a = b

\* A callable that still has a token has not been called.
NotYetCalled == \A p, x : Token(p, x) /\ kind[x] # "combine" => started[x] = 0

-----------------------------------------------------------------------------
(* Sequences.                                                              *)

\* What concatenation does to lengths, elements and depths.
LEMMA JoinFacts ==
  ASSUME NEW S, NEW s \in Seq(S), NEW z \in Seq(S)
  PROVE  /\ s \o z \in Seq(S) /\ Len(s \o z) = Len(s) + Len(z)
         /\ ToSet(s \o z) = ToSet(s) \cup ToSet(z)
         /\ \A d \in 1 .. Len(z) : Nth(s \o z, d) = Nth(z, d)
         /\ \A d \in Len(z) + 1 .. Len(s) + Len(z) : Nth(s \o z, d) = Nth(s, d - Len(z))
  <1>1. /\ s \o z \in Seq(S) /\ Len(s \o z) = Len(s) + Len(z)
        /\ \A i \in 1 .. Len(s) : (s \o z)[i] = s[i]
        /\ \A i \in Len(s) + 1 .. Len(s) + Len(z) : (s \o z)[i] = z[i - Len(s)]
        /\ Len(s) \in Nat /\ Len(z) \in Nat
    OBVIOUS
  <1>2. DOMAIN s = 1 .. Len(s) /\ DOMAIN z = 1 .. Len(z) /\ DOMAIN (s \o z) = 1 .. Len(s) + Len(z)
    OBVIOUS
  <1> DEFINE j == s \o z
  <1> HIDE DEF j
  <1>3. ToSet(j) = ToSet(s) \cup ToSet(z)
    <2>1. ASSUME NEW e \in ToSet(j) PROVE e \in ToSet(s) \cup ToSet(z)
      <3>1. PICK i \in 1 .. Len(s) + Len(z) : e = j[i]
        BY <1>1, <1>2, <2>1 DEF ToSet, j
      <3>2. CASE i <= Len(s)
        BY <1>1, <1>2, <3>1, <3>2 DEF ToSet, j
      <3>3. CASE i > Len(s)
        <4>1. i - Len(s) \in 1 .. Len(z) /\ e = z[i - Len(s)]
          BY <1>1, <3>1, <3>3 DEF j
        <4> QED
          BY <1>2, <4>1 DEF ToSet
      <3> QED
        BY <1>1, <3>1, <3>2, <3>3
    <2>2. ASSUME NEW e \in ToSet(s) PROVE e \in ToSet(j)
      <3>1. PICK i \in 1 .. Len(s) : e = s[i]
        BY <1>2, <2>2 DEF ToSet
      <3>2. i \in 1 .. Len(s) + Len(z) /\ e = j[i]
        BY <1>1, <3>1 DEF j
      <3> QED
        BY <1>2, <3>2 DEF ToSet, j
    <2>3. ASSUME NEW e \in ToSet(z) PROVE e \in ToSet(j)
      <3>1. PICK i \in 1 .. Len(z) : e = z[i]
        BY <1>2, <2>3 DEF ToSet
      <3>2. i + Len(s) \in 1 .. Len(s) + Len(z) /\ e = j[i + Len(s)]
        BY <1>1, <3>1 DEF j
      <3> QED
        BY <1>2, <3>2 DEF ToSet, j
    <2> QED
      BY <2>1, <2>2, <2>3
  <1>4. ASSUME NEW d \in 1 .. Len(z) PROVE Nth(j, d) = Nth(z, d)
    <2>1. Len(j) = Len(s) + Len(z)
      BY <1>1 DEF j
    <2>2. Len(s) + Len(z) + 1 - d \in Len(s) + 1 .. Len(s) + Len(z)
      BY <1>1
    <2>3. j[Len(s) + Len(z) + 1 - d] = z[Len(s) + Len(z) + 1 - d - Len(s)]
      BY <1>1, <2>2 DEF j
    <2>4. Len(s) + Len(z) + 1 - d - Len(s) = Len(z) + 1 - d
      BY <1>1
    <2> QED
      BY <2>1, <2>3, <2>4 DEF Nth
  <1>5. ASSUME NEW d \in Len(z) + 1 .. Len(s) + Len(z) PROVE Nth(j, d) = Nth(s, d - Len(z))
    <2>1. Len(j) = Len(s) + Len(z)
      BY <1>1 DEF j
    <2>2. Len(s) + Len(z) + 1 - d \in 1 .. Len(s)
      BY <1>1
    <2>3. Len(s) + Len(z) + 1 - d = Len(s) + 1 - (d - Len(z))
      BY <1>1
    <2> QED
      BY <1>1, <2>1, <2>2, <2>3 DEF Nth, j
  <1> QED
    BY <1>1, <1>3, <1>4, <1>5 DEF j

\* What Head and Tail do to lengths, elements and depths.
LEMMA TailFacts ==
  ASSUME NEW S, NEW s \in Seq(S), s # <<>>
  PROVE  /\ Tail(s) \in Seq(S) /\ Len(Tail(s)) = Len(s) - 1
         /\ Len(s) \in Nat \ {0}
         /\ Head(s) \in S /\ ToSet(s) = {Head(s)} \cup ToSet(Tail(s))
         /\ Head(s) = Nth(s, Len(s))
         /\ \A d \in 1 .. Len(s) - 1 : Nth(Tail(s), d) = Nth(s, d)
  <1>1. /\ Len(s) \in Nat \ {0} /\ Tail(s) \in Seq(S) /\ Len(Tail(s)) = Len(s) - 1
        /\ Head(s) = s[1] /\ \A i \in 1 .. Len(s) - 1 : Tail(s)[i] = s[i + 1]
    OBVIOUS
  <1>2. DOMAIN s = 1 .. Len(s) /\ DOMAIN Tail(s) = 1 .. Len(s) - 1
    BY <1>1
  <1> DEFINE z == Tail(s)
  <1> HIDE DEF z
  <1>3. ToSet(s) = {Head(s)} \cup ToSet(z)
    <2>1. ASSUME NEW e \in ToSet(s) PROVE e \in {Head(s)} \cup ToSet(z)
      <3>1. PICK i \in 1 .. Len(s) : e = s[i]
        BY <1>2, <2>1 DEF ToSet
      <3>2. CASE i = 1
        BY <1>1, <3>1, <3>2
      <3>3. CASE i # 1
        <4>1. i - 1 \in 1 .. Len(s) - 1 /\ e = z[i - 1]
          BY <1>1, <3>1, <3>3 DEF z
        <4> QED
          BY <1>2, <4>1 DEF ToSet, z
      <3> QED
        BY <3>2, <3>3
    <2>2. Head(s) \in ToSet(s)
      BY <1>1, <1>2 DEF ToSet
    <2>3. ASSUME NEW e \in ToSet(z) PROVE e \in ToSet(s)
      <3>1. PICK i \in 1 .. Len(s) - 1 : e = z[i]
        BY <1>2, <2>3 DEF ToSet, z
      <3>2. i + 1 \in 1 .. Len(s) /\ e = s[i + 1]
        BY <1>1, <3>1 DEF z
      <3> QED
        BY <1>2, <3>2 DEF ToSet
    <2> QED
      BY <2>1, <2>2, <2>3
  <1>4. ASSUME NEW d \in 1 .. Len(s) - 1 PROVE Nth(z, d) = Nth(s, d)
    <2>1. Len(s) - 1 + 1 - d \in 1 .. Len(s) - 1 /\ Len(s) - 1 + 1 - d + 1 = Len(s) + 1 - d
      BY <1>1
    <2> QED
      BY <1>1, <2>1 DEF Nth, z
  <1>5. Head(s) = Nth(s, Len(s)) /\ Head(s) \in S
    <2>1. Len(s) + 1 - Len(s) = 1
      BY <1>1
    <2> QED
      BY <1>1, <2>1 DEF Nth
  <1> QED
    BY <1>1, <1>3, <1>4, <1>5 DEF z

-----------------------------------------------------------------------------
(* Agendas, and what moves a token.                                        *)

\* An agenda after its head was replaced.
LEMMA ProceedFacts ==
  ASSUME FutureTypes, NEW t \in Threads, agenda[t] # <<>>,
         NEW entries \in Seq(Entries), Proceed(t, entries)
  PROVE  /\ agenda' \in [Threads -> Seq(Entries)]
         /\ \A u \in Threads \ {t} : agenda'[u] = agenda[u]
         /\ Len(agenda[t]) \in Nat \ {0} /\ Len(entries) \in Nat
         /\ Len(agenda'[t]) = Len(agenda[t]) - 1 + Len(entries)
         /\ Head(agenda[t]) = Nth(agenda[t], Len(agenda[t])) /\ Head(agenda[t]) \in Entries
         /\ ToSet(agenda[t]) = {Head(agenda[t])} \cup ToSet(Tail(agenda[t]))
         /\ ToSet(agenda'[t]) = ToSet(entries) \cup ToSet(Tail(agenda[t]))
         /\ \A d \in 1 .. Len(agenda[t]) - 1 : Nth(agenda'[t], d) = Nth(agenda[t], d)
         /\ \A d \in Len(agenda[t]) .. Len(agenda'[t]) :
              Nth(agenda'[t], d) = Nth(entries, d - Len(agenda[t]) + 1)
  <1> DEFINE s == agenda[t]
             z == Tail(agenda[t])
             j == entries \o z
  <1>1. s \in Seq(Entries) /\ s # <<>>
    BY DEF FutureTypes
  <1>2. /\ z \in Seq(Entries) /\ Len(z) = Len(s) - 1 /\ Len(s) \in Nat \ {0}
        /\ Head(s) \in Entries /\ ToSet(s) = {Head(s)} \cup ToSet(z)
        /\ Head(s) = Nth(s, Len(s))
        /\ \A d \in 1 .. Len(s) - 1 : Nth(z, d) = Nth(s, d)
    <2> HIDE DEF s
    <2> QED
      BY <1>1, TailFacts DEF s
  <1>3. /\ j \in Seq(Entries) /\ Len(j) = Len(entries) + Len(z)
        /\ ToSet(j) = ToSet(entries) \cup ToSet(z)
        /\ \A d \in 1 .. Len(z) : Nth(j, d) = Nth(z, d)
        /\ \A d \in Len(z) + 1 .. Len(entries) + Len(z) : Nth(j, d) = Nth(entries, d - Len(z))
    <2>1. z \in Seq(Entries)
      BY <1>2
    <2> HIDE DEF z
    <2> QED
      BY <2>1, JoinFacts, Zenon
  <1>4. /\ agenda' \in [Threads -> Seq(Entries)] /\ agenda'[t] = j
        /\ \A u \in Threads \ {t} : agenda'[u] = agenda[u]
    BY <1>3 DEF FutureTypes, Proceed
  <1>5. Len(entries) \in Nat
    OBVIOUS
  <1> HIDE DEF j, z, s
  <1>6. \A d \in 1 .. Len(s) - 1 : Nth(j, d) = Nth(s, d)
    BY <1>2, <1>3
  <1>7. ASSUME NEW d \in Len(s) .. Len(j) PROVE Nth(j, d) = Nth(entries, d - Len(s) + 1)
    <2>1. d \in Len(z) + 1 .. Len(entries) + Len(z) /\ d - Len(z) = d - Len(s) + 1
      BY <1>2, <1>3, <1>5
    <2> QED
      BY <1>3, <2>1
  <1>8. Len(j) = Len(s) - 1 + Len(entries)
    BY <1>2, <1>3, <1>5
  <1> QED
    BY <1>2, <1>3, <1>4, <1>5, <1>6, <1>7, <1>8, Zenon DEF s, z

\* A call that begins on an idle thread.
LEMMA CallFacts ==
  ASSUME FutureTypes, NEW t \in Threads, agenda[t] = <<>>,
         NEW entries \in Seq(Entries), agenda' = [agenda EXCEPT ![t] = entries]
  PROVE  /\ agenda' \in [Threads -> Seq(Entries)] /\ agenda'[t] = entries
         /\ \A u \in Threads \ {t} : agenda'[u] = agenda[u]
         /\ Posted' = Posted \cup ToSet(entries)
  <1>1. /\ agenda' \in [Threads -> Seq(Entries)] /\ agenda'[t] = entries
        /\ \A u \in Threads \ {t} : agenda'[u] = agenda[u]
    BY DEF FutureTypes
  <1>2. ToSet(agenda[t]) = {}
    BY DEF ToSet
  <1>3. Posted' = Posted \cup ToSet(entries)
    BY <1>1, <1>2 DEF Posted
  <1> QED
    BY <1>1, <1>3

\* What is posted after a step of a call.
LEMMA PostedAfter ==
  ASSUME FutureTypes, NEW t \in Threads, agenda[t] # <<>>,
         NEW entries \in Seq(Entries), Proceed(t, entries)
  PROVE  /\ Posted' \subseteq Posted \cup ToSet(entries)
         /\ ToSet(entries) \subseteq Posted'
         /\ Posted \subseteq Posted' \cup {Head(agenda[t])}
         /\ Head(agenda[t]) \in Posted
  <1>1. /\ \A u \in Threads \ {t} : agenda'[u] = agenda[u]
        /\ ToSet(agenda[t]) = {Head(agenda[t])} \cup ToSet(Tail(agenda[t]))
        /\ ToSet(agenda'[t]) = ToSet(entries) \cup ToSet(Tail(agenda[t]))
    BY ProceedFacts
  <1> QED
    BY <1>1 DEF Posted

\* The places of an agenda below its head stay as they are.
LEMMA AgendaPlaces ==
  ASSUME FutureTypes, NEW t \in Threads, agenda[t] # <<>>,
         NEW entries \in Seq(Entries), Proceed(t, entries), UNCHANGED <<kind, sources>>,
         NEW p, NEW x
  PROVE  /\ \A u \in Threads, d \in Nat :
              u # t \/ d < Len(agenda[t]) =>
                (Has(<<"agenda", u, d>>, p, x)' <=> Has(<<"agenda", u, d>>, p, x))
         /\ \A d \in Nat : Has(<<"agenda", t, d>>, p, x) /\ d >= Len(agenda[t]) =>
              d = Len(agenda[t])
         /\ Has(<<"agenda", t, Len(agenda[t])>>, p, x) <=> Carries(Head(agenda[t]), p, x)
         /\ \A d \in Nat : d >= Len(agenda[t]) =>
              (Has(<<"agenda", t, d>>, p, x)' <=>
                 /\ d - Len(agenda[t]) + 1 \in 1 .. Len(entries)
                 /\ Carries(Nth(entries, d - Len(agenda[t]) + 1), p, x))
         /\ <<"agenda", t, Len(agenda[t])>> \in Places
  <1> DEFINE n == Len(agenda[t])
  <1>1. /\ agenda' \in [Threads -> Seq(Entries)]
        /\ \A u \in Threads \ {t} : agenda'[u] = agenda[u]
        /\ n \in Nat \ {0} /\ Len(entries) \in Nat
        /\ Len(agenda'[t]) = n - 1 + Len(entries)
        /\ Head(agenda[t]) = Nth(agenda[t], n)
        /\ \A d \in 1 .. n - 1 : Nth(agenda'[t], d) = Nth(agenda[t], d)
        /\ \A d \in n .. Len(agenda'[t]) : Nth(agenda'[t], d) = Nth(entries, d - n + 1)
    BY ProceedFacts
  <1>2. ASSUME NEW u \in Threads, NEW d \in Nat
        PROVE  /\ Has(<<"agenda", u, d>>, p, x) <=>
                    d \in 1 .. Len(agenda[u]) /\ Carries(Nth(agenda[u], d), p, x)
               /\ Has(<<"agenda", u, d>>, p, x)' <=>
                    d \in 1 .. Len(agenda'[u]) /\ Carries(Nth(agenda'[u], d), p, x)
    BY DEF Has, Carries, Origin, ParentOf
  <1> HIDE DEF n
  <1>3. ASSUME NEW u \in Threads, NEW d \in Nat, u # t \/ d < n
        PROVE  Has(<<"agenda", u, d>>, p, x)' <=> Has(<<"agenda", u, d>>, p, x)
    <2>1. CASE u # t
      BY <1>1, <1>2, <2>1
    <2>2. CASE u = t /\ d < n
      <3>1. d \in 1 .. n => d \in 1 .. n - 1
        BY <1>1, <2>2
      <3>2. d \in 1 .. Len(agenda'[t]) => d \in 1 .. n - 1
        BY <1>1, <2>2
      <3>3. d \in 1 .. n - 1 => d \in 1 .. n /\ d \in 1 .. Len(agenda'[t])
        BY <1>1
      <3> QED
        BY <1>1, <1>2, <2>2, <3>1, <3>2, <3>3 DEF n
    <2> QED
      BY <1>3, <2>1, <2>2
  <1>4. ASSUME NEW d \in Nat, d >= n
        PROVE  Has(<<"agenda", t, d>>, p, x)' <=>
                 d - n + 1 \in 1 .. Len(entries) /\ Carries(Nth(entries, d - n + 1), p, x)
    <2>1. d \in 1 .. Len(agenda'[t]) <=> d - n + 1 \in 1 .. Len(entries)
      BY <1>1, <1>4
    <2>2. d \in 1 .. Len(agenda'[t]) => d \in n .. Len(agenda'[t])
      BY <1>1, <1>4
    <2> QED
      BY <1>1, <1>2, <2>1, <2>2
  <1>5. \A d \in Nat : Has(<<"agenda", t, d>>, p, x) /\ d >= n => d = n
    BY <1>1, <1>2 DEF n
  <1>6. Has(<<"agenda", t, n>>, p, x) <=> Carries(Head(agenda[t]), p, x)
    BY <1>1, <1>2 DEF n
  <1>7. <<"agenda", t, n>> \in Places
    BY <1>1 DEF Places
  <1> QED
    BY <1>3, <1>4, <1>5, <1>6, <1>7, Zenon DEF n

\* When the new entries carry nothing, only the head's place changes.
LEMMA AgendaSpent ==
  ASSUME FutureTypes, NEW t \in Threads, agenda[t] # <<>>,
         NEW entries \in Seq(Entries), Proceed(t, entries), UNCHANGED <<kind, sources>>,
         NEW p, NEW x, \A e \in ToSet(entries) : ~Carries(e, p, x)
  PROVE  \A u \in Threads, d \in Nat :
           Has(<<"agenda", u, d>>, p, x)' <=>
             Has(<<"agenda", u, d>>, p, x) /\ ~(u = t /\ d = Len(agenda[t]))
  <1> DEFINE n == Len(agenda[t])
  <1>1. n \in Nat \ {0} /\ Len(entries) \in Nat
    BY ProceedFacts
  <1>2. ASSUME NEW k \in 1 .. Len(entries)
        PROVE  ~Carries(Nth(entries, k), p, x)
    <2>1. Len(entries) + 1 - k \in DOMAIN entries
      BY <1>1
    <2>2. Nth(entries, k) \in ToSet(entries)
      BY <2>1 DEF Nth, ToSet
    <2> QED
      BY <2>2
  <1> TAKE u \in Threads, d \in Nat
  <1>3. /\ u # t \/ d < n =>
             (Has(<<"agenda", u, d>>, p, x)' <=> Has(<<"agenda", u, d>>, p, x))
        /\ u = t /\ d >= n =>
             (Has(<<"agenda", u, d>>, p, x)' <=>
                d - n + 1 \in 1 .. Len(entries) /\ Carries(Nth(entries, d - n + 1), p, x))
        /\ Has(<<"agenda", u, d>>, p, x) /\ u = t /\ d >= n => d = n
    BY AgendaPlaces
  <1>4. CASE u = t /\ d >= n
    <2>1. ~Has(<<"agenda", u, d>>, p, x)'
      BY <1>2, <1>3, <1>4
    <2> QED
      BY <1>3, <1>4, <2>1
  <1> QED
    BY <1>1, <1>3, <1>4

\* The places of other agendas, of on_ready and of the queues, where nothing happens.
LEMMA OtherPlaces ==
  ASSUME UNCHANGED <<kind, sources>>, NEW p, NEW x
  PROVE  /\ on_ready' = on_ready => \A g \in Futures, i \in Nat :
              Has(<<"ready", g, i>>, p, x)' <=> Has(<<"ready", g, i>>, p, x)
         /\ queue' = queue => \A e \in Queued :
              Has(<<"queue", e>>, p, x)' <=> Has(<<"queue", e>>, p, x)
  BY DEF Has, Carries, Origin, ParentOf

\* The three sorts of place.
LEMMA PlaceForms ==
  ASSUME NEW a \in Places
  PROVE  \/ \E u \in Threads, d \in Nat : a = <<"agenda", u, d>>
         \/ \E g \in Futures, i \in Nat : a = <<"ready", g, i>>
         \/ \E e \in Queued : a = <<"queue", e>>
  BY DEF Places

\* The head gives way to entries that carry nothing: what it carried is gone.
LEMMA TokenSpent ==
  ASSUME FutureTypes, OneToken, NEW t \in Threads, agenda[t] # <<>>,
         NEW entries \in Seq(Entries), Proceed(t, entries),
         UNCHANGED <<queue, on_ready, kind, sources>>,
         \A e \in ToSet(entries) : e[1] \in {"return", "body", "release", "unlock", "reprioritise"}
  PROVE  /\ OneToken'
         /\ \A p, x : Token(p, x)' <=> Token(p, x) /\ ~Carries(Head(agenda[t]), p, x)
  <1> DEFINE n == Len(agenda[t])
             top == <<"agenda", t, n>>
  <1>0. top \in Places
    BY ProceedFacts DEF Places
  <1>1. \A p, x : \A e \in ToSet(entries) : ~Carries(e, p, x)
    BY DEF Carries
  <1>2. ASSUME NEW p, NEW x, NEW a \in Places
        PROVE  Has(a, p, x)' <=> Has(a, p, x) /\ a # top
    <2>1. CASE \E u \in Threads, d \in Nat : a = <<"agenda", u, d>>
      <3>1. PICK u \in Threads, d \in Nat : a = <<"agenda", u, d>>
        BY <2>1
      <3>2. Has(a, p, x)' <=> Has(a, p, x) /\ ~(u = t /\ d = n)
        BY <1>1, <3>1, AgendaSpent
      <3> QED
        BY <3>1, <3>2
    <2>2. CASE \E g \in Futures, i \in Nat : a = <<"ready", g, i>>
      BY <2>2, OtherPlaces
    <2>3. CASE \E e \in Queued : a = <<"queue", e>>
      BY <2>3, OtherPlaces
    <2> QED
      BY <2>1, <2>2, <2>3, PlaceForms
  <1>3. \A p, x : Has(top, p, x) <=> Carries(Head(agenda[t]), p, x)
    BY AgendaPlaces
  <1> HIDE DEF top
  <1>4. OneToken'
    BY <1>2 DEF OneToken, Places
  <1>5. ASSUME NEW p, NEW x
        PROVE  Token(p, x)' <=> Token(p, x) /\ ~Carries(Head(agenda[t]), p, x)
    <2>1. Token(p, x)' <=> \E a \in Places : Has(a, p, x) /\ a # top
      BY <1>2 DEF Token, Places
    <2> QED
      BY <1>0, <1>3, <2>1 DEF Token, OneToken
  <1> QED
    BY <1>4, <1>5

\* The head gives way to an entry that carries the same.
LEMMA TokenKept ==
  ASSUME FutureTypes, OneToken, NEW t \in Threads, agenda[t] # <<>>,
         NEW entry \in Entries, Proceed(t, <<entry>>),
         UNCHANGED <<queue, on_ready, kind, sources>>,
         \A p, x : Carries(entry, p, x) <=> Carries(Head(agenda[t]), p, x)
  PROVE  OneToken' /\ \A p, x : Token(p, x)' <=> Token(p, x)
  <1> DEFINE n == Len(agenda[t])
             entries == <<entry>>
  <1>1. entries \in Seq(Entries) /\ Len(entries) = 1 /\ Nth(entries, 1) = entry
    BY DEF Nth
  <1>2. n \in Nat \ {0}
    BY <1>1, ProceedFacts
  <1> HIDE DEF entries
  <1>3. ASSUME NEW p, NEW x, NEW a \in Places
        PROVE  Has(a, p, x)' <=> Has(a, p, x)
    <2>1. CASE \E u \in Threads, d \in Nat : a = <<"agenda", u, d>>
      <3>1. PICK u \in Threads, d \in Nat : a = <<"agenda", u, d>>
        BY <2>1
      <3>2. Proceed(t, entries)
        BY DEF entries
      <3>3. /\ u # t \/ d < n => (Has(a, p, x)' <=> Has(a, p, x))
            /\ Has(a, p, x) /\ u = t /\ d >= n => d = n
            /\ Has(<<"agenda", t, n>>, p, x) <=> Carries(Head(agenda[t]), p, x)
            /\ u = t /\ d >= n =>
                 (Has(a, p, x)' <=>
                    d - n + 1 \in 1 .. Len(entries) /\ Carries(Nth(entries, d - n + 1), p, x))
        BY <1>1, <3>1, <3>2, AgendaPlaces
      <3>4. CASE u = t /\ d = n
        <4>1. d - n + 1 = 1
          BY <1>2, <3>4
        <4> QED
          BY <1>1, <1>2, <3>1, <3>3, <3>4, <4>1
      <3>5. CASE u = t /\ d > n
        <4>1. d - n + 1 \notin 1 .. Len(entries)
          BY <1>1, <1>2, <3>5
        <4>2. d >= n /\ d # n
          BY <1>2, <3>5
        <4>3. ~Has(a, p, x)' /\ ~Has(a, p, x)
          BY <3>3, <3>5, <4>1, <4>2
        <4> QED
          BY <4>3
      <3> QED
        BY <1>2, <3>3, <3>4, <3>5
    <2>2. CASE \E g \in Futures, i \in Nat : a = <<"ready", g, i>>
      BY <2>2, OtherPlaces
    <2>3. CASE \E e \in Queued : a = <<"queue", e>>
      BY <2>3, OtherPlaces
    <2> QED
      BY <2>1, <2>2, <2>3, PlaceForms
  <1> QED
    BY <1>3 DEF OneToken, Token, Places

\* One token moves from one place to another.
LEMMA TokenMoved ==
  ASSUME OneToken, NEW from \in Places, NEW to \in Places, NEW p0, NEW x0, Has(from, p0, x0),
         \A p, x : \A a \in Places :
           Has(a, p, x)' <=> \/ Has(a, p, x) /\ ~(a = from /\ p = p0 /\ x = x0)
                             \/ a = to /\ p = p0 /\ x = x0
  PROVE  OneToken' /\ \A p, x : Token(p, x)' <=> Token(p, x)
  <1>1. ASSUME NEW p, NEW x, NEW a \in Places, NEW b \in Places, Has(a, p, x)', Has(b, p, x)'
        PROVE  a = b
    <2>1. CASE p = p0 /\ x = x0
      <3>1. a = to
        BY <1>1, <2>1 DEF OneToken
      <3>2. b = to
        BY <1>1, <2>1 DEF OneToken
      <3> QED
        BY <3>1, <3>2
    <2>2. CASE ~(p = p0 /\ x = x0)
      BY <1>1, <2>2 DEF OneToken
    <2> QED
      BY <2>1, <2>2
  <1>2. OneToken'
    BY <1>1 DEF OneToken, Places
  <1>3. ASSUME NEW p, NEW x
        PROVE  Token(p, x)' <=> Token(p, x)
    <2>1. CASE p = p0 /\ x = x0
      <3>1. Token(p, x) /\ Has(to, p, x)'
        BY <2>1 DEF Token
      <3> QED
        BY <3>1 DEF Token, Places
    <2>2. CASE ~(p = p0 /\ x = x0)
      BY <2>2 DEF Token, Places
    <2> QED
      BY <2>1, <2>2
  <1> QED
    BY <1>2, <1>3

\* The callback that follower x registers with g is the token of x because of g.
LEMMA CallbackCarries ==
  ASSUME FutureTypes, Lineage, NEW g, NEW x, Follows(x, g)
  PROVE  /\ CallbackOf(g, x) \in Entries /\ x \in Futures /\ g \in Futures
         /\ \A p, y : Carries(CallbackOf(g, x), p, y) <=> p = g /\ y = x
  <1>1. x \in Futures /\ g \in Futures
    BY FutureAssumption DEF FutureTypes, Follows, Futures, Created
  <1>2. CallbackOf(g, x) \in Entries
    BY <1>1 DEF CallbackOf, Entries, Futures
  <1>3. CASE kind[x] = "combine"
    BY <1>1, <1>2, <1>3 DEF CallbackOf, Carries
  <1>4. CASE kind[x] \in Continuations
    <2>1. g = Origin(x) /\ kind[x] # "combine"
      BY <1>4 DEF Lineage, Follows, Origin, Continuations
    <2> QED
      BY <1>1, <1>2, <2>1 DEF CallbackOf, Carries
  <1> QED
    BY <1>3, <1>4 DEF Follows

\* AttachPending moves a token from the head of an agenda to the end of on_ready.
LEMMA TokenRegistered ==
  ASSUME FutureTypes, Lineage, AgendasLegal, OneToken, NEW t \in Threads, AttachPending(t)
  PROVE  OneToken' /\ \A p, x : Token(p, x)' <=> Token(p, x)
  <1> DEFINE n == Len(agenda[t])
             g == Subject(t)
             x0 == Argument(t)
             m == Len(on_ready[g]) + 1
             from == <<"agenda", t, n>>
             to == <<"ready", g, m>>
  <1>1. /\ agenda[t] # <<>> /\ Head(agenda[t])[1] = "attach" /\ Proceed(t, <<>>)
        /\ on_ready' = [on_ready EXCEPT ![g] = Append(@, CallbackOf(g, x0))]
        /\ UNCHANGED <<queue, kind, sources>>
    BY DEF AttachPending, Doing, executorVars
  <1>2. Follows(x0, g)
    <2>1. <<>> \in Seq(Entries)
      OBVIOUS
    <2>2. Head(agenda[t]) \in Posted
      BY <1>1, <2>1, PostedAfter
    <2> QED
      BY <1>1, <2>2 DEF AgendasLegal, Legal, Subject, Argument
  <1>3. /\ CallbackOf(g, x0) \in Entries /\ g \in Futures
        /\ \A p, y : Carries(CallbackOf(g, x0), p, y) <=> p = g /\ y = x0
    BY <1>2, CallbackCarries
  <1>4. \A p, x : Carries(Head(agenda[t]), p, x) <=> p = g /\ x = x0
    BY <1>1 DEF Carries, Subject, Argument
  <1>5. /\ on_ready[g] \in Seq(Entries) /\ m \in Nat \ {0} /\ g \in Futures
        /\ DOMAIN on_ready[g] = 1 .. m - 1
        /\ DOMAIN on_ready'[g] = 1 .. m
        /\ \A i \in 1 .. m - 1 : on_ready'[g][i] = on_ready[g][i]
        /\ on_ready'[g][m] = CallbackOf(g, x0)
        /\ \A h \in Futures \ {g} : on_ready'[h] = on_ready[h]
    <2> HIDE DEF g, x0
    <2>1. on_ready[g] \in Seq(Entries)
      BY <1>3 DEF FutureTypes
    <2>2. on_ready'[g] = Append(on_ready[g], CallbackOf(g, x0))
      BY <1>1, <1>3 DEF FutureTypes
    <2>3. \A h \in Futures \ {g} : on_ready'[h] = on_ready[h]
      BY <1>1, <1>3 DEF FutureTypes
    <2> QED
      BY <1>3, <2>1, <2>2, <2>3
  <1>6. n \in Nat \ {0} /\ <<>> \in Seq(Entries) /\ ToSet(<<>>) = {}
    BY <1>1, ProceedFacts DEF ToSet
  <1>7. from \in Places /\ to \in Places
    BY <1>5, <1>6 DEF Places
  <1> HIDE DEF n, m, g, x0
  <1>8. ASSUME NEW p, NEW x, NEW a \in Places
        PROVE  Has(a, p, x)' <=> \/ Has(a, p, x) /\ ~(a = from /\ p = g /\ x = x0)
                                 \/ a = to /\ p = g /\ x = x0
    <2>1. CASE \E u \in Threads, d \in Nat : a = <<"agenda", u, d>>
      <3>1. PICK u \in Threads, d \in Nat : a = <<"agenda", u, d>>
        BY <2>1
      <3>2. Has(a, p, x)' <=> Has(a, p, x) /\ ~(u = t /\ d = n)
        BY <1>1, <1>6, <3>1, AgendaSpent DEF n
      <3>3. (a = from <=> u = t /\ d = n) /\ a # to
        BY <3>1
      <3>4. Has(from, p, x) <=> p = g /\ x = x0
        BY <1>1, <1>4, <1>6, AgendaPlaces DEF n
      <3> QED
        BY <3>2, <3>3, <3>4
    <2>2. CASE \E h \in Futures, i \in Nat : a = <<"ready", h, i>>
      <3>1. PICK h \in Futures, i \in Nat : a = <<"ready", h, i>>
        BY <2>2
      <3>2. /\ Has(a, p, x) <=> i \in DOMAIN on_ready[h] /\ Carries(on_ready[h][i], p, x)
            /\ Has(a, p, x)' <=> i \in DOMAIN on_ready'[h] /\ Carries(on_ready'[h][i], p, x)
        BY <1>1, <3>1 DEF Has, Carries, Origin, ParentOf
      <3>3. (a = to <=> h = g /\ i = m) /\ a # from
        BY <3>1
      <3>4. CASE h = g
        <4>1. i \in 1 .. m <=> i \in 1 .. m - 1 \/ i = m
          BY <1>5
        <4>2. m \notin 1 .. m - 1
          BY <1>5
        <4> QED
          BY <1>3, <1>5, <3>2, <3>3, <3>4, <4>1, <4>2
      <3>5. CASE h # g
        BY <1>5, <3>2, <3>3, <3>5
      <3> QED
        BY <3>4, <3>5
    <2>3. CASE \E e \in Queued : a = <<"queue", e>>
      BY <1>1, <2>3, OtherPlaces
    <2> QED
      BY <2>1, <2>2, <2>3, PlaceForms
  <1>9. Has(from, g, x0)
    BY <1>1, <1>4, <1>6, AgendaPlaces DEF n
  <1> QED
    BY <1>7, <1>8, <1>9, TokenMoved

\* A continuation has one parent, older than itself.
LEMMA ParentFacts ==
  ASSUME FutureTypes, Lineage, NEW f \in Futures, kind[f] \in Continuations
  PROVE  /\ f \in Created /\ ParentOf(f) \in Created /\ ParentOf(f) \in Futures
         /\ sources[f] = {ParentOf(f)} /\ ParentOf(f) # f
  <1>1. f \in Created
    BY DEF Lineage, Continuations
  <1>2. sources[f] = {ParentOf(f)} /\ sources[f] \subseteq 1 .. f - 1
    BY <1>1 DEF Lineage
  <1>3. ParentOf(f) \in 1 .. f - 1
    BY <1>2
  <1> QED
    BY <1>1, <1>2, <1>3, FutureAssumption DEF FutureTypes, Futures, Created

\* The arguments that entries have.
LEMMA EntryForms ==
  ASSUME NEW e \in Entries
  PROVE  /\ e[1] = "push" => e[2] \in Futures /\ e[3] \in Queued
         /\ e[1] \in {"attach", "arrive"} => e[2] \in Futures /\ e[3] \in Futures
         /\ e[1] = "return" => e[2] \in Futures /\ e[3] \in Results
         /\ e[1] \in {"submit", "run", "body", "priority", "release", "unlock"} =>
              e[2] \in 0 .. MaxFutures
         /\ e[1] = "reprioritise" => e[2] \in Futures
  BY DEF Entries

\* PushTask moves a token from the head of an agenda to a queue.
LEMMA TokenQueued ==
  ASSUME FutureTypes, OneToken, NEW t \in Threads, PushTask(t)
  PROVE  OneToken' /\ \A p, x : Token(p, x)' <=> Token(p, x)
  <1> DEFINE n == Len(agenda[t])
             f == Subject(t)
             e0 == Argument(t)
             from == <<"agenda", t, n>>
             to == <<"queue", e0>>
  <1>1. /\ agenda[t] # <<>> /\ Head(agenda[t])[1] = "push" /\ Proceed(t, <<>>)
        /\ queue' = [queue EXCEPT ![e0] = @ \cup {f}]
        /\ UNCHANGED <<on_ready, kind, sources>>
    BY DEF PushTask, Doing, Continue, Push
  <1>2. /\ n \in Nat \ {0} /\ Head(agenda[t]) \in Entries
        /\ <<>> \in Seq(Entries) /\ ToSet(<<>>) = {}
    <2>1. <<>> \in Seq(Entries)
      OBVIOUS
    <2>2. ToSet(<<>>) = {}
      BY DEF ToSet
    <2> QED
      BY <1>1, <2>1, <2>2, ProceedFacts
  <1>3. e0 \in Queued
    BY <1>1, <1>2, EntryForms DEF Argument
  <1>4. \A p, x : Carries(Head(agenda[t]), p, x) <=> p = Origin(f) /\ x = f
    BY <1>1 DEF Carries, Subject
  <1>5. from \in Places /\ to \in Places
    BY <1>2, <1>3 DEF Places
  <1>6. /\ queue'[e0] = queue[e0] \cup {f}
        /\ \A e \in Queued \ {e0} : queue'[e] = queue[e]
    BY <1>1, <1>3 DEF FutureTypes
  <1> HIDE DEF n, f, e0
  <1>7. ASSUME NEW p, NEW x, NEW a \in Places
        PROVE  Has(a, p, x)' <=> \/ Has(a, p, x) /\ ~(a = from /\ p = Origin(f) /\ x = f)
                                 \/ a = to /\ p = Origin(f) /\ x = f
    <2>1. CASE \E u \in Threads, d \in Nat : a = <<"agenda", u, d>>
      <3>1. PICK u \in Threads, d \in Nat : a = <<"agenda", u, d>>
        BY <2>1
      <3>2. Has(a, p, x)' <=> Has(a, p, x) /\ ~(u = t /\ d = n)
        BY <1>1, <1>2, <3>1, AgendaSpent DEF n
      <3>3. (a = from <=> u = t /\ d = n) /\ a # to
        BY <3>1
      <3>4. Has(from, p, x) <=> p = Origin(f) /\ x = f
        BY <1>1, <1>2, <1>4, AgendaPlaces DEF n
      <3> QED
        BY <3>2, <3>3, <3>4
    <2>2. CASE \E h \in Futures, i \in Nat : a = <<"ready", h, i>>
      BY <1>1, <2>2, OtherPlaces
    <2>3. CASE \E e \in Queued : a = <<"queue", e>>
      <3>1. PICK e \in Queued : a = <<"queue", e>>
        BY <2>3
      <3>2. /\ Has(a, p, x) <=> x \in queue[e] /\ p = Origin(x)
            /\ Has(a, p, x)' <=> x \in queue'[e] /\ p = Origin(x)
        BY <1>1, <3>1 DEF Has, Origin, ParentOf
      <3>3. (a = to <=> e = e0) /\ a # from
        BY <3>1
      <3> QED
        BY <1>6, <3>2, <3>3
    <2> QED
      BY <2>1, <2>2, <2>3, PlaceForms
  <1>8. Has(from, Origin(f), f)
    BY <1>1, <1>2, <1>4, AgendaPlaces DEF n
  <1> QED
    BY <1>5, <1>7, <1>8, TokenMoved

\* What entry e carries after a step.
CarriesNext(e, p, x) ==
  \/ e[1] \in {"attach", "arrive"} /\ e[2] = p /\ e[3] = x
  \/ e[1] \in {"submit", "push", "run"} /\ e[2] = x /\ p = Origin(x)'

\* The places of the agenda of a thread that was idle.
LEMMA CallPlaces ==
  ASSUME FutureTypes, NEW t \in Threads, agenda[t] = <<>>,
         NEW entries \in Seq(Entries), agenda' = [agenda EXCEPT ![t] = entries],
         NEW p, NEW x
  PROVE  /\ \A u \in Threads, d \in Nat :
              /\ Has(<<"agenda", u, d>>, p, x) <=>
                   u # t /\ d \in 1 .. Len(agenda[u]) /\ Carries(Nth(agenda[u], d), p, x)
              /\ u # t => (Has(<<"agenda", u, d>>, p, x)' <=>
                   d \in 1 .. Len(agenda[u]) /\ CarriesNext(Nth(agenda[u], d), p, x))
         /\ \A d \in Nat : Has(<<"agenda", t, d>>, p, x)' <=>
              d \in 1 .. Len(entries) /\ CarriesNext(Nth(entries, d), p, x)
  <1>1. /\ agenda'[t] = entries /\ \A u \in Threads \ {t} : agenda'[u] = agenda[u]
    BY CallFacts
  <1>2. ASSUME NEW u \in Threads, NEW d \in Nat
        PROVE  /\ Has(<<"agenda", u, d>>, p, x) <=>
                    d \in 1 .. Len(agenda[u]) /\ Carries(Nth(agenda[u], d), p, x)
               /\ Has(<<"agenda", u, d>>, p, x)' <=>
                    d \in 1 .. Len(agenda'[u]) /\ CarriesNext(Nth(agenda'[u], d), p, x)
    BY DEF Has, Carries, CarriesNext
  <1>3. \A d \in Nat : d \notin 1 .. Len(agenda[t])
    <2>1. Len(<<>>) = 0
      OBVIOUS
    <2> QED
      BY <2>1
  <1> QED
    BY <1>1, <1>2, <1>3

\* Take moves a token from a queue to an agenda.
LEMMA TokenTaken ==
  ASSUME FutureTypes, OneToken, NEW t \in Threads, NEW f \in Created, Take(t, f)
  PROVE  OneToken' /\ \A p, x : Token(p, x)' <=> Token(p, x)
  <1> DEFINE e0 == IF t \in Workers THEN "background" ELSE "foreground"
             from == <<"queue", e0>>
             to == <<"agenda", t, 1>>
             entries == << <<"run", f>> >>
  <1>1. /\ agenda[t] = <<>> /\ agenda' = [agenda EXCEPT ![t] = entries]
        /\ f \in queue[e0] /\ queue' = [queue EXCEPT ![e0] = @ \ {f}]
        /\ UNCHANGED <<on_ready, kind, sources>>
    BY DEF Take, Pop
  <1>2. e0 \in Queued
    BY DEF Queued
  <1>3. /\ entries \in Seq(Entries) /\ Len(entries) = 1 /\ Nth(entries, 1) = <<"run", f>>
    <2>1. <<"run", f>> \in Entries
      BY FutureAssumption DEF FutureTypes, Entries, Created
    <2> QED
      BY <2>1 DEF Nth
  <1>4. from \in Places /\ to \in Places
    BY <1>2 DEF Places
  <1>5. /\ queue'[e0] = queue[e0] \ {f}
        /\ \A e \in Queued \ {e0} : queue'[e] = queue[e]
    BY <1>1, <1>2 DEF FutureTypes
  <1> HIDE DEF e0, entries
  <1>6. ASSUME NEW p, NEW x, NEW a \in Places
        PROVE  Has(a, p, x)' <=> \/ Has(a, p, x) /\ ~(a = from /\ p = Origin(f) /\ x = f)
                                 \/ a = to /\ p = Origin(f) /\ x = f
    <2>1. CASE \E u \in Threads, d \in Nat : a = <<"agenda", u, d>>
      <3>1. PICK u \in Threads, d \in Nat : a = <<"agenda", u, d>>
        BY <2>1
      <3>2. (a = to <=> u = t /\ d = 1) /\ a # from
        BY <3>1
      <3>3. \A e : CarriesNext(e, p, x) <=> Carries(e, p, x)
        BY <1>1 DEF Carries, CarriesNext, Origin, ParentOf
      <3>4. /\ Has(a, p, x) <=>
                 u # t /\ d \in 1 .. Len(agenda[u]) /\ Carries(Nth(agenda[u], d), p, x)
            /\ u # t => (Has(a, p, x)' <=>
                 d \in 1 .. Len(agenda[u]) /\ Carries(Nth(agenda[u], d), p, x))
            /\ u = t => (Has(a, p, x)' <=>
                 d \in 1 .. Len(entries) /\ Carries(Nth(entries, d), p, x))
        BY <1>1, <1>3, <3>1, <3>3, CallPlaces
      <3>5. CASE u # t
        BY <3>2, <3>4, <3>5
      <3>6. CASE u = t
        <4>1. d \in 1 .. Len(entries) <=> d = 1
          BY <1>3
        <4>2. Carries(<<"run", f>>, p, x) <=> p = Origin(f) /\ x = f
          BY DEF Carries
        <4> QED
          BY <1>3, <3>2, <3>4, <3>6, <4>1, <4>2
      <3> QED
        BY <3>5, <3>6
    <2>2. CASE \E h \in Futures, i \in Nat : a = <<"ready", h, i>>
      BY <1>1, <2>2, OtherPlaces
    <2>3. CASE \E e \in Queued : a = <<"queue", e>>
      <3>1. PICK e \in Queued : a = <<"queue", e>>
        BY <2>3
      <3>2. /\ Has(a, p, x) <=> x \in queue[e] /\ p = Origin(x)
            /\ Has(a, p, x)' <=> x \in queue'[e] /\ p = Origin(x)
        BY <1>1, <3>1 DEF Has, Origin, ParentOf
      <3>3. (a = from <=> e = e0) /\ a # to
        BY <3>1
      <3> QED
        BY <1>5, <3>2, <3>3
    <2> QED
      BY <2>1, <2>2, <2>3, PlaceForms
  <1>7. Has(from, Origin(f), f)
    BY <1>1 DEF Has
  <1> QED
    BY <1>4, <1>6, <1>7, TokenMoved

\* A call that begins with entries that carry nothing moves no token; one that clears a queue
\* takes those in it.
LEMMA TokensOfCall ==
  ASSUME FutureTypes, OneToken, NEW t \in Threads, agenda[t] = <<>>,
         NEW entries \in Seq(Entries), agenda' = [agenda EXCEPT ![t] = entries],
         UNCHANGED <<on_ready, kind, sources>>,
         \A e \in Queued : queue'[e] \subseteq queue[e],
         \A e \in ToSet(entries) : e[1] \in {"return", "priority", "release", "unlock"}
  PROVE  /\ OneToken'
         /\ \A p, x : Token(p, x)' => Token(p, x)
         /\ \A p, x : Token(p, x) =>
              Token(p, x)' \/ \E e \in Queued : x \in queue[e] \ queue'[e]
  <1>1. ASSUME NEW d \in 1 .. Len(entries), NEW p, NEW x
        PROVE  ~CarriesNext(Nth(entries, d), p, x)
    <2>1. Len(entries) + 1 - d \in DOMAIN entries
      OBVIOUS
    <2>2. Nth(entries, d) \in ToSet(entries)
      BY <2>1 DEF Nth, ToSet
    <2> QED
      BY <2>2 DEF CarriesNext
  <1>2. ASSUME NEW p, NEW x, NEW a \in Places
        PROVE  /\ Has(a, p, x)' => Has(a, p, x)
               /\ Has(a, p, x) => \/ Has(a, p, x)'
                                  \/ \E e \in Queued : x \in queue[e] \ queue'[e]
    <2>1. CASE \E u \in Threads, d \in Nat : a = <<"agenda", u, d>>
      <3>1. PICK u \in Threads, d \in Nat : a = <<"agenda", u, d>>
        BY <2>1
      <3>2. \A e : CarriesNext(e, p, x) <=> Carries(e, p, x)
        BY DEF Carries, CarriesNext, Origin, ParentOf
      <3>3. /\ Has(a, p, x) <=>
                 u # t /\ d \in 1 .. Len(agenda[u]) /\ Carries(Nth(agenda[u], d), p, x)
            /\ u # t => (Has(a, p, x)' <=>
                 d \in 1 .. Len(agenda[u]) /\ Carries(Nth(agenda[u], d), p, x))
            /\ u = t => (Has(a, p, x)' <=>
                 d \in 1 .. Len(entries) /\ CarriesNext(Nth(entries, d), p, x))
        BY <3>1, <3>2, CallPlaces
      <3> QED
        BY <1>1, <3>3
    <2>2. CASE \E h \in Futures, i \in Nat : a = <<"ready", h, i>>
      BY <2>2, OtherPlaces
    <2>3. CASE \E e \in Queued : a = <<"queue", e>>
      <3>1. PICK e \in Queued : a = <<"queue", e>>
        BY <2>3
      <3>2. /\ Has(a, p, x) <=> x \in queue[e] /\ p = Origin(x)
            /\ Has(a, p, x)' <=> x \in queue'[e] /\ p = Origin(x)
        BY <3>1 DEF Has, Origin, ParentOf
      <3> QED
        BY <3>2
    <2> QED
      BY <2>1, <2>2, <2>3, PlaceForms
  <1>3. OneToken'
    BY <1>2 DEF OneToken, Places
  <1> QED
    BY <1>2, <1>3 DEF Token, Places

\* Tokens move from places to places, each to one of its own.
LEMMA TokensRelabelled ==
  ASSUME OneToken, NEW From \in [Places -> Places],
         \A p, x : \A a \in Places : Has(a, p, x)' => Has(From[a], p, x),
         \A p, x : \A a, b \in Places :
           Has(a, p, x)' /\ Has(b, p, x)' /\ From[a] = From[b] => a = b,
         \A p, x : \A a \in Places : Has(a, p, x) => \E b \in Places : Has(b, p, x)'
  PROVE  OneToken' /\ \A p, x : Token(p, x)' <=> Token(p, x)
  <1>1. ASSUME NEW p, NEW x, NEW a \in Places, NEW b \in Places, Has(a, p, x)', Has(b, p, x)'
        PROVE  a = b
    <2>1. Has(From[a], p, x) /\ Has(From[b], p, x)
      BY <1>1
    <2>2. From[a] = From[b]
      BY <2>1 DEF OneToken
    <2> QED
      BY <1>1, <2>2
  <1>2. OneToken'
    BY <1>1 DEF OneToken, Places
  <1>3. \A p, x : Token(p, x)' <=> Token(p, x)
    BY DEF Token, Places
  <1> QED
    BY <1>2, <1>3

\* Return calls back whatever was registered.
LEMMA TokensReturned ==
  ASSUME FutureTypes, Lineage, OneToken, NEW t \in Threads, Return(t)
  PROVE  OneToken' /\ \A p, x : Token(p, x)' <=> Token(p, x)
  <1> DEFINE n == Len(agenda[t])
             f == Subject(t)
             calls == on_ready[f]
             m == Len(calls)
             locks == kind[f] \in Continuations /\ ~Ready(ParentOf(f))
             first == IF locks THEN << <<"release", ParentOf(f)>>, <<"unlock", f>> >> ELSE <<>>
             entries == first \o calls
             New(a) == a[1] = "agenda" /\ a[2] = t /\ a[3] \in n .. n + m - 1
             From == [a \in Places |-> IF New(a) THEN <<"ready", f, m + n - a[3]>> ELSE a]
  <1>1. /\ agenda[t] # <<>> /\ Head(agenda[t])[1] = "return" /\ Proceed(t, entries)
        /\ on_ready' = [on_ready EXCEPT ![f] = <<>>]
        /\ UNCHANGED <<queue, kind, sources>>
    BY DEF Return, Doing, executorVars
  <1>2. Head(agenda[t]) \in Entries
    BY <1>1, TailFacts DEF FutureTypes
  <1>3. f \in Futures
    BY <1>1, <1>2, EntryForms DEF Subject
  <1>4. calls \in Seq(Entries) /\ m \in Nat
    BY <1>3 DEF FutureTypes
  <1>5. first \in Seq(Entries)
    <2>1. CASE locks
      <3>1. f \in 0 .. MaxFutures /\ ParentOf(f) \in 0 .. MaxFutures
        BY <1>3, <2>1, ParentFacts, FutureAssumption DEF Futures
      <3>2. <<"release", ParentOf(f)>> \in Entries /\ <<"unlock", f>> \in Entries
        BY <3>1 DEF Entries
      <3> QED
        BY <2>1, <3>2
    <2>2. CASE ~locks
      BY <2>2
    <2> QED
      BY <2>1, <2>2
  <1>6. \A k \in 1 .. Len(first) : \A p, x : ~CarriesNext(Nth(first, k), p, x)
    <2> SUFFICES ASSUME NEW k \in 1 .. Len(first), NEW p, NEW x
                 PROVE  ~CarriesNext(Nth(first, k), p, x)
      OBVIOUS
    <2>1. CASE locks
      <3>1. first = << <<"release", ParentOf(f)>>, <<"unlock", f>> >> /\ Len(first) = 2
        BY <2>1
      <3>2. k = 1 \/ k = 2
        BY <3>1
      <3> QED
        BY <3>1, <3>2 DEF Nth, CarriesNext
    <2>2. CASE ~locks
      <3>1. Len(first) = 0
        BY <2>2
      <3> QED
        BY <3>1
    <2> QED
      BY <2>1, <2>2
  <1>7. Len(first) \in Nat
    BY <1>5
  <1> HIDE DEF first, calls, f, locks
  <1>8. /\ entries \in Seq(Entries) /\ Len(entries) = Len(first) + m
        /\ \A k \in 1 .. m : Nth(entries, k) = Nth(calls, k)
        /\ \A k \in m + 1 .. Len(first) + m : Nth(entries, k) = Nth(first, k - m)
    <2>1. first \in Seq(Entries) /\ calls \in Seq(Entries)
      BY <1>4, <1>5
    <2> HIDE DEF m
    <2>2. /\ entries \in Seq(Entries) /\ Len(entries) = Len(first) + Len(calls)
          /\ \A k \in 1 .. Len(calls) : Nth(entries, k) = Nth(calls, k)
          /\ \A k \in Len(calls) + 1 .. Len(first) + Len(calls) :
               Nth(entries, k) = Nth(first, k - Len(calls))
      BY <2>1, JoinFacts
    <2> QED
      BY <2>2, Zenon DEF m
  <1> HIDE DEF entries
  <1>9. n \in Nat \ {0}
    BY <1>1, <1>8, ProceedFacts
  <1> HIDE DEF n, m
  <1>10. ASSUME NEW e, NEW p, NEW x PROVE CarriesNext(e, p, x) <=> Carries(e, p, x)
    BY <1>1 DEF Carries, CarriesNext, Origin, ParentOf
  <1>11. ASSUME NEW p, NEW x
         PROVE  /\ \A u \in Threads, d \in Nat : u # t \/ d < n =>
                     (Has(<<"agenda", u, d>>, p, x)' <=> Has(<<"agenda", u, d>>, p, x))
                /\ \A d \in Nat : d >= n => ~Has(<<"agenda", t, d>>, p, x)
                /\ \A d \in Nat : d >= n =>
                     (Has(<<"agenda", t, d>>, p, x)' <=>
                        d \in n .. n + m - 1 /\ Has(<<"ready", f, m + n - d>>, p, x))
                /\ \A g \in Futures, i \in Nat :
                     Has(<<"ready", g, i>>, p, x)' <=> g # f /\ Has(<<"ready", g, i>>, p, x)
                /\ \A i \in Nat : Has(<<"ready", f, i>>, p, x) => i \in 1 .. m
                /\ \A e \in Queued : Has(<<"queue", e>>, p, x)' <=> Has(<<"queue", e>>, p, x)
    <2>1. /\ \A u \in Threads, d \in Nat : u # t \/ d < n =>
                (Has(<<"agenda", u, d>>, p, x)' <=> Has(<<"agenda", u, d>>, p, x))
          /\ \A d \in Nat : Has(<<"agenda", t, d>>, p, x) /\ d >= n => d = n
          /\ Has(<<"agenda", t, n>>, p, x) <=> Carries(Head(agenda[t]), p, x)
          /\ \A d \in Nat : d >= n =>
               (Has(<<"agenda", t, d>>, p, x)' <=>
                  d - n + 1 \in 1 .. Len(entries) /\ Carries(Nth(entries, d - n + 1), p, x))
      BY <1>1, <1>8, AgendaPlaces DEF n
    <2>2. ~Carries(Head(agenda[t]), p, x)
      BY <1>1 DEF Carries
    <2>3. ASSUME NEW d \in Nat, d >= n
          PROVE  Has(<<"agenda", t, d>>, p, x)' <=>
                   d \in n .. n + m - 1 /\ Has(<<"ready", f, m + n - d>>, p, x)
      <3>1. CASE d \in n .. n + m - 1
        <4>1. d - n + 1 \in 1 .. m /\ d - n + 1 \in 1 .. Len(entries)
          BY <1>4, <1>7, <1>8, <1>9, <3>1
        <4>2. Has(<<"agenda", t, d>>, p, x)' <=> Carries(Nth(calls, d - n + 1), p, x)
          BY <1>8, <2>1, <2>3, <4>1
        <4>3. m + 1 - (d - n + 1) = m + n - d /\ m + n - d \in 1 .. m
          BY <1>4, <1>9, <3>1
        <4>4. Nth(calls, d - n + 1) = calls[m + n - d] /\ DOMAIN calls = 1 .. m
          BY <1>4, <4>3 DEF Nth, m
        <4>5. Has(<<"ready", f, m + n - d>>, p, x) <=> Carries(calls[m + n - d], p, x)
          BY <4>3, <4>4 DEF Has, calls
        <4> QED
          BY <3>1, <4>2, <4>4, <4>5
      <3>2. CASE d \notin n .. n + m - 1
        <4>1. ASSUME d - n + 1 \in 1 .. Len(entries) PROVE ~Carries(Nth(entries, d - n + 1), p, x)
          <5>1. /\ d - n + 1 \in m + 1 .. Len(first) + m
                /\ (d - n + 1) - m \in 1 .. Len(first)
            BY <1>4, <1>7, <1>8, <1>9, <2>3, <3>2, <4>1
          <5>2. ~Carries(Nth(first, (d - n + 1) - m), p, x)
            BY <1>6, <1>10, <5>1
          <5>3. Nth(entries, d - n + 1) = Nth(first, (d - n + 1) - m)
            <6>1. PICK k \in m + 1 .. Len(first) + m : k = d - n + 1
              BY <5>1
            <6>2. Nth(entries, k) = Nth(first, k - m)
              BY <1>8
            <6> QED
              BY <6>1, <6>2
          <5> QED
            BY <5>2, <5>3
        <4> QED
          BY <2>1, <2>3, <3>2, <4>1
      <3> QED
        BY <3>1, <3>2
    <2>4. ASSUME NEW g \in Futures, NEW i \in Nat
          PROVE  Has(<<"ready", g, i>>, p, x)' <=> g # f /\ Has(<<"ready", g, i>>, p, x)
      <3>1. /\ Has(<<"ready", g, i>>, p, x) <=>
                 i \in DOMAIN on_ready[g] /\ Carries(on_ready[g][i], p, x)
            /\ Has(<<"ready", g, i>>, p, x)' <=>
                 i \in DOMAIN on_ready'[g] /\ CarriesNext(on_ready'[g][i], p, x)
        BY DEF Has, Carries, CarriesNext
      <3>2. /\ g # f => on_ready'[g] = on_ready[g]
            /\ g = f => on_ready'[g] = <<>>
        BY <1>1 DEF FutureTypes
      <3> QED
        BY <1>10, <3>1, <3>2
    <2>5. \A i \in Nat : Has(<<"ready", f, i>>, p, x) => i \in 1 .. m
      BY <1>4 DEF Has, calls, m
    <2>6. \A e \in Queued : Has(<<"queue", e>>, p, x)' <=> Has(<<"queue", e>>, p, x)
      BY <1>1, OtherPlaces
    <2>7. \A d \in Nat : d >= n => ~Has(<<"agenda", t, d>>, p, x)
      BY <2>1, <2>2
    <2> QED
      BY <2>1, <2>3, <2>4, <2>5, <2>6, <2>7
  <1>12. From \in [Places -> Places]
    <2>1. ASSUME NEW a \in Places, New(a) PROVE <<"ready", f, m + n - a[3]>> \in Places
      <3>1. m + n - a[3] \in Nat
        BY <1>4, <1>9, <2>1
      <3> QED
        BY <1>3, <3>1 DEF Places
    <2> QED
      BY <2>1
  <1>13. ASSUME NEW p, NEW x, NEW a \in Places, Has(a, p, x)'
         PROVE  /\ Has(From[a], p, x)
                /\ ~New(a) => \A i \in Nat : a # <<"ready", f, i>>
    <2>1. CASE \E u \in Threads, d \in Nat : a = <<"agenda", u, d>>
      <3>1. PICK u \in Threads, d \in Nat : a = <<"agenda", u, d>>
        BY <2>1
      <3>2. New(a) <=> u = t /\ d \in n .. n + m - 1
        BY <3>1
      <3>3. CASE u = t /\ d >= n
        <4>1. d \in n .. n + m - 1 /\ Has(<<"ready", f, m + n - d>>, p, x)
          BY <1>11, <1>13, <3>1, <3>3
        <4> QED
          BY <3>1, <3>2, <3>3, <4>1
      <3>4. CASE ~(u = t /\ d >= n)
        <4>1. u # t \/ d < n
          BY <1>9, <3>4
        <4>2. ~New(a)
          BY <1>9, <3>2, <4>1
        <4> QED
          BY <1>11, <1>13, <3>1, <4>1, <4>2
      <3> QED
        BY <3>3, <3>4
    <2>2. CASE \E g \in Futures, i \in Nat : a = <<"ready", g, i>>
      <3>1. PICK g \in Futures, i \in Nat : a = <<"ready", g, i>>
        BY <2>2
      <3>2. ~New(a) /\ g # f /\ Has(a, p, x)
        BY <1>11, <1>13, <3>1
      <3> QED
        BY <3>1, <3>2
    <2>3. CASE \E e \in Queued : a = <<"queue", e>>
      <3>1. ~New(a)
        BY <2>3
      <3> QED
        BY <1>11, <1>13, <2>3, <3>1
    <2> QED
      BY <2>1, <2>2, <2>3, PlaceForms
  <1>14. ASSUME NEW p, NEW x, NEW a \in Places, NEW b \in Places,
                Has(a, p, x)', Has(b, p, x)', From[a] = From[b]
         PROVE  a = b
    <2>1. ASSUME NEW c \in Places, New(c)
          PROVE  /\ c = <<"agenda", t, c[3]>> /\ c[3] \in Nat /\ m + n - c[3] \in Nat
                 /\ From[c] = <<"ready", f, m + n - c[3]>>
      <3>1. m + n - c[3] \in Nat
        BY <1>4, <1>9, <2>1
      <3>2. c = <<"agenda", t, c[3]>> /\ c[3] \in Nat
        BY <2>1 DEF Places
      <3> QED
        BY <2>1, <3>1, <3>2
    <2>2. \A c \in Places : ~New(c) => From[c] = c
      OBVIOUS
    <2> HIDE DEF From, New
    <2>3. CASE New(a) /\ New(b)
      <3>1. m + n - a[3] = m + n - b[3]
        BY <1>14, <2>1, <2>3
      <3>2. a[3] = b[3]
        BY <1>4, <1>9, <2>1, <2>3, <3>1
      <3> QED
        BY <2>1, <2>3, <3>2
    <2>4. CASE New(a) /\ ~New(b)
      BY <1>13, <1>14, <2>1, <2>2, <2>4
    <2>5. CASE ~New(a) /\ New(b)
      BY <1>13, <1>14, <2>1, <2>2, <2>5
    <2>6. CASE ~New(a) /\ ~New(b)
      BY <1>14, <2>2, <2>6
    <2> QED
      BY <2>3, <2>4, <2>5, <2>6
  <1>15. ASSUME NEW p, NEW x, NEW a \in Places, Has(a, p, x)
         PROVE  \E b \in Places : Has(b, p, x)'
    <2>1. CASE \E u \in Threads, d \in Nat : a = <<"agenda", u, d>>
      <3>1. PICK u \in Threads, d \in Nat : a = <<"agenda", u, d>>
        BY <2>1
      <3>2. u # t \/ d < n
        BY <1>9, <1>11, <1>15, <3>1
      <3> QED
        BY <1>11, <1>15, <3>1, <3>2
    <2>2. CASE \E g \in Futures, i \in Nat : a = <<"ready", g, i>>
      <3>1. PICK g \in Futures, i \in Nat : a = <<"ready", g, i>>
        BY <2>2
      <3>2. CASE g = f
        <4>1. i \in 1 .. m
          BY <1>11, <1>15, <3>1, <3>2
        <4>0. m + n - i \in Nat
          BY <1>4, <1>9, <4>1
        <4> PICK d \in Nat : d = m + n - i
          BY <4>0
        <4>2. d \in Nat /\ d >= n /\ d \in n .. n + m - 1 /\ m + n - d = i
          BY <1>4, <1>9, <4>1
        <4>3. Has(<<"ready", f, m + n - d>>, p, x)
          BY <1>15, <3>1, <3>2, <4>2
        <4>4. Has(<<"agenda", t, d>>, p, x)'
          BY <1>11, <4>2, <4>3
        <4>5. <<"agenda", t, d>> \in Places
          BY <4>2 DEF Places
        <4> QED
          BY <4>4, <4>5
      <3>3. CASE g # f
        BY <1>11, <1>15, <3>1, <3>3
      <3> QED
        BY <3>2, <3>3
    <2>3. CASE \E e \in Queued : a = <<"queue", e>>
      BY <1>11, <1>15, <2>3
    <2> QED
      BY <2>1, <2>2, <2>3, PlaceForms
  <1> HIDE DEF From, New
  <1> QED
    BY <1>12, <1>13, <1>14, <1>15, TokensRelabelled

\* What a legal entry carries is the token of a follower, or of a callable.
LEMMA CarriesSense ==
  ASSUME FutureTypes, Lineage, NEW e, Legal(e), NEW p, NEW x, Carries(e, p, x)
  PROVE  /\ x \in Created /\ kind[x] \in Callables \cup {"combine"}
         /\ kind[x] \in Callables => p = Origin(x)
         /\ kind[x] \in Continuations \cup {"combine"} => p \in sources[x]
  <1>1. x \in Created => x \in Futures
    BY FutureAssumption DEF FutureTypes, Created, Futures
  <1>2. CASE e[1] \in {"attach", "arrive"}
    <2>1. Follows(x, p)
      BY <1>2 DEF Legal, Carries
    <2>2. kind[x] \in Continuations => p = Origin(x)
      BY <1>1, <2>1, ParentFacts DEF Follows, Origin
    <2>3. kind[x] # "schedule"
      BY <2>1 DEF Follows, Continuations
    <2> QED
      BY <2>1, <2>2, <2>3 DEF Follows, Callables
  <1>3. CASE e[1] \in {"submit", "push", "run"}
    <2>1. MayCall(x) /\ p = Origin(x) /\ x \in Created
      BY <1>3 DEF Legal, Carries
    <2>2. kind[x] # "combine"
      BY <2>1 DEF MayCall, Callables, Continuations
    <2> QED
      BY <1>1, <2>1, <2>2, ParentFacts DEF MayCall, Origin
  <1> QED
    BY <1>2, <1>3 DEF Carries

\* A registered callback carries the token of the future it calls back, and of no other.
LEMMA AwaitedSense ==
  ASSUME FutureTypes, Lineage, NEW g, NEW e, Awaited(g, e), NEW p, NEW x, Carries(e, p, x)
  PROVE  p = g /\ Follows(x, g) /\ e = CallbackOf(g, x)
  <1>1. PICK y \in Created : Follows(y, g) /\ e = CallbackOf(g, y)
    BY DEF Awaited
  <1> QED
    BY <1>1, CallbackCarries

\* A token belongs to a future that was created, and to one of its sources.
LEMMA TokenSense ==
  ASSUME FutureTypes, Lineage, AgendasLegal, RegistrationsLegal, QueuesLegal,
         NEW p, NEW x, Token(p, x)
  PROVE  /\ x \in Created /\ x \in Futures /\ kind[x] \in Callables \cup {"combine"}
         /\ kind[x] \in Callables => p = Origin(x)
         /\ kind[x] \in Continuations \cup {"combine"} => p \in sources[x]
  <1>0. x \in Created => x \in Futures
    BY FutureAssumption DEF FutureTypes, Created, Futures
  <1>1. PICK a \in Places : Has(a, p, x)
    BY DEF Token
  <1>2. CASE \E u \in Threads, d \in Nat : a = <<"agenda", u, d>>
    <2>1. PICK u \in Threads, d \in Nat : a = <<"agenda", u, d>>
      BY <1>2
    <2>2. d \in 1 .. Len(agenda[u]) /\ Carries(Nth(agenda[u], d), p, x)
      BY <1>1, <2>1 DEF Has
    <2>3. agenda[u] \in Seq(Entries)
      BY DEF FutureTypes
    <2>4. Len(agenda[u]) + 1 - d \in DOMAIN agenda[u]
      BY <2>2, <2>3
    <2>5. Nth(agenda[u], d) \in Posted
      BY <2>4 DEF Posted, ToSet, Nth
    <2> QED
      BY <1>0, <2>2, <2>5, CarriesSense DEF AgendasLegal
  <1>3. CASE \E g \in Futures, i \in Nat : a = <<"ready", g, i>>
    <2>1. PICK g \in Futures, i \in Nat : a = <<"ready", g, i>>
      BY <1>3
    <2>2. i \in DOMAIN on_ready[g] /\ Carries(on_ready[g][i], p, x)
      BY <1>1, <2>1 DEF Has
    <2>3. Awaited(g, on_ready[g][i])
      BY <2>2 DEF RegistrationsLegal, ToSet
    <2>4. p = g /\ Follows(x, g)
      BY <2>2, <2>3, AwaitedSense
    <2>5. kind[x] \in Continuations => p = Origin(x)
      BY <1>0, <2>4, ParentFacts DEF Follows, Origin
    <2>6. kind[x] # "schedule"
      BY <2>4 DEF Follows, Continuations
    <2> QED
      BY <1>0, <2>4, <2>5, <2>6 DEF Follows, Callables
  <1>4. CASE \E e \in Queued : a = <<"queue", e>>
    <2>1. PICK e \in Queued : a = <<"queue", e>>
      BY <1>4
    <2>2. x \in queue[e] /\ p = Origin(x)
      BY <1>1, <2>1 DEF Has
    <2>3. x \in Created /\ MayCall(x) /\ kind[x] # "combine"
      BY <2>2 DEF QueuesLegal, FutureTypes
    <2> QED
      BY <1>0, <2>2, <2>3, ParentFacts DEF MayCall, Origin
  <1> QED
    BY <1>2, <1>3, <1>4, PlaceForms

\* A new future comes with tokens of its own; those of the others stay.
LEMMA TokensMade ==
  ASSUME FutureTypes, Lineage, AgendasLegal, RegistrationsLegal, QueuesLegal, OneToken,
         NEW t \in Threads, NEW how, NEW type, NEW takes_result, NEW origins, NEW state,
         NEW entries \in Seq(Entries), NEW f, f = created + 1,
         Create(t, how, type, takes_result, origins, state, entries),
         \A d \in 1 .. Len(entries) : \A p, x :
           CarriesNext(Nth(entries, d), p, x) => x = f,
         \A c, d \in 1 .. Len(entries) : \A p, x :
           CarriesNext(Nth(entries, c), p, x) /\ CarriesNext(Nth(entries, d), p, x) => c = d
  PROVE  /\ OneToken'
         /\ \A p, x : x # f => (Token(p, x)' <=> Token(p, x))
         /\ \A p : Token(p, f)' <=> \E d \in 1 .. Len(entries) : CarriesNext(Nth(entries, d), p, f)
  <1>1. /\ agenda[t] = <<>> /\ agenda' = [agenda EXCEPT ![t] = entries]
        /\ UNCHANGED <<queue, on_ready>> /\ f \in Futures /\ created \in Nat
        /\ kind' = [kind EXCEPT ![f] = how] /\ sources' = [sources EXCEPT ![f] = origins]
    BY FutureAssumption DEF Create, Idle, executorVars, FutureTypes, Futures
  <1>2. Created \subseteq Futures /\ f \notin Created
    BY <1>1, FutureAssumption DEF Created, Futures, FutureTypes
  <1>3. ASSUME NEW x \in Created PROVE Origin(x)' = Origin(x)
    <2>1. kind'[x] = kind[x] /\ sources'[x] = sources[x]
      BY <1>1, <1>2 DEF FutureTypes
    <2> QED
      BY <2>1 DEF Origin, ParentOf
  <1>4. ASSUME NEW e, Legal(e), NEW p, NEW x
        PROVE  /\ CarriesNext(e, p, x) <=> Carries(e, p, x)
               /\ CarriesNext(e, p, x) => x \in Created
    <2>1. CarriesNext(e, p, x) => x \in Created
      BY <1>4 DEF CarriesNext, Legal, Follows
    <2>2. Carries(e, p, x) => x \in Created
      BY <1>4 DEF Carries, Legal, Follows
    <2>3. x \in Created => (CarriesNext(e, p, x) <=> Carries(e, p, x))
      BY <1>3 DEF CarriesNext, Carries
    <2> QED
      BY <2>1, <2>2, <2>3
  <1>5. ASSUME NEW p, NEW x, NEW a \in Places, \A d \in Nat : a # <<"agenda", t, d>>
        PROVE  /\ Has(a, p, x)' <=> Has(a, p, x)
               /\ Has(a, p, x) => x \in Created
    <2>1. CASE \E u \in Threads, d \in Nat : a = <<"agenda", u, d>>
      <3>1. PICK u \in Threads, d \in Nat : a = <<"agenda", u, d>>
        BY <2>1
      <3>2. u # t
        BY <1>5, <3>1
      <3>3. agenda[u] \in Seq(Entries)
        BY DEF FutureTypes
      <3>4. ASSUME d \in 1 .. Len(agenda[u]) PROVE Legal(Nth(agenda[u], d))
        <4>1. Len(agenda[u]) + 1 - d \in DOMAIN agenda[u]
          BY <3>3, <3>4
        <4> QED
          BY <4>1 DEF Posted, ToSet, Nth, AgendasLegal
      <3>5. /\ Has(a, p, x) <=>
                 u # t /\ d \in 1 .. Len(agenda[u]) /\ Carries(Nth(agenda[u], d), p, x)
            /\ u # t => (Has(a, p, x)' <=>
                 d \in 1 .. Len(agenda[u]) /\ CarriesNext(Nth(agenda[u], d), p, x))
        BY <1>1, <3>1, CallPlaces
      <3> QED
        BY <1>4, <3>2, <3>4, <3>5
    <2>2. CASE \E g \in Futures, i \in Nat : a = <<"ready", g, i>>
      <3>1. PICK g \in Futures, i \in Nat : a = <<"ready", g, i>>
        BY <2>2
      <3>2. /\ Has(a, p, x) <=> i \in DOMAIN on_ready[g] /\ Carries(on_ready[g][i], p, x)
            /\ Has(a, p, x)' <=> i \in DOMAIN on_ready[g] /\ CarriesNext(on_ready[g][i], p, x)
        BY <1>1, <3>1 DEF Has, Carries, CarriesNext
      <3>3. ASSUME i \in DOMAIN on_ready[g]
            PROVE  /\ CarriesNext(on_ready[g][i], p, x) <=> Carries(on_ready[g][i], p, x)
                   /\ Carries(on_ready[g][i], p, x) => x \in Created
        <4>1. Awaited(g, on_ready[g][i])
          BY <3>3 DEF RegistrationsLegal, ToSet
        <4>2. PICK y \in Created : Follows(y, g) /\ on_ready[g][i] = CallbackOf(g, y)
          BY <4>1 DEF Awaited
        <4>3. Carries(on_ready[g][i], p, x) => x = y
          BY <4>2 DEF CallbackOf, Carries
        <4>4. CarriesNext(on_ready[g][i], p, x) => x = y
          BY <4>2 DEF CallbackOf, CarriesNext
        <4>5. Origin(y)' = Origin(y)
          BY <1>3
        <4>6. CarriesNext(on_ready[g][i], p, y) <=> Carries(on_ready[g][i], p, y)
          BY <4>5 DEF Carries, CarriesNext
        <4> QED
          BY <4>2, <4>3, <4>4, <4>6
      <3> QED
        BY <3>2, <3>3
    <2>3. CASE \E e \in Queued : a = <<"queue", e>>
      <3>1. PICK e \in Queued : a = <<"queue", e>>
        BY <2>3
      <3>2. /\ Has(a, p, x) <=> x \in queue[e] /\ p = Origin(x)
            /\ Has(a, p, x)' <=> x \in queue[e] /\ p = Origin(x)'
        BY <1>1, <3>1 DEF Has
      <3>3. queue[e] \subseteq Created
        BY DEF FutureTypes
      <3> QED
        BY <1>3, <3>2, <3>3
    <2> QED
      BY <2>1, <2>2, <2>3, PlaceForms
  <1>6. ASSUME NEW p, NEW x, NEW d \in Nat
        PROVE  /\ ~Has(<<"agenda", t, d>>, p, x)
               /\ Has(<<"agenda", t, d>>, p, x)' <=>
                    d \in 1 .. Len(entries) /\ CarriesNext(Nth(entries, d), p, x)
               /\ Has(<<"agenda", t, d>>, p, x)' => x = f
               /\ \A c \in Nat : Has(<<"agenda", t, d>>, p, x)' /\ Has(<<"agenda", t, c>>, p, x)'
                    => c = d
    <2>1. /\ \A c \in Nat : Has(<<"agenda", t, c>>, p, x)' <=>
               c \in 1 .. Len(entries) /\ CarriesNext(Nth(entries, c), p, x)
          /\ ~Has(<<"agenda", t, d>>, p, x)
      BY <1>1, CallPlaces
    <2> QED
      BY <2>1
  <1>7. ASSUME NEW p, NEW x, NEW a \in Places, NEW b \in Places, Has(a, p, x)', Has(b, p, x)'
        PROVE  a = b
    <2>1. CASE x = f
      <3>1. PICK c \in Nat : a = <<"agenda", t, c>>
        BY <1>2, <1>5, <1>7, <2>1
      <3>2. PICK d \in Nat : b = <<"agenda", t, d>>
        BY <1>2, <1>5, <1>7, <2>1
      <3>3. Has(<<"agenda", t, d>>, p, x)' /\ Has(<<"agenda", t, c>>, p, x)'
        BY <1>7, <3>1, <3>2
      <3>4. c = d
        BY <1>6, <3>3
      <3> QED
        BY <3>1, <3>2, <3>4
    <2>2. CASE x # f
      <3>1. ASSUME NEW c \in Places, Has(c, p, x)' PROVE Has(c, p, x)
        <4>1. ASSUME NEW d \in Nat PROVE c # <<"agenda", t, d>>
          <5>1. ~Has(<<"agenda", t, d>>, p, x)'
            BY <1>6, <2>2
          <5> QED
            BY <3>1, <5>1
        <4> QED
          BY <1>5, <3>1, <4>1
      <3>2. Has(a, p, x) /\ Has(b, p, x)
        BY <1>7, <3>1
      <3> QED
        BY <3>2 DEF OneToken
    <2> QED
      BY <2>1, <2>2
  <1>8. OneToken'
    BY <1>7 DEF OneToken, Places
  <1>9. ASSUME NEW p, NEW x, x # f PROVE Token(p, x)' <=> Token(p, x)
    <2>1. ASSUME NEW a \in Places PROVE Has(a, p, x)' <=> Has(a, p, x)
      <3>1. CASE \E d \in Nat : a = <<"agenda", t, d>>
        <4>1. PICK d \in Nat : a = <<"agenda", t, d>>
          BY <3>1
        <4>2. ~Has(<<"agenda", t, d>>, p, x) /\ ~Has(<<"agenda", t, d>>, p, x)'
          BY <1>6, <1>9
        <4> QED
          BY <4>1, <4>2
      <3>2. CASE \A d \in Nat : a # <<"agenda", t, d>>
        BY <1>5, <3>2
      <3> QED
        BY <3>1, <3>2
    <2> QED
      BY <2>1 DEF Token, Places
  <1>10. ASSUME NEW p
         PROVE  Token(p, f)' <=> \E d \in 1 .. Len(entries) : CarriesNext(Nth(entries, d), p, f)
    <2>1. ASSUME NEW a \in Places, Has(a, p, f)'
          PROVE  \E d \in 1 .. Len(entries) : CarriesNext(Nth(entries, d), p, f)
      <3>1. PICK d \in Nat : a = <<"agenda", t, d>>
        BY <1>2, <1>5, <2>1
      <3>2. Has(<<"agenda", t, d>>, p, f)'
        BY <2>1, <3>1
      <3> QED
        BY <1>6, <3>2
    <2>2. ASSUME NEW d \in 1 .. Len(entries), CarriesNext(Nth(entries, d), p, f)
          PROVE  \E a \in Places : Has(a, p, f)'
      <3>1. d \in Nat /\ <<"agenda", t, d>> \in Places
        BY DEF Places
      <3>2. Has(<<"agenda", t, d>>, p, f)'
        BY <1>6, <2>2, <3>1
      <3> QED
        BY <3>1, <3>2
    <2>3. Token(p, f)' <=> \E a \in Places : Has(a, p, f)'
      BY DEF Token, Places
    <2> QED
      BY <2>1, <2>2, <2>3
  <1> QED
    BY <1>8, <1>9, <1>10

-----------------------------------------------------------------------------
(* What no step takes back.                                                *)

\* The futures there are stay as they were made, and their results stay.
Steady ==
  /\ Created \subseteq Created'
  /\ \A f \in Created :
       /\ kind'[f] = kind[f] /\ accepts'[f] = accepts[f] /\ sources'[f] = sources[f]
       /\ Ready(f) => result'[f] = result[f]

\* What is legal stays legal as long as results, kinds and sources only grow.
LEMMA LegalKept ==
  ASSUME FutureTypes, Lineage, Steady
  PROVE  /\ \A x \in Created : ParentOf(x)' = ParentOf(x)
         /\ \A x \in Created : Ready(x) => Ready(x)'
         /\ \A x \in Created : MayCall(x) => MayCall(x)'
         /\ \A x \in Created : MayCall(x) /\ Permits(x) => Permits(x)'
         /\ \A x, g : Follows(x, g) => Follows(x, g)' /\ CallbackOf(g, x)' = CallbackOf(g, x)
         /\ \A e : Legal(e) => Legal(e)'
         /\ \A g, e : Awaited(g, e) => Awaited(g, e)'
  <1>1. \A x \in Created : ParentOf(x)' = ParentOf(x)
    BY DEF Steady, ParentOf
  <1>2. \A x \in Created : Ready(x) => Ready(x)' /\ result'[x] = result[x]
    BY DEF Steady, Ready
  <1>3. ASSUME NEW x \in Created, kind[x] \in Continuations
        PROVE  ParentOf(x) \in Created
    <2>1. x \in Futures
      BY FutureAssumption DEF FutureTypes, Created, Futures
    <2> QED
      BY <1>3, <2>1, ParentFacts
  <1>4. ASSUME NEW x \in Created, MayCall(x)
        PROVE  /\ MayCall(x)'
               /\ kind[x] \in Continuations => result'[ParentOf(x)] = result[ParentOf(x)]
    <2>1. kind'[x] = kind[x] /\ ParentOf(x)' = ParentOf(x)
      BY <1>1 DEF Steady
    <2>2. CASE kind[x] \in Continuations
      <3>1. Ready(ParentOf(x)) /\ ParentOf(x) \in Created
        BY <1>3, <1>4, <2>2 DEF MayCall
      <3>2. Ready(ParentOf(x))' /\ result'[ParentOf(x)] = result[ParentOf(x)]
        BY <1>1, <1>2, <3>1 DEF Ready
      <3> QED
        BY <1>4, <2>1, <3>2 DEF MayCall, Ready
    <2>3. CASE kind[x] \notin Continuations
      BY <1>4, <2>1, <2>3 DEF MayCall
    <2> QED
      BY <2>2, <2>3
  <1>5. ASSUME NEW x \in Created, MayCall(x), Permits(x) PROVE Permits(x)'
    <2>1. kind'[x] = kind[x] /\ ParentOf(x)' = ParentOf(x) /\ accepts'[x] = accepts[x]
      BY <1>1 DEF Steady
    <2> QED
      BY <1>4, <1>5, <2>1 DEF Permits
  <1>6. ASSUME NEW x, NEW g, Follows(x, g)
        PROVE  Follows(x, g)' /\ CallbackOf(g, x)' = CallbackOf(g, x)
    BY <1>6 DEF Follows, Steady, CallbackOf
  <1>7. ASSUME NEW e, Legal(e) PROVE Legal(e)'
    <2>1. e[1] # "unlock" => e[2] \in Created /\ e[2] \in Created'
      BY <1>7 DEF Legal, Steady
    <2>2. e[1] = "attach" => Follows(e[3], e[2])'
      BY <1>6, <1>7 DEF Legal
    <2>3. ASSUME e[1] = "arrive"
          PROVE  Follows(e[3], e[2])' /\ kind'[e[3]] = "combine" /\ Ready(e[2])'
      <3>1. Follows(e[3], e[2]) /\ kind[e[3]] = "combine" /\ Ready(e[2]) /\ e[3] \in Created
        BY <1>7, <2>3 DEF Legal, Follows
      <3> QED
        BY <1>2, <1>6, <2>1, <2>3, <3>1 DEF Steady
    <2>4. e[1] \in {"submit", "push", "run", "body"} => MayCall(e[2])'
      BY <1>4, <1>7, <2>1 DEF Legal
    <2>5. e[1] = "push" => kind'[e[2]] \in {"schedule", "then"}
      BY <1>7, <2>1 DEF Legal, Steady
    <2>6. e[1] = "body" => Permits(e[2])'
      BY <1>5, <1>7, <2>1 DEF Legal
    <2> QED
      BY <2>1, <2>2, <2>3, <2>4, <2>5, <2>6 DEF Legal
  <1>8. ASSUME NEW g, NEW e, Awaited(g, e) PROVE Awaited(g, e)'
    <2>1. PICK x \in Created : Follows(x, g) /\ e = CallbackOf(g, x)
      BY <1>8 DEF Awaited
    <2>2. x \in Created' /\ Follows(x, g)' /\ e = CallbackOf(g, x)'
      BY <1>6, <2>1 DEF Steady
    <2> QED
      BY <2>2 DEF Awaited
  <1> QED
    BY <1>1, <1>2, <1>4, <1>5, <1>6, <1>7, <1>8

FutureInv ==
  /\ FutureTypes /\ Lineage
  /\ AgendasLegal /\ RegistrationsLegal /\ QueuesLegal
  /\ OneToken /\ NotYetCalled /\ CalledOnceInOrder

\* A step that leaves the number of calls alone keeps the order of the calls.
LEMMA OrderKept ==
  ASSUME FutureInv, Steady, Lineage', FutureTypes', UNCHANGED started,
         \A f \in Created' \ Created : started[f] = 0
  PROVE  CalledOnceInOrder'
  <1>1. ASSUME NEW f \in Created',
               started[f] = 1, kind'[f] \in Continuations
        PROVE  Ready(ParentOf(f))' /\ (accepts'[f] \/ result'[ParentOf(f)'] = "ok")
    <2>1. f \in Created
      BY <1>1
    <2>2. /\ kind'[f] = kind[f] /\ accepts'[f] = accepts[f] /\ ParentOf(f)' = ParentOf(f)
      BY <2>1, LegalKept DEF Steady, FutureInv
    <2>3. Ready(ParentOf(f)) /\ (accepts[f] \/ result[ParentOf(f)] = "ok")
      BY <1>1, <2>1, <2>2 DEF FutureInv, CalledOnceInOrder
    <2>4. ParentOf(f) \in Created
      <3>1. f \in Futures
        BY <2>1, FutureAssumption DEF FutureInv, FutureTypes, Created, Futures
      <3> QED
        BY <1>1, <2>2, <3>1, ParentFacts DEF FutureInv
    <2>5. result'[ParentOf(f)] = result[ParentOf(f)]
      BY <2>3, <2>4 DEF Steady
    <2> QED
      BY <2>2, <2>3, <2>5 DEF Ready
  <1>2. ASSUME NEW f \in Created' PROVE started'[f] <= 1
    <2>1. CASE f \in Created
      BY <2>1 DEF FutureInv, CalledOnceInOrder
    <2>2. CASE f \notin Created
      BY <2>2
    <2> QED
      BY <2>1, <2>2
  <1> QED
    BY <1>1, <1>2 DEF CalledOnceInOrder

\* The parts of the invariant that a step keeps when it moves the head of an agenda on
\* without making or completing a future.
LEMMA AgendasKept ==
  ASSUME FutureInv, Steady, NEW t \in Threads, NEW entries \in Seq(Entries),
         Posted' \subseteq Posted \cup ToSet(entries), \A e \in ToSet(entries) : Legal(e)'
  PROVE  AgendasLegal'
  BY LegalKept DEF AgendasLegal, FutureInv

\* The queues stay legal when they lose tasks or stay.
LEMMA QueuesKept ==
  ASSUME FutureInv, Steady, \A e \in Queued : queue'[e] \subseteq queue[e]
  PROVE  QueuesLegal'
  <1> SUFFICES ASSUME NEW e \in Queued, NEW x \in queue'[e]
               PROVE  MayCall(x)' /\ kind'[x] \in {"schedule", "then"}
    BY DEF QueuesLegal
  <1>1. x \in Created /\ MayCall(x) /\ kind[x] \in {"schedule", "then"}
    BY DEF FutureInv, FutureTypes, QueuesLegal
  <1> QED
    BY <1>1, LegalKept DEF Steady, FutureInv

\* Registrations stay legal when neither they nor their futures change.
LEMMA RegistrationsKept ==
  ASSUME FutureInv, Steady, UNCHANGED <<on_ready, result>>
  PROVE  RegistrationsLegal'
  BY LegalKept DEF RegistrationsLegal, FutureInv, Ready

\* Nothing is called, and no token comes back.
LEMMA CallsKept ==
  ASSUME FutureInv, UNCHANGED <<kind, started>>, \A p, x : Token(p, x)' => Token(p, x)
  PROVE  NotYetCalled'
  BY DEF NotYetCalled, FutureInv

-----------------------------------------------------------------------------
(* The steps of the calls.                                                 *)

\* What the steps of an agenda all leave alone.
Bystanders == <<created, kind, home, accepts, sources, handles, dropped>>

\* A step that only posts entries that carry nothing.
LEMMA StepSpends ==
  ASSUME FutureInv, NEW t \in Threads, agenda[t] # <<>>,
         NEW entries \in Seq(Entries), Proceed(t, entries),
         UNCHANGED Bystanders, UNCHANGED <<result, on_ready, queue, started>>,
         \A e \in ToSet(entries) :
           e[1] \in {"return", "body", "release", "unlock", "reprioritise"} /\ Legal(e),
         shared' \in [Futures -> Shares],
         \A f \in Futures \ Created : shared'[f] = shared[f]
  PROVE  FutureInv'
  <1> USE DEF Bystanders
  <1>1. Steady /\ Created' = Created
    BY DEF Steady, Created
  <1>2. FutureTypes'
    BY <1>1, ProceedFacts DEF FutureInv, FutureTypes
  <1>3. Lineage'
    BY <1>1 DEF FutureInv, Lineage, ParentOf
  <1>4. AgendasLegal'
    <2>1. \A e \in ToSet(entries) : Legal(e)'
      BY <1>1, LegalKept DEF FutureInv
    <2>2. Posted' \subseteq Posted \cup ToSet(entries)
      BY PostedAfter DEF FutureInv
    <2> QED
      BY <1>1, <2>1, <2>2, AgendasKept
  <1>5. RegistrationsLegal' /\ QueuesLegal'
    BY <1>1, RegistrationsKept, QueuesKept
  <1>6. OneToken' /\ \A p, x : Token(p, x)' => Token(p, x)
    BY TokenSpent DEF FutureInv
  <1>7. NotYetCalled'
    BY <1>6, CallsKept
  <1>8. CalledOnceInOrder'
    BY <1>1, <1>2, <1>3, OrderKept
  <1> QED
    BY <1>2, <1>3, <1>4, <1>5, <1>6, <1>7, <1>8 DEF FutureInv

\* A step that replaces the head by an entry that carries the same.
LEMMA StepKeeps ==
  ASSUME FutureInv, NEW t \in Threads, agenda[t] # <<>>,
         NEW entry \in Entries, Proceed(t, <<entry>>),
         UNCHANGED Bystanders, UNCHANGED <<result, on_ready, queue, started, shared>>,
         \A p, x : Carries(entry, p, x) <=> Carries(Head(agenda[t]), p, x),
         Legal(entry)
  PROVE  FutureInv' /\ \A p, x : Token(p, x)' <=> Token(p, x)
  <1> USE DEF Bystanders
  <1> DEFINE entries == <<entry>>
  <1>0. entries \in Seq(Entries) /\ ToSet(entries) = {entry} /\ Proceed(t, entries)
    BY DEF ToSet
  <1> HIDE DEF entries
  <1>1. Steady /\ Created' = Created
    BY DEF Steady, Created
  <1>2. FutureTypes'
    BY <1>0, <1>1, ProceedFacts DEF FutureInv, FutureTypes
  <1>3. Lineage'
    BY <1>1 DEF FutureInv, Lineage, ParentOf
  <1>4. AgendasLegal'
    <2>1. \A e \in ToSet(entries) : Legal(e)'
      BY <1>0, <1>1, LegalKept DEF FutureInv
    <2>2. Posted' \subseteq Posted \cup ToSet(entries)
      BY <1>0, PostedAfter DEF FutureInv
    <2> QED
      BY <1>0, <1>1, <2>1, <2>2, AgendasKept
  <1>5. RegistrationsLegal' /\ QueuesLegal'
    BY <1>1, RegistrationsKept, QueuesKept
  <1>6. OneToken' /\ \A p, x : Token(p, x)' <=> Token(p, x)
    BY TokenKept DEF FutureInv
  <1>7. NotYetCalled'
    BY <1>6, CallsKept
  <1>8. CalledOnceInOrder'
    BY <1>1, <1>2, <1>3, OrderKept
  <1> QED
    BY <1>2, <1>3, <1>4, <1>5, <1>6, <1>7, <1>8 DEF FutureInv

\* The head of an agenda is legal, and what it names.
LEMMA HeadLegal ==
  ASSUME FutureInv, NEW t \in Threads, agenda[t] # <<>>
  PROVE  /\ Head(agenda[t]) \in Entries /\ Head(agenda[t]) \in Posted /\ Legal(Head(agenda[t]))
         /\ Head(agenda[t])[1] # "unlock" => Subject(t) \in Created /\ Subject(t) \in Futures
  <1>1. <<>> \in Seq(Entries)
    OBVIOUS
  <1>2. agenda[t] \in Seq(Entries) /\ agenda[t] # <<>>
    BY DEF FutureInv, FutureTypes
  <1>3. /\ Head(agenda[t]) \in Entries
        /\ ToSet(agenda[t]) = {Head(agenda[t])} \cup ToSet(Tail(agenda[t]))
    BY <1>2, TailFacts
  <1>4. Head(agenda[t]) \in Posted
    BY <1>3 DEF Posted
  <1>5. Legal(Head(agenda[t]))
    BY <1>4 DEF FutureInv, AgendasLegal
  <1>6. Created \subseteq Futures
    BY FutureAssumption DEF FutureInv, FutureTypes, Created, Futures
  <1> QED
    BY <1>3, <1>4, <1>5, <1>6 DEF Legal, Subject

\* OnReady with the result there: the callback is the next thing to do.
LEMMA AttachReadyKeeps ==
  ASSUME FutureInv, NEW t \in Threads, AttachReady(t)
  PROVE  FutureInv' /\ \A p, x : Token(p, x)' <=> Token(p, x)
  <1> DEFINE g == Subject(t)
             x0 == Argument(t)
             entry == CallbackOf(g, x0)
  <1>1. /\ agenda[t] # <<>> /\ Head(agenda[t])[1] = "attach" /\ Ready(g)
        /\ Proceed(t, <<entry>>)
        /\ UNCHANGED Bystanders /\ UNCHANGED <<result, on_ready, queue, started, shared>>
    BY DEF AttachReady, Doing, Continue, executorVars, Bystanders
  <1>2. Follows(x0, g) /\ g \in Created
    BY <1>1, HeadLegal DEF Legal, Subject, Argument
  <1>3. /\ entry \in Entries /\ x0 \in Futures
        /\ \A p, y : Carries(entry, p, y) <=> p = g /\ y = x0
    BY <1>2, CallbackCarries DEF FutureInv
  <1>4. \A p, x : Carries(Head(agenda[t]), p, x) <=> p = g /\ x = x0
    BY <1>1 DEF Carries, Subject, Argument
  <1>5. Legal(entry)
    <2>1. CASE kind[x0] = "combine"
      BY <1>1, <1>2, <2>1 DEF CallbackOf, Legal
    <2>2. CASE kind[x0] \in Continuations
      <3>1. ParentOf(x0) = g /\ x0 \in Created /\ kind[x0] # "combine"
        BY <1>2, <1>3, <2>2, ParentFacts DEF Follows, FutureInv, Continuations
      <3> QED
        BY <1>1, <2>2, <3>1 DEF CallbackOf, Legal, MayCall, Callables
    <2> QED
      BY <1>2, <2>1, <2>2 DEF Follows
  <1> HIDE DEF entry
  <1> QED
    BY <1>1, <1>3, <1>4, <1>5, StepKeeps

\* ScheduleOnExecutor chooses an executor.
LEMMA SubmitKeeps ==
  ASSUME FutureInv, NEW t \in Threads, Submit(t)
  PROVE  FutureInv' /\ \A p, x : Token(p, x)' <=> Token(p, x)
  <1> DEFINE f == Subject(t)
             e == Get(t, home[f])
             entry == IF e = "immediate" THEN <<"run", f>> ELSE <<"push", f, e>>
  <1>1. /\ agenda[t] # <<>> /\ Head(agenda[t])[1] = "submit"
        /\ Proceed(t, <<entry>>)
        /\ UNCHANGED Bystanders /\ UNCHANGED <<result, on_ready, queue, started, shared>>
    BY DEF Submit, Doing, Continue, executorVars, Bystanders
  <1>2. f \in Created /\ f \in Futures /\ MayCall(f)
    BY <1>1, HeadLegal DEF Legal, Subject
  <1>3. e \in Types /\ (e # "immediate" => e \in Queued /\ home[f] # "immediate")
    BY <1>2 DEF Get, FutureInv, FutureTypes, Types
  <1>4. entry \in Entries
    <2>1. f \in 0 .. MaxFutures
      BY <1>2, FutureAssumption DEF Futures
    <2> QED
      BY <1>2, <1>3, <2>1 DEF Entries
  <1>5. \A p, x : Carries(entry, p, x) <=> Carries(Head(agenda[t]), p, x)
    BY <1>1 DEF Carries, Subject
  <1>6. Legal(entry)
    <2>1. e # "immediate" => kind[f] \in {"schedule", "then"}
      BY <1>2, <1>3 DEF FutureInv, Lineage, MayCall, Callables, Continuations
    <2> QED
      BY <1>2, <2>1 DEF Legal
  <1> HIDE DEF entry
  <1> QED
    BY <1>1, <1>4, <1>5, <1>6, StepKeeps

\* OnReady with the result not there.
LEMMA AttachPendingKeeps ==
  ASSUME FutureInv, NEW t \in Threads, AttachPending(t)
  PROVE  FutureInv' /\ \A p, x : Token(p, x)' <=> Token(p, x)
  <1> USE DEF Bystanders
  <1> DEFINE g == Subject(t)
             x0 == Argument(t)
             entry == CallbackOf(g, x0)
  <1>1. /\ agenda[t] # <<>> /\ Head(agenda[t])[1] = "attach" /\ ~Ready(g)
        /\ Proceed(t, <<>>)
        /\ on_ready' = [on_ready EXCEPT ![g] = Append(@, entry)]
        /\ UNCHANGED Bystanders /\ UNCHANGED <<result, queue, started, shared>>
    BY DEF AttachPending, Doing, executorVars
  <1>2. Follows(x0, g) /\ g \in Created /\ g \in Futures
    BY <1>1, HeadLegal DEF Legal, Subject, Argument
  <1>3. entry \in Entries /\ x0 \in Created
    BY <1>2, CallbackCarries DEF FutureInv, Follows
  <1>4. <<>> \in Seq(Entries) /\ ToSet(<<>>) = {}
    <2>1. <<>> \in Seq(Entries)
      OBVIOUS
    <2>2. ToSet(<<>>) = {}
      BY DEF ToSet
    <2> QED
      BY <2>1, <2>2
  <1>5. Steady /\ Created' = Created
    BY <1>1 DEF Steady, Created
  <1>6. /\ on_ready[g] \in Seq(Entries) /\ on_ready'[g] = Append(on_ready[g], entry)
        /\ on_ready'[g] \in Seq(Entries)
        /\ \A h \in Futures \ {g} : on_ready'[h] = on_ready[h]
        /\ on_ready' \in [Futures -> Seq(Entries)]
    <2> HIDE DEF entry
    <2>1. on_ready[g] \in Seq(Entries) /\ on_ready \in [Futures -> Seq(Entries)]
      BY <1>2 DEF FutureInv, FutureTypes
    <2>2. Append(on_ready[g], entry) \in Seq(Entries)
      BY <1>3, <2>1
    <2> QED
      BY <1>1, <1>2, <2>1, <2>2
  <1> HIDE DEF entry
  <1>7. FutureTypes'
    BY <1>1, <1>4, <1>5, <1>6, ProceedFacts DEF FutureInv, FutureTypes
  <1>8. Lineage'
    BY <1>1, <1>2, <1>5, <1>6 DEF FutureInv, Lineage, ParentOf
  <1>9. AgendasLegal'
    BY <1>1, <1>4, <1>5, PostedAfter, AgendasKept DEF FutureInv
  <1>10. RegistrationsLegal'
    <2>1. ASSUME NEW h \in Futures, NEW e \in ToSet(on_ready'[h])
          PROVE  Awaited(h, e)
      <3>1. CASE h # g
        BY <1>6, <2>1, <3>1 DEF FutureInv, RegistrationsLegal
      <3>2. CASE h = g
        <4>1. PICK i \in DOMAIN on_ready'[g] : e = on_ready'[g][i]
          BY <2>1, <3>2 DEF ToSet
        <4>2. \/ i = Len(on_ready[g]) + 1 /\ e = entry
              \/ i \in DOMAIN on_ready[g] /\ e = on_ready[g][i]
          BY <1>6, <4>1
        <4>3. CASE e = entry
          BY <1>2, <1>3, <3>2, <4>3 DEF Awaited, entry
        <4>4. CASE i \in DOMAIN on_ready[g] /\ e = on_ready[g][i]
          BY <1>2, <3>2, <4>4 DEF FutureInv, RegistrationsLegal, ToSet
        <4> QED
          BY <4>2, <4>3, <4>4
      <3> QED
        BY <3>1, <3>2
    <2>2. \A h \in Futures : on_ready'[h] # <<>> => ~Ready(h)
      BY <1>1, <1>6 DEF FutureInv, RegistrationsLegal
    <2>3. \A h, e : Awaited(h, e) => Awaited(h, e)'
      BY <1>5, LegalKept DEF FutureInv
    <2> QED
      BY <1>1, <2>1, <2>2, <2>3 DEF RegistrationsLegal, Ready
  <1>11. QueuesLegal'
    BY <1>1, <1>5, QueuesKept
  <1>12. OneToken' /\ \A p, x : Token(p, x)' <=> Token(p, x)
    BY TokenRegistered DEF FutureInv
  <1>13. NotYetCalled' /\ CalledOnceInOrder'
    BY <1>1, <1>5, <1>7, <1>8, <1>12, CallsKept, OrderKept
  <1> QED
    BY <1>7, <1>8, <1>9, <1>10, <1>11, <1>12, <1>13 DEF FutureInv

\* The executor takes the task.
LEMMA PushTaskKeeps ==
  ASSUME FutureInv, NEW t \in Threads, PushTask(t)
  PROVE  FutureInv' /\ \A p, x : Token(p, x)' <=> Token(p, x)
  <1> USE DEF Bystanders
  <1> DEFINE f == Subject(t)
             e0 == Argument(t)
  <1>1. /\ agenda[t] # <<>> /\ Head(agenda[t])[1] = "push" /\ Proceed(t, <<>>)
        /\ queue' = [queue EXCEPT ![e0] = @ \cup {f}]
        /\ UNCHANGED Bystanders /\ UNCHANGED <<result, on_ready, started, shared>>
    BY DEF PushTask, Doing, Continue, Push
  <1>2. /\ f \in Created /\ MayCall(f) /\ kind[f] \in {"schedule", "then"} /\ e0 \in Queued
    BY <1>1, HeadLegal, EntryForms DEF Legal, Subject, Argument
  <1>3. <<>> \in Seq(Entries) /\ ToSet(<<>>) = {}
    <2>1. <<>> \in Seq(Entries)
      OBVIOUS
    <2>2. ToSet(<<>>) = {}
      BY DEF ToSet
    <2> QED
      BY <2>1, <2>2
  <1>4. Steady /\ Created' = Created
    BY <1>1 DEF Steady, Created
  <1>5. /\ queue' \in [Queued -> SUBSET Created] /\ queue'[e0] = queue[e0] \cup {f}
        /\ \A e \in Queued \ {e0} : queue'[e] = queue[e]
    BY <1>1, <1>2 DEF FutureInv, FutureTypes
  <1>6. FutureTypes'
    BY <1>1, <1>3, <1>4, <1>5, ProceedFacts DEF FutureInv, FutureTypes
  <1>7. Lineage'
    BY <1>1, <1>4 DEF FutureInv, Lineage, ParentOf
  <1>8. AgendasLegal' /\ RegistrationsLegal'
    BY <1>1, <1>3, <1>4, PostedAfter, AgendasKept, RegistrationsKept DEF FutureInv
  <1>9. QueuesLegal'
    <2>1. ASSUME NEW e \in Queued, NEW x \in queue'[e]
          PROVE  x \in Created /\ MayCall(x) /\ kind[x] \in {"schedule", "then"}
      BY <1>2, <1>5 DEF FutureInv, FutureTypes, QueuesLegal
    <2> QED
      BY <1>1, <1>4, <2>1, LegalKept DEF QueuesLegal, FutureInv
  <1>10. OneToken' /\ \A p, x : Token(p, x)' <=> Token(p, x)
    BY TokenQueued DEF FutureInv
  <1>11. NotYetCalled' /\ CalledOnceInOrder'
    BY <1>1, <1>4, <1>6, <1>7, <1>10, CallsKept, OrderKept
  <1> QED
    BY <1>6, <1>7, <1>8, <1>9, <1>10, <1>11 DEF FutureInv

\* A pump or a worker takes a task from its queue.
LEMMA TakeKeeps ==
  ASSUME FutureInv, NEW t \in Threads, NEW f \in Created, Take(t, f)
  PROVE  FutureInv' /\ \A p, x : Token(p, x)' <=> Token(p, x)
  <1> USE DEF Bystanders
  <1> DEFINE e0 == IF t \in Workers THEN "background" ELSE "foreground"
             entries == << <<"run", f>> >>
  <1>1. /\ agenda[t] = <<>> /\ agenda' = [agenda EXCEPT ![t] = entries]
        /\ f \in queue[e0] /\ queue' = [queue EXCEPT ![e0] = @ \ {f}]
        /\ UNCHANGED Bystanders /\ UNCHANGED <<result, on_ready, started, shared>>
    BY DEF Take, Pop
  <1>2. e0 \in Queued
    BY DEF Queued
  <1>3. entries \in Seq(Entries) /\ ToSet(entries) = {<<"run", f>>}
    <2>1. <<"run", f>> \in Entries
      BY FutureAssumption DEF FutureInv, FutureTypes, Entries, Created
    <2> QED
      BY <2>1 DEF ToSet
  <1> HIDE DEF entries, e0
  <1>4. Steady /\ Created' = Created
    BY <1>1 DEF Steady, Created
  <1>5. /\ queue' \in [Queued -> SUBSET Created]
        /\ \A e \in Queued : queue'[e] \subseteq queue[e]
    BY <1>1, <1>2 DEF FutureInv, FutureTypes
  <1>6. FutureTypes'
    BY <1>1, <1>3, <1>4, <1>5, CallFacts DEF FutureInv, FutureTypes
  <1>7. Lineage'
    BY <1>1, <1>4 DEF FutureInv, Lineage, ParentOf
  <1>8. Legal(<<"run", f>>)
    BY <1>1, <1>2 DEF FutureInv, QueuesLegal, Legal
  <1>9. AgendasLegal' /\ RegistrationsLegal' /\ QueuesLegal'
    BY <1>1, <1>3, <1>4, <1>5, <1>8, CallFacts, LegalKept, AgendasKept, RegistrationsKept,
       QueuesKept
       DEF FutureInv
  <1>10. OneToken' /\ \A p, x : Token(p, x)' <=> Token(p, x)
    BY TokenTaken DEF FutureInv
  <1>11. NotYetCalled' /\ CalledOnceInOrder'
    BY <1>1, <1>4, <1>6, <1>7, <1>10, CallsKept, OrderKept
  <1> QED
    BY <1>6, <1>7, <1>9, <1>10, <1>11 DEF FutureInv

\* Return moves all callbacks from on_ready to the agenda.
LEMMA ReturnKeeps ==
  ASSUME FutureInv, NEW t \in Threads, Return(t)
  PROVE  FutureInv' /\ \A p, x : Token(p, x)' <=> Token(p, x)
  <1> USE DEF Bystanders
  <1>0. PICK f : f = Subject(t)
    OBVIOUS
  <1> DEFINE calls == on_ready[f]
             locks == kind[f] \in Continuations /\ ~Ready(ParentOf(f))
             first == IF locks THEN << <<"release", ParentOf(f)>>, <<"unlock", f>> >> ELSE <<>>
             entries == first \o calls
  <1>1. /\ agenda[t] # <<>> /\ Head(agenda[t])[1] = "return" /\ ~Ready(f)
        /\ Proceed(t, entries)
        /\ result' = [result EXCEPT ![f] = Argument(t)]
        /\ on_ready' = [on_ready EXCEPT ![f] = <<>>]
        /\ UNCHANGED Bystanders /\ UNCHANGED <<queue, started, shared>>
    BY <1>0 DEF Return, Doing, executorVars
  <1>2. f \in Created /\ f \in Futures /\ Argument(t) \in Results
    BY <1>0, <1>1, HeadLegal, EntryForms DEF Subject, Argument
  <1>3. calls \in Seq(Entries) /\ \A e \in ToSet(calls) : Awaited(f, e)
    BY <1>2 DEF FutureInv, FutureTypes, RegistrationsLegal
  <1>4. first \in Seq(Entries)
        /\ \A e \in ToSet(first) :
             (e = <<"release", ParentOf(f)>> /\ locks) \/ e = <<"unlock", f>>
    <2>1. CASE locks
      <3>1. f \in 0 .. MaxFutures /\ ParentOf(f) \in 0 .. MaxFutures
        BY <1>2, <2>1, ParentFacts, FutureAssumption DEF Futures, FutureInv
      <3>2. <<"release", ParentOf(f)>> \in Entries /\ <<"unlock", f>> \in Entries
        BY <3>1 DEF Entries
      <3> QED
        BY <2>1, <3>2 DEF ToSet
    <2>2. CASE ~locks
      <3>1. first = <<>> /\ ToSet(<<>>) = {}
        BY <2>2 DEF ToSet
      <3> QED
        BY <3>1
    <2> QED
      BY <2>1, <2>2
  <1>5. /\ f \in Created /\ Ready(f)' /\ ~Ready(f)
        /\ \A g \in Futures \ {f} : result'[g] = result[g]
        /\ result' \in [Futures -> Results \cup {"none"}]
        /\ on_ready'[f] = <<>> /\ \A g \in Futures \ {f} : on_ready'[g] = on_ready[g]
        /\ on_ready' \in [Futures -> Seq(Entries)]
    <2>1. <<>> \in Seq(Entries)
      OBVIOUS
    <2>2. Argument(t) # "none"
      BY <1>2 DEF Results
    <2> QED
      BY <1>1, <1>2, <2>1, <2>2 DEF FutureInv, FutureTypes, Ready
  <1>6. Steady /\ Created' = Created
    <2>1. Created' = Created /\ Created \subseteq Futures
      BY <1>1, FutureAssumption DEF Created, Futures, FutureInv, FutureTypes
    <2> QED
      BY <1>1, <1>5, <2>1 DEF Steady
  <1> HIDE DEF first, calls
  <1>7. entries \in Seq(Entries) /\ ToSet(entries) = ToSet(first) \cup ToSet(calls)
    BY <1>3, <1>4, JoinFacts
  <1> HIDE DEF entries
  <1>8. FutureTypes'
    <2>1. agenda' \in [Threads -> Seq(Entries)]
      BY <1>1, <1>7, ProceedFacts DEF FutureInv
    <2> QED
      BY <1>1, <1>5, <1>6, <2>1 DEF FutureInv, FutureTypes
  <1>9. Lineage'
    <2>1. /\ created' = created /\ kind' = kind /\ home' = home /\ accepts' = accepts
          /\ sources' = sources /\ started' = started /\ shared' = shared
      BY <1>1
    <2>2. \A g \in Futures \ Created : result'[g] = result[g] /\ on_ready'[g] = on_ready[g]
      BY <1>5
    <2> QED
      BY <1>6, <2>1, <2>2 DEF FutureInv, Lineage, ParentOf
  <1>10. AgendasLegal'
    <2>1. ASSUME NEW e \in ToSet(first) PROVE Legal(e)'
      <3>1. CASE e = <<"unlock", f>>
        BY <3>1 DEF Legal
      <3>2. CASE e = <<"release", ParentOf(f)>> /\ locks
        <4>1. ParentOf(f) \in Created'
          BY <1>2, <1>6, <3>2, ParentFacts DEF FutureInv
        <4> QED
          BY <3>2, <4>1 DEF Legal
      <3> QED
        BY <1>4, <2>1, <3>1, <3>2
    <2>2. ASSUME NEW e \in ToSet(calls) PROVE Legal(e)'
      <3>1. PICK x \in Created : Follows(x, f) /\ e = CallbackOf(f, x)
        BY <1>3, <2>2 DEF Awaited
      <3>2. /\ Follows(x, f)' /\ x \in Created' /\ f \in Created' /\ kind'[x] = kind[x]
            /\ ParentOf(x)' = ParentOf(x)
        BY <1>5, <1>6, <3>1, LegalKept DEF FutureInv, Steady
      <3>3. CASE kind[x] = "combine"
        BY <1>5, <3>1, <3>2, <3>3 DEF CallbackOf, Legal
      <3>4. CASE kind[x] \in Continuations
        <4>1. x \in Futures
          BY FutureAssumption DEF FutureInv, FutureTypes, Created, Futures
        <4>2. ParentOf(x) = f /\ kind[x] # "combine"
          BY <3>1, <3>4, <4>1, ParentFacts DEF Follows, FutureInv, Continuations
        <4>3. MayCall(x)'
          BY <1>5, <3>2, <3>4, <4>2 DEF MayCall, Callables, Ready
        <4> QED
          BY <3>1, <3>2, <4>2, <4>3 DEF CallbackOf, Legal
      <3> QED
        BY <3>1, <3>3, <3>4 DEF Follows
    <2>3. Posted' \subseteq Posted \cup ToSet(entries)
      BY <1>1, <1>7, PostedAfter DEF FutureInv
    <2> QED
      BY <1>6, <1>7, <2>1, <2>2, <2>3, AgendasKept
  <1>11. RegistrationsLegal'
    <2> SUFFICES ASSUME NEW g \in Futures
                 PROVE  /\ on_ready'[g] # <<>> => ~Ready(g)'
                        /\ \A e \in ToSet(on_ready'[g]) : Awaited(g, e)'
      BY DEF RegistrationsLegal
    <2>1. CASE g = f
      <3>1. on_ready'[g] = <<>> /\ ToSet(<<>>) = {}
        BY <1>5, <2>1 DEF ToSet
      <3> QED
        BY <3>1
    <2>2. CASE g # f
      <3>1. on_ready'[g] = on_ready[g] /\ (Ready(g)' <=> Ready(g))
        BY <1>5, <2>2 DEF Ready
      <3> QED
        BY <1>6, <3>1, LegalKept DEF FutureInv, RegistrationsLegal
    <2> QED
      BY <2>1, <2>2
  <1>12. QueuesLegal'
    BY <1>1, <1>6, QueuesKept
  <1>13. OneToken' /\ \A p, x : Token(p, x)' <=> Token(p, x)
    BY TokensReturned DEF FutureInv
  <1>14. NotYetCalled' /\ CalledOnceInOrder'
    BY <1>1, <1>6, <1>8, <1>9, <1>13, CallsKept, OrderKept
  <1> QED
    BY <1>8, <1>9, <1>10, <1>11, <1>12, <1>13, <1>14 DEF FutureInv

\* The callable is called.
LEMMA RunCallsKeeps ==
  ASSUME FutureInv, NEW t \in Threads, RunCalls(t)
  PROVE  /\ FutureInv'
         /\ \A p, x : Token(p, x)' <=> Token(p, x) /\ ~Carries(Head(agenda[t]), p, x)
  <1> USE DEF Bystanders
  <1> DEFINE f == Subject(t)
             entries == << <<"body", f>> >>
  <1>1. /\ agenda[t] # <<>> /\ Head(agenda[t])[1] = "run" /\ ~Ready(f) /\ ~Propagates(f)
        /\ Proceed(t, entries)
        /\ started' = [started EXCEPT ![f] = @ + 1]
        /\ UNCHANGED Bystanders /\ UNCHANGED <<queue, result, on_ready, shared>>
    BY DEF RunCalls, Doing, executorVars
  <1>2. f \in Created /\ f \in Futures /\ MayCall(f)
    BY <1>1, HeadLegal DEF Legal, Subject
  <1>3. Permits(f)
    BY <1>1, <1>2 DEF Propagates, Permits
  <1>4. <<"body", f>> \in Entries /\ Legal(<<"body", f>>)
    <2>1. f \in 0 .. MaxFutures
      BY <1>2, FutureAssumption DEF Futures
    <2> QED
      BY <1>2, <1>3, <2>1 DEF Legal, Entries
  <1>5. entries \in Seq(Entries) /\ ToSet(entries) = {<<"body", f>>}
    BY <1>4 DEF ToSet
  <1>6. Steady /\ Created' = Created
    BY <1>1 DEF Steady, Created
  <1>7. Carries(Head(agenda[t]), Origin(f), f) /\ Token(Origin(f), f)
    <2>1. Carries(Head(agenda[t]), Origin(f), f)
      BY <1>1 DEF Carries, Subject
    <2>2. Has(<<"agenda", t, Len(agenda[t])>>, Origin(f), f)
          /\ <<"agenda", t, Len(agenda[t])>> \in Places
      BY <1>1, <1>5, <2>1, AgendaPlaces DEF FutureInv
    <2> QED
      BY <2>1, <2>2 DEF Token
  <1>8. kind[f] # "combine" /\ kind[f] \in Callables
    BY <1>2 DEF MayCall, Callables, Continuations
  <1>9. started[f] = 0
    BY <1>7, <1>8 DEF FutureInv, NotYetCalled
  <1>10. /\ started'[f] = 1 /\ \A g \in Futures \ {f} : started'[g] = started[g]
         /\ started' \in [Futures -> Nat]
    BY <1>1, <1>2, <1>9 DEF FutureInv, FutureTypes
  <1> HIDE DEF entries
  <1>11. FutureTypes'
    <2>1. agenda' \in [Threads -> Seq(Entries)]
      BY <1>1, <1>5, ProceedFacts DEF FutureInv
    <2> QED
      BY <1>1, <1>6, <1>10, <2>1 DEF FutureInv, FutureTypes
  <1>12. Lineage'
    <2>1. /\ created' = created /\ kind' = kind /\ home' = home /\ accepts' = accepts
          /\ sources' = sources /\ result' = result /\ shared' = shared /\ on_ready' = on_ready
      BY <1>1
    <2>2. \A g \in Futures \ Created : started'[g] = started[g]
      BY <1>2, <1>10
    <2> QED
      BY <1>6, <2>1, <2>2 DEF FutureInv, Lineage, ParentOf
  <1>13. AgendasLegal'
    <2>1. \A e \in ToSet(entries) : Legal(e)'
      BY <1>4, <1>5, <1>6, LegalKept DEF FutureInv
    <2>2. Posted' \subseteq Posted \cup ToSet(entries)
      BY <1>1, <1>5, PostedAfter DEF FutureInv
    <2> QED
      BY <1>5, <1>6, <2>1, <2>2, AgendasKept
  <1>14. RegistrationsLegal' /\ QueuesLegal'
    BY <1>1, <1>6, RegistrationsKept, QueuesKept
  <1>15. OneToken' /\ \A p, x : Token(p, x)' <=> Token(p, x) /\ ~Carries(Head(agenda[t]), p, x)
    BY <1>1, <1>5, TokenSpent DEF FutureInv
  <1>16. NotYetCalled'
    <2> SUFFICES ASSUME NEW p, NEW x, Token(p, x)', kind'[x] # "combine"
                 PROVE  started'[x] = 0
      BY DEF NotYetCalled
    <2>1. Token(p, x) /\ ~Carries(Head(agenda[t]), p, x) /\ kind[x] # "combine"
      BY <1>1, <1>15
    <2>2. x \in Futures /\ (x = f => p = Origin(f))
      BY <1>8, <2>1, TokenSense DEF FutureInv
    <2>3. x # f
      BY <1>7, <2>1, <2>2
    <2> QED
      BY <1>10, <2>1, <2>2, <2>3 DEF FutureInv, NotYetCalled
  <1>17. CalledOnceInOrder'
    <2> SUFFICES ASSUME NEW g \in Created
                 PROVE  /\ started'[g] <= 1
                        /\ started'[g] = 1 /\ kind[g] \in Continuations =>
                             Ready(ParentOf(g)) /\ (accepts[g] \/ result[ParentOf(g)] = "ok")
      BY <1>1, <1>6 DEF CalledOnceInOrder, ParentOf, Ready
    <2>1. CASE g = f
      BY <1>2, <1>3, <1>10, <2>1 DEF MayCall, Permits
    <2>2. CASE g # f
      <3>1. g \in Futures
        BY FutureAssumption DEF FutureInv, FutureTypes, Created, Futures
      <3> QED
        BY <1>10, <2>2, <3>1 DEF FutureInv, CalledOnceInOrder
    <2> QED
      BY <2>1, <2>2
  <1> QED
    BY <1>11, <1>12, <1>13, <1>14, <1>15, <1>16, <1>17 DEF FutureInv

\* The entries that carry nothing, and the other steps that post them.
LEMMA SpentEntries ==
  ASSUME FutureInv
  PROVE  /\ <<>> \in Seq(Entries) /\ ToSet(<<>>) = {}
         /\ \A f \in Created, v \in Results :
              /\ << <<"return", f, v>> >> \in Seq(Entries)
              /\ ToSet(<< <<"return", f, v>> >>) = {<<"return", f, v>>}
              /\ Legal(<<"return", f, v>>)
         /\ \A f \in Created, e \in Queued :
              LET entries == << <<"reprioritise", f, e>>, <<"unlock", f>> >>
              IN  /\ entries \in Seq(Entries)
                  /\ \A z \in ToSet(entries) : z[1] \in {"reprioritise", "unlock"} /\ Legal(z)
  <1>1. <<>> \in Seq(Entries)
    OBVIOUS
  <1>2. ToSet(<<>>) = {}
    BY DEF ToSet
  <1>3. Created \subseteq Futures /\ Created \subseteq 0 .. MaxFutures
    BY FutureAssumption DEF FutureInv, FutureTypes, Created, Futures
  <1>4. ASSUME NEW f \in Created, NEW v \in Results
        PROVE  /\ << <<"return", f, v>> >> \in Seq(Entries)
               /\ ToSet(<< <<"return", f, v>> >>) = {<<"return", f, v>>}
               /\ Legal(<<"return", f, v>>)
    <2>1. <<"return", f, v>> \in Entries
      BY <1>3 DEF Entries
    <2> DEFINE e == <<"return", f, v>>
    <2>2. Legal(e)
      BY DEF Legal
    <2> HIDE DEF e
    <2>3. <<e>> \in Seq(Entries) /\ ToSet(<<e>>) = {e}
      BY <2>1 DEF ToSet, e
    <2> QED
      BY <2>2, <2>3 DEF e
  <1>5. ASSUME NEW f \in Created, NEW e \in Queued
        PROVE  LET entries == << <<"reprioritise", f, e>>, <<"unlock", f>> >>
               IN  /\ entries \in Seq(Entries)
                   /\ \A z \in ToSet(entries) : z[1] \in {"reprioritise", "unlock"} /\ Legal(z)
    <2> DEFINE y == <<"reprioritise", f, e>>
               z == <<"unlock", f>>
    <2>1. y \in Entries /\ z \in Entries
      BY <1>3 DEF Entries
    <2>2. Legal(y) /\ Legal(z) /\ y[1] = "reprioritise" /\ z[1] = "unlock"
      BY DEF Legal
    <2> HIDE DEF y, z
    <2>3. <<y, z>> \in Seq(Entries) /\ ToSet(<<y, z>>) = {y, z}
      BY <2>1 DEF ToSet
    <2> QED
      BY <2>2, <2>3 DEF y, z
  <1> QED
    BY <1>1, <1>2, <1>4, <1>5

\* The steps that post entries that carry nothing and call no callable.
Spends(t) ==
  \/ PushFails(t) \/ RunSkipped(t) \/ RunPropagates(t) \/ BodyReturns(t) \/ ReturnIgnored(t)
  \/ Release(t) \/ Unlock(t) \/ Reprioritise(t) \/ RescheduleTask(t) \/ Arrive(t) \/ ArriveLate(t)

\* Who arrives, and where.
LEMMA ArrivalFacts ==
  ASSUME FutureInv, NEW t \in Threads, Doing(t, "arrive")
  PROVE  /\ Argument(t) \in Created /\ Argument(t) \in Futures
         /\ Subject(t) \in sources[Argument(t)] /\ kind[Argument(t)] = "combine"
         /\ result[Subject(t)] \in Results
         /\ AfterArrival(shared[Argument(t)], result[Subject(t)]) \in Shares
  <1>1. agenda[t] # <<>> /\ Head(agenda[t])[1] = "arrive"
    BY DEF Doing
  <1>2. /\ Follows(Argument(t), Subject(t)) /\ kind[Argument(t)] = "combine"
        /\ Ready(Subject(t)) /\ Subject(t) \in Futures
    BY <1>1, HeadLegal DEF Legal, Subject, Argument
  <1>3. Argument(t) \in Futures
    BY <1>2, FutureAssumption DEF FutureInv, FutureTypes, Created, Futures, Follows
  <1>4. result[Subject(t)] \in Results
    BY <1>2 DEF FutureInv, FutureTypes, Ready
  <1>5. shared[Argument(t)] \in Shares
    BY <1>3 DEF FutureInv, FutureTypes
  <1> DEFINE s == shared[Argument(t)]
             status == result[Subject(t)]
  <1>6. AfterArrival(s, status) \in Shares
    <2> HIDE DEF s, status
    <2>1. s \in Shares /\ status \in Results
      BY <1>4, <1>5 DEF s, status
    <2>2. IF s.remaining > 0 THEN s.remaining - 1 \in Nat ELSE 0 \in Nat
      BY <2>1 DEF Shares
    <2> QED
      BY <2>1, <2>2 DEF AfterArrival, Shares
  <1> QED
    BY <1>2, <1>3, <1>4, <1>6 DEF Follows

\* What these steps post, and what they leave alone.
LEMMA SpendsForm ==
  ASSUME FutureInv, NEW t \in Threads, Spends(t)
  PROVE  /\ agenda[t] # <<>>
         /\ \E entries \in Seq(Entries) :
              /\ Proceed(t, entries)
              /\ \A e \in ToSet(entries) :
                   e[1] \in {"return", "body", "release", "unlock", "reprioritise"} /\ Legal(e)
         /\ UNCHANGED Bystanders /\ UNCHANGED <<result, on_ready, queue, started>>
         /\ shared' \in [Futures -> Shares]
         /\ \A f \in Futures \ Created : shared'[f] = shared[f]
  <1> USE DEF Bystanders
  <1> DEFINE Posts == \E entries \in Seq(Entries) :
                        /\ Proceed(t, entries)
                        /\ \A e \in ToSet(entries) :
                             /\ e[1] \in {"return", "body", "release", "unlock", "reprioritise"}
                             /\ Legal(e)
  <1>0. shared \in [Futures -> Shares]
    BY DEF FutureInv, FutureTypes
  <1>1. Proceed(t, <<>>) => Posts
    BY SpentEntries
  <1>2. ASSUME NEW f \in Created, NEW v \in Results, Proceed(t, << <<"return", f, v>> >>)
        PROVE  Posts
    <2> DEFINE entries == << <<"return", f, v>> >>
    <2>1. entries \in Seq(Entries) /\ ToSet(entries) = {<<"return", f, v>>}
          /\ Legal(<<"return", f, v>>) /\ Proceed(t, entries)
      BY <1>2, SpentEntries
    <2> HIDE DEF entries
    <2> QED
      BY <2>1
  <1> HIDE DEF Posts
  <1>3. CASE PushFails(t)
    <2>1. /\ agenda[t] # <<>> /\ Head(agenda[t])[1] = "push"
          /\ Proceed(t, << <<"return", Subject(t), "unavailable">> >>)
          /\ UNCHANGED Bystanders /\ UNCHANGED <<result, on_ready, queue, started, shared>>
      BY <1>3 DEF PushFails, Doing, Continue, PushRefused, executorVars
    <2>2. Subject(t) \in Created /\ "unavailable" \in Results
      BY <2>1, HeadLegal DEF Results
    <2> QED
      BY <1>0, <1>2, <2>1, <2>2 DEF Posts
  <1>4. CASE RunSkipped(t) \/ ReturnIgnored(t) \/ RescheduleTask(t) \/ ArriveLate(t)
    <2>1. /\ agenda[t] # <<>> /\ Proceed(t, <<>>)
          /\ UNCHANGED Bystanders /\ UNCHANGED <<result, on_ready, queue, started, shared>>
      BY <1>4
         DEF RunSkipped, ReturnIgnored, RescheduleTask, ArriveLate, Doing, Continue, executorVars
    <2> QED
      BY <1>0, <1>1, <2>1 DEF Posts
  <1>5. CASE RunPropagates(t)
    <2> DEFINE f == Subject(t)
    <2>1. /\ agenda[t] # <<>> /\ Head(agenda[t])[1] = "run" /\ Propagates(f)
          /\ Proceed(t, << <<"return", f, result[ParentOf(f)]>> >>)
          /\ UNCHANGED Bystanders /\ UNCHANGED <<result, on_ready, queue, started, shared>>
      BY <1>5 DEF RunPropagates, Doing, Continue, executorVars
    <2>2. f \in Created /\ f \in Futures /\ MayCall(f) /\ kind[f] \in Continuations
      BY <2>1, HeadLegal DEF Legal, Subject, Propagates
    <2>3. result[ParentOf(f)] \in Results
      <3>1. ParentOf(f) \in Futures
        BY <2>2, ParentFacts DEF FutureInv
      <3> QED
        BY <2>2, <3>1 DEF MayCall, Ready, FutureInv, FutureTypes
    <2> QED
      BY <1>0, <1>2, <2>1, <2>2, <2>3 DEF Posts
  <1>6. CASE BodyReturns(t)
    <2> DEFINE f == Subject(t)
    <2>1. /\ agenda[t] # <<>> /\ Head(agenda[t])[1] = "body"
          /\ \E v \in Produces(f) : Proceed(t, << <<"return", f, v>> >>)
          /\ UNCHANGED Bystanders /\ UNCHANGED <<result, on_ready, queue, started, shared>>
      BY <1>6 DEF BodyReturns, Doing, Continue, executorVars
    <2>2. f \in Created /\ f \in Futures /\ MayCall(f)
      BY <2>1, HeadLegal DEF Legal, Subject
    <2>3. Produces(f) \subseteq Results
      <3>1. CASE kind[f] \in {"status", "merge"}
        <4>1. kind[f] \in Continuations
          BY <3>1 DEF Continuations
        <4>2. ParentOf(f) \in Futures /\ Ready(ParentOf(f))
          BY <2>2, <4>1, ParentFacts DEF FutureInv, MayCall
        <4> QED
          BY <3>1, <4>2 DEF Produces, Ready, FutureInv, FutureTypes
      <3>2. CASE kind[f] \notin {"status", "merge"}
        BY <3>2 DEF Produces, Results
      <3> QED
        BY <3>1, <3>2
    <2>4. PICK v \in Results : Proceed(t, << <<"return", f, v>> >>)
      BY <2>1, <2>3
    <2>5. Posts
      BY <1>2, <2>2, <2>4
    <2> QED
      BY <1>0, <2>1, <2>5 DEF Posts
  <1>7. CASE Release(t)
    <2> DEFINE f == Subject(t)
    <2>1. /\ agenda[t] # <<>> /\ Head(agenda[t])[1] = "release"
          /\ Proceed(t, <<>>) \/ Proceed(t, << <<"return", f, "cancelled">> >>)
          /\ UNCHANGED Bystanders /\ UNCHANGED <<result, on_ready, queue, started, shared>>
      BY <1>7 DEF Release, Doing, Continue, executorVars
    <2>2. f \in Created /\ "cancelled" \in Results
      BY <2>1, HeadLegal DEF Results
    <2> QED
      BY <1>0, <1>1, <1>2, <2>1, <2>2 DEF Posts
  <1>8. CASE Unlock(t)
    <2>1. /\ agenda[t] # <<>> /\ Proceed(t, <<>>)
          /\ UNCHANGED Bystanders /\ UNCHANGED <<result, on_ready, queue, started, shared>>
      BY <1>8 DEF Unlock, Doing, executorVars
    <2> QED
      BY <1>0, <1>1, <2>1 DEF Posts
  <1>9. CASE Reprioritise(t)
    <2> DEFINE f == Subject(t)
    <2>0. PICK e : e = ExecutorOf(t, f)
      OBVIOUS
    <2>1. /\ agenda[t] # <<>> /\ Head(agenda[t])[1] = "priority"
          /\ IF e = "immediate" THEN Proceed(t, <<>>)
             ELSE Proceed(t, << <<"reprioritise", f, e>>, <<"unlock", f>> >>)
          /\ UNCHANGED Bystanders /\ UNCHANGED <<result, on_ready, queue, started, shared>>
      BY <1>9, <2>0 DEF Reprioritise, Doing, executorVars
    <2>2. f \in Created /\ f \in Futures
      BY <2>1, HeadLegal
    <2>3. e # "immediate" => e \in Queued
      BY <2>0, <2>2 DEF ExecutorOf, Get, FutureInv, FutureTypes, Types
    <2>4. Posts
      <3>1. CASE e # "immediate"
        <4> DEFINE entries == << <<"reprioritise", f, e>>, <<"unlock", f>> >>
        <4>1. /\ entries \in Seq(Entries) /\ Proceed(t, entries)
              /\ \A z \in ToSet(entries) : z[1] \in {"reprioritise", "unlock"} /\ Legal(z)
          BY <2>1, <2>2, <2>3, <3>1, SpentEntries
        <4> HIDE DEF entries
        <4> QED
          BY <4>1 DEF Posts
      <3> QED
        BY <1>1, <2>1, <3>1
    <2> QED
      BY <1>0, <2>1, <2>4 DEF Posts
  <1>10. CASE Arrive(t)
    <2> DEFINE r == Argument(t)
               after == AfterArrival(shared[r], result[Subject(t)])
    <2>1. /\ agenda[t] # <<>> /\ Doing(t, "arrive")
          /\ shared' = [shared EXCEPT ![r] = after]
          /\ Proceed(t, IF after.done THEN << <<"return", r, after.first_error>> >> ELSE <<>>)
          /\ UNCHANGED Bystanders /\ UNCHANGED <<result, on_ready, queue, started>>
      BY <1>10 DEF Arrive, Doing, executorVars
    <2>2. r \in Created /\ r \in Futures /\ after \in Shares
      BY <2>1, ArrivalFacts
    <2> HIDE DEF after
    <2>3. after.first_error \in Results
      BY <2>2 DEF Shares
    <2>4. Posts
      BY <1>1, <1>2, <2>1, <2>2, <2>3
    <2>5. shared' \in [Futures -> Shares] /\ \A f \in Futures \ Created : shared'[f] = shared[f]
      BY <1>0, <2>1, <2>2
    <2> QED
      BY <2>1, <2>4, <2>5 DEF Posts
  <1> QED
    BY <1>3, <1>4, <1>5, <1>6, <1>7, <1>8, <1>9, <1>10 DEF Spends

\* They spend the token of the head, if it has one.
LEMMA SpendsKeeps ==
  ASSUME FutureInv, NEW t \in Threads, Spends(t)
  PROVE  /\ FutureInv'
         /\ \A p, x : Token(p, x)' <=> Token(p, x) /\ ~Carries(Head(agenda[t]), p, x)
  <1>1. PICK entries \in Seq(Entries) :
              /\ Proceed(t, entries)
              /\ \A e \in ToSet(entries) :
                   e[1] \in {"return", "body", "release", "unlock", "reprioritise"} /\ Legal(e)
    BY SpendsForm
  <1>2. /\ agenda[t] # <<>>
        /\ UNCHANGED Bystanders /\ UNCHANGED <<result, on_ready, queue, started>>
        /\ shared' \in [Futures -> Shares]
        /\ \A f \in Futures \ Created : shared'[f] = shared[f]
    BY SpendsForm
  <1>3. FutureInv'
    BY <1>1, <1>2, StepSpends
  <1>4. \A p, x : Token(p, x)' <=> Token(p, x) /\ ~Carries(Head(agenda[t]), p, x)
    <2>1. UNCHANGED <<queue, on_ready, kind, sources>>
      BY <1>2 DEF Bystanders
    <2> QED
      BY <1>1, <1>2, <2>1, TokenSpent DEF FutureInv
  <1> QED
    BY <1>3, <1>4

-----------------------------------------------------------------------------
(* The calls of users.                                                     *)

\* The elements of a finite set in some order.
LEMMA SeqOfSet ==
  ASSUME NEW S, IsFiniteSet(S)
  PROVE  /\ SetToSeq(S) \in Seq(S) /\ Len(SetToSeq(S)) = Cardinality(S)
         /\ DOMAIN SetToSeq(S) = 1 .. Cardinality(S) /\ Cardinality(S) \in Nat
         /\ \A x \in S : \E i \in 1 .. Cardinality(S) : SetToSeq(S)[i] = x
         /\ \A i, j \in 1 .. Cardinality(S) : SetToSeq(S)[i] = SetToSeq(S)[j] => i = j
  <1> DEFINE n == Cardinality(S)
             s == SetToSeq(S)
  <1>1. n \in Nat /\ ExistsBijection(1 .. n, S)
    BY FS_CardinalityType
  <1>2. PICK b \in [1 .. n -> S] : IsInjective(b)
    BY <1>1 DEF ExistsBijection, Bijection, Injection
  <1>3. s \in [1 .. n -> S] /\ IsInjective(s)
    BY <1>2 DEF SetToSeq
  <1>4. IsFiniteSet(1 .. n) /\ Cardinality(1 .. n) = n
    <2>1. IF 1 > n THEN n = 0 ELSE n - 1 + 1 = n
      BY <1>1
    <2> HIDE DEF n
    <2>2. Cardinality(1 .. n) = IF 1 > n THEN 0 ELSE n - 1 + 1
      BY <1>1, FS_Interval
    <2> QED
      BY <1>1, <2>1, <2>2, FS_Interval
  <1> HIDE DEF s, n
  <1>5. s \in Injection(1 .. n, S)
    BY <1>3 DEF Injection
  <1>6. s \in Surjection(1 .. n, S)
    BY <1>4, <1>5, FS_Injection DEF n
  <1>7. \A x \in S : \E i \in 1 .. n : s[i] = x
    BY <1>6 DEF Surjection
  <1>8. \A i, j \in 1 .. n : s[i] = s[j] => i = j
    BY <1>3 DEF IsInjective
  <1>9. s \in Seq(S) /\ Len(s) = n /\ DOMAIN s = 1 .. n
    BY <1>1, <1>3
  <1> QED
    BY <1>1, <1>7, <1>8, <1>9 DEF s, n

\* A call of a user that makes no future.
LEMMA CallKeeps ==
  ASSUME FutureInv, NEW t \in Threads, agenda[t] = <<>>,
         NEW entries \in Seq(Entries), agenda' = [agenda EXCEPT ![t] = entries],
         UNCHANGED <<created, kind, home, accepts, sources, result, on_ready, shared, started>>,
         queue' \in [Queued -> SUBSET Created], \A e \in Queued : queue'[e] \subseteq queue[e],
         handles' \subseteq Created, dropped' \subseteq Created,
         \A e \in ToSet(entries) : e[1] \in {"return", "priority", "release", "unlock"} /\ Legal(e)
  PROVE  /\ FutureInv'
         /\ \A p, x : Token(p, x)' => Token(p, x)
         /\ \A p, x : Token(p, x) =>
              Token(p, x)' \/ \E e \in Queued : x \in queue[e] \ queue'[e]
  <1>1. Steady /\ Created' = Created
    BY DEF Steady, Created
  <1>2. FutureTypes'
    BY <1>1, CallFacts DEF FutureInv, FutureTypes
  <1>3. Lineage'
    BY <1>1 DEF FutureInv, Lineage, ParentOf
  <1>4. AgendasLegal'
    <2>1. \A e \in ToSet(entries) : Legal(e)'
      BY <1>1, LegalKept DEF FutureInv
    <2>2. Posted' \subseteq Posted \cup ToSet(entries)
      BY CallFacts DEF FutureInv
    <2> QED
      BY <1>1, <2>1, <2>2, AgendasKept
  <1>5. RegistrationsLegal' /\ QueuesLegal'
    BY <1>1, RegistrationsKept, QueuesKept
  <1>6. /\ OneToken'
        /\ \A p, x : Token(p, x)' => Token(p, x)
        /\ \A p, x : Token(p, x) =>
             Token(p, x)' \/ \E e \in Queued : x \in queue[e] \ queue'[e]
    BY TokensOfCall DEF FutureInv
  <1>7. NotYetCalled' /\ CalledOnceInOrder'
    BY <1>1, <1>2, <1>3, <1>6, CallsKept, OrderKept
  <1> QED
    BY <1>2, <1>3, <1>4, <1>5, <1>6, <1>7 DEF FutureInv

\* The calls that post one entry, or none.
Intervenes(t) ==
  \/ \E f \in Created : Cancel(t, f) \/ UpdatePriority(t, f) \/ DropHandle(t, f)
  \/ ShutdownBackground(t)

\* Cancel, UpdatePriority, dropping a handle and ShutdownBackground move no token.
LEMMA IntervenesKeeps ==
  ASSUME FutureInv, NEW t \in Threads, Intervenes(t)
  PROVE  FutureInv' /\ \A p, x : Token(p, x)' <=> Token(p, x)
  <1>1. /\ UNCHANGED <<created, kind, home, accepts, sources, result, on_ready, shared, started,
                      dropped, queue>>
        /\ handles' \subseteq handles /\ agenda[t] = <<>>
        /\ \E entries :
             /\ agenda' = [agenda EXCEPT ![t] = entries]
             /\ \/ entries = <<>>
                \/ \E f \in Created : \/ entries = << <<"return", f, "cancelled">> >>
                                      \/ entries = << <<"priority", f>> >>
                                      \/ entries = << <<"release", f>> >>
    BY DEF Intervenes, Cancel, UpdatePriority, DropHandle, ShutdownBackground, UserCall, Idle,
           executorVars, StopBackground
  <1>2. PICK entries :
          /\ agenda' = [agenda EXCEPT ![t] = entries]
          /\ \/ entries = <<>>
             \/ \E f \in Created : \/ entries = << <<"return", f, "cancelled">> >>
                                   \/ entries = << <<"priority", f>> >>
                                   \/ entries = << <<"release", f>> >>
    BY <1>1
  <1>3. /\ entries \in Seq(Entries)
        /\ \A e \in ToSet(entries) :
             e[1] \in {"return", "priority", "release", "unlock"} /\ Legal(e)
    <2>1. CASE entries = <<>>
      BY <2>1, SpentEntries
    <2>2. ASSUME NEW f \in Created, NEW e,
                 e \in {<<"return", f, "cancelled">>, <<"priority", f>>, <<"release", f>>},
                 entries = <<e>>
          PROVE  /\ entries \in Seq(Entries)
                 /\ \A z \in ToSet(entries) :
                      z[1] \in {"return", "priority", "release", "unlock"} /\ Legal(z)
      <3>1. f \in Futures /\ f \in 0 .. MaxFutures /\ "cancelled" \in Results
        BY FutureAssumption DEF FutureInv, FutureTypes, Created, Futures, Results
      <3>2. e \in Entries
        BY <2>2, <3>1 DEF Entries
      <3>3. Legal(e) /\ e[1] \in {"return", "priority", "release", "unlock"}
        BY <2>2 DEF Legal
      <3>4. ToSet(entries) = {e} /\ entries \in Seq(Entries)
        BY <2>2, <3>2 DEF ToSet
      <3> QED
        BY <3>3, <3>4
    <2> QED
      BY <1>2, <2>1, <2>2
  <1>4. /\ queue' \in [Queued -> SUBSET Created] /\ \A e \in Queued : queue'[e] \subseteq queue[e]
        /\ handles' \subseteq Created /\ dropped' \subseteq Created /\ queue' = queue
    BY <1>1 DEF FutureInv, FutureTypes
  <1> QED
    BY <1>1, <1>2, <1>3, <1>4, CallKeeps

\* SimpleForegroundExecutor::Shutdown drops the tokens of the tasks it clears.
LEMMA ShutdownKeeps ==
  ASSUME FutureInv, NEW t \in Threads, ShutdownForeground(t)
  PROVE  /\ FutureInv'
         /\ \A p, x : Token(p, x)' => Token(p, x)
         /\ \A p, x : Token(p, x) => Token(p, x)' \/ x \in dropped'
         /\ \A e \in Posted' \ Posted : e[1] # "return"
         /\ <<"unlock", ForegroundMutex>> \in ToSet(agenda'[t])
  <1> DEFINE tasks == queue["foreground"]
             order == SetToSeq(tasks)
             releases == [i \in DOMAIN order |-> <<"release", order[i]>>]
             last == << <<"unlock", ForegroundMutex>> >>
             entries == releases \o last
  <1>1. /\ agenda[t] = <<>> /\ agenda' = [agenda EXCEPT ![t] = entries]
        /\ UNCHANGED <<created, kind, home, accepts, sources, result, on_ready, shared, started,
                      handles>>
        /\ dropped' = dropped \cup tasks
        /\ queue' = [queue EXCEPT !["foreground"] = {}]
    BY DEF ShutdownForeground, Idle, StopForeground
  <1>2. tasks \subseteq Created /\ tasks \subseteq 0 .. MaxFutures /\ IsFiniteSet(tasks)
    <2>1. tasks \subseteq Created /\ Created \subseteq 0 .. MaxFutures
      BY FutureAssumption DEF FutureInv, FutureTypes, Created, Futures, Queued
    <2>2. IsFiniteSet(0 .. MaxFutures)
      BY FutureAssumption, FS_Interval
    <2> QED
      BY <2>1, <2>2, FS_Subset
  <1> HIDE DEF tasks
  <1>3. order \in Seq(tasks) /\ DOMAIN order = 1 .. Len(order) /\ Len(order) \in Nat
    BY <1>2, SeqOfSet
  <1> HIDE DEF order
  <1>4. /\ releases \in Seq(Entries)
        /\ \A e \in ToSet(releases) : e[1] = "release" /\ Legal(e)
    <2>1. ASSUME NEW i \in DOMAIN order
          PROVE  /\ <<"release", order[i]>> \in Entries
                 /\ <<"release", order[i]>>[1] = "release" /\ Legal(<<"release", order[i]>>)
      <3>0. order[i] \in tasks
        <4>1. i \in 1 .. Len(order)
          BY <1>3
        <4> QED
          BY <1>3, <4>1
      <3>1. order[i] \in Created /\ order[i] \in 0 .. MaxFutures
        BY <1>2, <3>0
      <3> QED
        BY <3>1 DEF Entries, Legal
    <2>2. releases \in Seq(Entries) /\ DOMAIN releases = DOMAIN order
      BY <1>3, <2>1
    <2> QED
      BY <2>1, <2>2 DEF ToSet
  <1>5. /\ last \in Seq(Entries) /\ \A e \in ToSet(last) : e[1] = "unlock" /\ Legal(e)
        /\ <<"unlock", ForegroundMutex>> \in ToSet(last)
    <2> DEFINE e0 == <<"unlock", ForegroundMutex>>
    <2>1. e0 \in Entries /\ e0[1] = "unlock" /\ Legal(e0)
      BY FutureAssumption DEF Entries, Legal, ForegroundMutex
    <2> HIDE DEF e0
    <2>2. <<e0>> \in Seq(Entries) /\ ToSet(<<e0>>) = {e0}
      BY <2>1 DEF ToSet
    <2> QED
      BY <2>1, <2>2 DEF e0
  <1> HIDE DEF releases, last
  <1>6. entries \in Seq(Entries) /\ ToSet(entries) = ToSet(releases) \cup ToSet(last)
    BY <1>4, <1>5, JoinFacts
  <1> HIDE DEF entries
  <1>7. \A e \in ToSet(entries) : e[1] \in {"return", "priority", "release", "unlock"} /\ Legal(e)
    BY <1>4, <1>5, <1>6
  <1>8. /\ queue' \in [Queued -> SUBSET Created]
        /\ \A e \in Queued : queue'[e] \subseteq queue[e] /\ queue[e] \ queue'[e] \subseteq tasks
        /\ handles' \subseteq Created /\ dropped' \subseteq Created
    BY <1>1, <1>2 DEF FutureInv, FutureTypes, Queued, tasks
  <1>9. /\ FutureInv'
        /\ \A p, x : Token(p, x)' => Token(p, x)
        /\ \A p, x : Token(p, x) =>
             Token(p, x)' \/ \E e \in Queued : x \in queue[e] \ queue'[e]
    BY <1>1, <1>6, <1>7, <1>8, CallKeeps
  <1>10. \A e \in Posted' \ Posted : e[1] # "return"
    <2>1. Posted' = Posted \cup ToSet(entries)
      BY <1>1, <1>6, CallFacts DEF FutureInv
    <2>2. \A e \in ToSet(entries) : e[1] # "return"
      BY <1>4, <1>5, <1>6
    <2> QED
      BY <2>1, <2>2
  <1>11. <<"unlock", ForegroundMutex>> \in ToSet(agenda'[t])
    BY <1>1, <1>5, <1>6, CallFacts DEF FutureInv
  <1> QED
    BY <1>1, <1>8, <1>9, <1>10, <1>11

\* The origins and the executor that a future of each kind is made with.
RightlyMade(how, type, takes_result, origins) ==
  /\ how \in Continuations => \E p : origins = {p}
  /\ how \in {"status", "merge"} => takes_result = TRUE /\ type = "immediate"
  /\ how = "schedule" => origins = {}

\* Entries that may come with a new future: they carry that one, each for a reason of its own.
RightlyLeft(entries) ==
  /\ \A e \in ToSet(entries) : Legal(e)'
  /\ \A d \in 1 .. Len(entries) : \A p, x : CarriesNext(Nth(entries, d), p, x) => x = created + 1
  /\ \A c, d \in 1 .. Len(entries) : \A p, x :
       CarriesNext(Nth(entries, c), p, x) /\ CarriesNext(Nth(entries, d), p, x) => c = d

\* The tokens there are when a call has left entries.
TokensLeft(entries) ==
  /\ \A p, x : x # created + 1 => (Token(p, x)' <=> Token(p, x))
  /\ \A p, x : x = created + 1 =>
       (Token(p, x)' <=> \E d \in 1 .. Len(entries) : CarriesNext(Nth(entries, d), p, x))

\* A future made with tokens for each of its sources.
LEMMA MakeKeeps ==
  ASSUME FutureInv, NEW t \in Threads, NEW how \in Kinds, NEW type \in Types,
         NEW takes_result \in BOOLEAN, NEW origins \in SUBSET Created, NEW state \in Shares,
         NEW entries \in Seq(Entries),
         Create(t, how, type, takes_result, origins, state, entries),
         RightlyMade(how, type, takes_result, origins), RightlyLeft(entries)
  PROVE  FutureInv' /\ Steady /\ TokensLeft(entries)
  <1> USE DEF RightlyMade, RightlyLeft
  <1>0. PICK f : f = created + 1
    OBVIOUS
  <1>1. /\ agenda[t] = <<>> /\ agenda' = [agenda EXCEPT ![t] = entries]
        /\ UNCHANGED <<queue, on_ready, result, started, dropped>>
        /\ created \in Nat /\ created' = f
        /\ handles' = handles \cup {f}
        /\ kind' = [kind EXCEPT ![f] = how] /\ sources' = [sources EXCEPT ![f] = origins]
        /\ home' = [home EXCEPT ![f] = type] /\ accepts' = [accepts EXCEPT ![f] = takes_result]
        /\ shared' = [shared EXCEPT ![f] = state]
    BY <1>0 DEF Create, Idle, executorVars, FutureInv, FutureTypes
  <1>2. /\ f \in Futures /\ f \in 0 .. MaxFutures /\ f \notin Created
        /\ Created' = Created \cup {f} /\ Created \subseteq Futures /\ f \in Created'
        /\ Created = 1 .. f - 1
    <2>1. created < MaxFutures /\ created \in Nat /\ MaxFutures \in Nat
      BY <1>1, FutureAssumption DEF Create
    <2>2. Created = 1 .. created /\ Created' = 1 .. f /\ Futures = 1 .. MaxFutures
      BY <1>1 DEF Created, Futures
    <2> QED
      BY <1>0, <2>1, <2>2
  <1>3. /\ kind'[f] = how /\ \A g \in Futures \ {f} : kind'[g] = kind[g]
        /\ sources'[f] = origins /\ \A g \in Futures \ {f} : sources'[g] = sources[g]
        /\ home'[f] = type /\ \A g \in Futures \ {f} : home'[g] = home[g]
        /\ accepts'[f] = takes_result /\ \A g \in Futures \ {f} : accepts'[g] = accepts[g]
        /\ shared'[f] = state /\ \A g \in Futures \ {f} : shared'[g] = shared[g]
    BY <1>1, <1>2 DEF FutureInv, FutureTypes
  <1>4. Steady
    BY <1>1, <1>2, <1>3 DEF Steady
  <1>5. FutureTypes'
    <2>1. agenda' \in [Threads -> Seq(Entries)]
      BY <1>1, CallFacts DEF FutureInv
    <2>2. /\ kind' \in [Futures -> Kinds \cup {"none"}] /\ home' \in [Futures -> Types]
          /\ accepts' \in [Futures -> BOOLEAN] /\ sources' \in [Futures -> SUBSET Futures]
          /\ shared' \in [Futures -> Shares]
      BY <1>1, <1>2 DEF FutureInv, FutureTypes
    <2>3. /\ handles' \subseteq Created' /\ dropped' \subseteq Created'
          /\ queue' \in [Queued -> SUBSET Created']
      BY <1>1, <1>2 DEF FutureInv, FutureTypes
    <2> QED
      BY <1>1, <1>2, <2>1, <2>2, <2>3 DEF FutureInv, FutureTypes
  <1>6. Lineage'
    <2>1. \A g \in Futures \ Created' :
            /\ kind'[g] = "none" /\ result'[g] = "none" /\ on_ready'[g] = <<>> /\ started'[g] = 0
            /\ sources'[g] = {} /\ shared'[g] = NoShared /\ ~accepts'[g]
      BY <1>1, <1>2, <1>3 DEF FutureInv, Lineage
    <2>2. ASSUME NEW g \in Created
          PROVE  /\ kind'[g] # "none"
                 /\ sources'[g] \subseteq 1 .. g - 1
                 /\ kind'[g] \in Continuations => sources'[g] = {ParentOf(g)'}
                 /\ kind'[g] \in {"status", "merge"} => accepts'[g] /\ home'[g] = "immediate"
                 /\ kind'[g] = "schedule" => sources'[g] = {}
      <3>1. ParentOf(g)' = ParentOf(g)
        BY <1>4, LegalKept DEF FutureInv
      <3>2. g \in Futures \ {f}
        BY <1>2
      <3> QED
        BY <1>3, <3>1, <3>2 DEF FutureInv, Lineage
    <2>3. /\ kind'[f] # "none"
          /\ sources'[f] \subseteq 1 .. f - 1
          /\ kind'[f] \in Continuations => sources'[f] = {ParentOf(f)'}
          /\ kind'[f] \in {"status", "merge"} => accepts'[f] /\ home'[f] = "immediate"
          /\ kind'[f] = "schedule" => sources'[f] = {}
      <3>1. how # "none"
        BY DEF Kinds
      <3>2. how \in Continuations => origins = {CHOOSE p \in origins : TRUE}
        OBVIOUS
      <3>3. kind'[f] \in Continuations => sources'[f] = {ParentOf(f)'}
        BY <1>3, <3>2 DEF ParentOf
      <3> QED
        BY <1>2, <1>3, <3>1, <3>3
    <2>4. \A g \in Created' : g \in Created \/ g = f
      BY <1>2
    <2> QED
      BY <2>1, <2>2, <2>3, <2>4 DEF Lineage
  <1>7. AgendasLegal'
    <2>1. Posted' \subseteq Posted \cup ToSet(entries)
      BY <1>1, CallFacts DEF FutureInv
    <2> QED
      BY <1>4, <2>1, AgendasKept
  <1>8. RegistrationsLegal' /\ QueuesLegal'
    BY <1>1, <1>4, RegistrationsKept, QueuesKept
  <1>9. /\ OneToken'
        /\ \A p, x : x # f => (Token(p, x)' <=> Token(p, x))
        /\ \A p : Token(p, f)' <=> \E d \in 1 .. Len(entries) : CarriesNext(Nth(entries, d), p, f)
    BY <1>0, TokensMade DEF FutureInv
  <1>10. NotYetCalled'
    <2> SUFFICES ASSUME NEW p, NEW x, Token(p, x)', kind'[x] # "combine"
                 PROVE  started'[x] = 0
      BY DEF NotYetCalled
    <2>1. CASE x = f
      BY <1>1, <1>2, <2>1 DEF FutureInv, Lineage
    <2>2. CASE x # f
      <3>1. Token(p, x)
        BY <1>9, <2>2
      <3>2. x \in Futures
        BY <3>1, TokenSense DEF FutureInv
      <3> QED
        BY <1>1, <1>3, <2>2, <3>1, <3>2 DEF FutureInv, NotYetCalled
    <2> QED
      BY <2>1, <2>2
  <1>11. CalledOnceInOrder'
    <2>1. \A g \in Created' \ Created : started[g] = 0
      BY <1>2 DEF FutureInv, Lineage
    <2> QED
      BY <1>1, <1>4, <1>5, <1>6, <2>1, OrderKept
  <1> QED
    BY <1>0, <1>4, <1>5, <1>6, <1>7, <1>8, <1>9, <1>10, <1>11 DEF FutureInv, TokensLeft

\* What the making of a future leaves: its own tokens, the others' as they were.
MadeRight(t) ==
  /\ FutureInv' /\ Steady
  /\ created' = created + 1 /\ agenda[t] = <<>>
  /\ UNCHANGED <<queue, on_ready, result, started, dropped>>
  /\ \A u \in Threads \ {t} : agenda'[u] = agenda[u]
  /\ \A g \in Created : shared'[g] = shared[g]
  /\ \A p, x : x # created + 1 => (Token(p, x)' <=> Token(p, x))
  /\ \A f : f = created + 1 =>
       /\ kind'[f] \in Continuations \cup {"combine"} => \A p : Token(p, f)' <=> p \in sources'[f]
       /\ kind'[f] = "schedule" => Token(0, f)'

\* What Create does to the state.
LEMMA CreateFacts ==
  ASSUME FutureInv, NEW t \in Threads, NEW how, NEW type, NEW takes_result,
         NEW origins, NEW state, NEW entries,
         Create(t, how, type, takes_result, origins, state, entries)
  PROVE  /\ agenda[t] = <<>> /\ agenda' = [agenda EXCEPT ![t] = entries]
         /\ UNCHANGED <<queue, on_ready, result, started, dropped>>
         /\ created \in Nat /\ created' = created + 1
         /\ created + 1 \in Futures /\ created + 1 \in 0 .. MaxFutures
         /\ Created' = Created \cup {created + 1} /\ created + 1 \notin Created
         /\ Created \subseteq Futures
         /\ kind'[created + 1] = how /\ sources'[created + 1] = origins
         /\ shared'[created + 1] = state
         /\ \A g \in Created : shared'[g] = shared[g]
         /\ \A u \in Threads \ {t} : agenda'[u] = agenda[u]
  <1> DEFINE f == created + 1
  <1>1. /\ agenda[t] = <<>> /\ agenda' = [agenda EXCEPT ![t] = entries]
        /\ UNCHANGED <<queue, on_ready, result, started, dropped>>
        /\ created \in Nat /\ created' = f
        /\ kind' = [kind EXCEPT ![f] = how] /\ sources' = [sources EXCEPT ![f] = origins]
        /\ shared' = [shared EXCEPT ![f] = state]
    BY DEF Create, Idle, executorVars, FutureInv, FutureTypes
  <1>2. /\ f \in Futures /\ f \in 0 .. MaxFutures /\ f \notin Created
        /\ Created' = Created \cup {f} /\ Created \subseteq Futures
    <2> HIDE DEF f
    <2>1. created < MaxFutures /\ created \in Nat /\ MaxFutures \in Nat
      BY <1>1, FutureAssumption DEF Create
    <2>2. Created = 1 .. created /\ Created' = 1 .. f /\ Futures = 1 .. MaxFutures
      BY <1>1 DEF Created, Futures
    <2> QED
      BY <2>1, <2>2 DEF f
  <1> HIDE DEF f
  <1>3. /\ kind'[f] = how /\ sources'[f] = origins /\ shared'[f] = state
        /\ \A g \in Created : shared'[g] = shared[g]
        /\ \A u \in Threads \ {t} : agenda'[u] = agenda[u]
    BY <1>1, <1>2 DEF FutureInv, FutureTypes
  <1> QED
    BY <1>1, <1>2, <1>3 DEF f

\* A future that is attached to those it is made from.
LEMMA MakesAttached ==
  ASSUME FutureInv, NEW t \in Threads,
         NEW how \in Continuations \cup {"combine"},
         NEW type \in Types, NEW takes_result \in BOOLEAN,
         NEW order \in Seq(Created), NEW origins, NEW state \in Shares, NEW entries,
         \A x : x \in origins <=> \E i \in 1 .. Len(order) : x = order[i],
         \A i, j \in 1 .. Len(order) : order[i] = order[j] => i = j,
         entries \in Seq(Entries), Len(entries) = Len(order),
         \A i \in 1 .. Len(order) : entries[i] = <<"attach", order[i], created + 1>>,
         Create(t, how, type, takes_result, origins, state, entries),
         how \in Continuations => \E p : origins = {p},
         how \in {"status", "merge"} => takes_result = TRUE /\ type = "immediate"
  PROVE  MadeRight(t)
  <1>0. PICK f : f = created + 1
    OBVIOUS
  <1> DEFINE n == Len(order)
  <1>2. /\ agenda[t] = <<>> /\ UNCHANGED <<queue, on_ready, result, started, dropped>>
        /\ created \in Nat /\ created' = f /\ f \in Futures
        /\ Created' = Created \cup {f} /\ f \notin Created /\ Created \subseteq Futures
        /\ kind'[f] = how /\ sources'[f] = origins
        /\ \A g \in Created : shared'[g] = shared[g]
        /\ \A u \in Threads \ {t} : agenda'[u] = agenda[u]
    BY <1>0, CreateFacts
  <1>3. n \in Nat /\ DOMAIN order = 1 .. n /\ \A i \in 1 .. n : order[i] \in Created
    OBVIOUS
  <1>4. /\ entries \in Seq(Entries) /\ Len(entries) = n
        /\ \A i \in 1 .. n : entries[i] = <<"attach", order[i], f>>
    BY <1>0
  <1> HIDE DEF n
  <1>5. ASSUME NEW d \in 1 .. n, NEW p, NEW x
        PROVE  CarriesNext(Nth(entries, d), p, x) <=> p = order[n + 1 - d] /\ x = f
    <2>1. n + 1 - d \in 1 .. n
      BY <1>3
    <2>2. Nth(entries, d) = <<"attach", order[n + 1 - d], f>>
      BY <1>4, <2>1 DEF Nth
    <2> QED
      BY <2>2 DEF CarriesNext
  <1>6. \A e \in ToSet(entries) : Legal(e)'
    <2>1. ASSUME NEW i \in 1 .. n PROVE Legal(<<"attach", order[i], f>>)'
      <3>1. order[i] \in Created' /\ f \in Created' /\ order[i] \in origins
        BY <1>2, <1>3 DEF n
      <3>2. Follows(f, order[i])'
        BY <1>2, <3>1 DEF Follows
      <3> QED
        BY <3>1, <3>2 DEF Legal
    <2> SUFFICES ASSUME NEW e \in ToSet(entries) PROVE Legal(e)'
      OBVIOUS
    <2>2. DOMAIN entries = 1 .. n
      BY <1>4
    <2>3. PICK i \in 1 .. n : e = entries[i]
      BY <2>2 DEF ToSet
    <2>4. e = <<"attach", order[i], f>>
      BY <1>4, <2>3
    <2> QED
      BY <2>1, <2>4
  <1>7. /\ \A d \in 1 .. Len(entries) : \A p, x : CarriesNext(Nth(entries, d), p, x) => x = f
        /\ \A c, d \in 1 .. Len(entries) : \A p, x :
             CarriesNext(Nth(entries, c), p, x) /\ CarriesNext(Nth(entries, d), p, x) => c = d
    <2>1. ASSUME NEW c \in 1 .. n, NEW d \in 1 .. n, order[n + 1 - c] = order[n + 1 - d]
          PROVE  c = d
      <3>1. n + 1 - c \in 1 .. n /\ n + 1 - d \in 1 .. n
        BY <1>3
      <3>2. n + 1 - c = n + 1 - d
        BY <2>1, <3>1 DEF n
      <3> QED
        BY <1>3, <3>2
    <2>2. ASSUME NEW c \in 1 .. n, NEW d \in 1 .. n, NEW p, NEW x,
                 CarriesNext(Nth(entries, c), p, x), CarriesNext(Nth(entries, d), p, x)
          PROVE  c = d
      BY <1>5, <2>1, <2>2
    <2> QED
      BY <1>4, <1>5, <2>2
  <1>8. how \in Kinds /\ origins \in SUBSET Created /\ how # "schedule"
    BY <1>3 DEF Kinds, Continuations, n
  <1>9. /\ FutureInv' /\ Steady
        /\ \A p, x : x # f => (Token(p, x)' <=> Token(p, x))
        /\ \A p : Token(p, f)' <=> \E d \in 1 .. Len(entries) : CarriesNext(Nth(entries, d), p, f)
    <2>1. RightlyMade(how, type, takes_result, origins) /\ RightlyLeft(entries)
      BY <1>0, <1>6, <1>7, <1>8 DEF RightlyMade, RightlyLeft
    <2>2. FutureInv' /\ Steady /\ TokensLeft(entries)
      BY <1>8, <2>1, MakeKeeps
    <2> QED
      BY <1>0, <2>2 DEF TokensLeft
  <1>10. ASSUME NEW p PROVE Token(p, f)' <=> p \in sources'[f]
    <2>1. Token(p, f)' <=> \E d \in 1 .. n : p = order[n + 1 - d]
      BY <1>4, <1>5, <1>9
    <2>2. ASSUME NEW i \in 1 .. n PROVE \E d \in 1 .. n : order[i] = order[n + 1 - d]
      <3>1. n + 1 - i \in 1 .. n /\ n + 1 - (n + 1 - i) = i
        BY <1>3
      <3> QED
        BY <3>1
    <2>3. \A d \in 1 .. n : n + 1 - d \in 1 .. n
      BY <1>3
    <2>4. sources'[f] = origins /\ (p \in origins <=> \E i \in 1 .. n : p = order[i])
      BY <1>2 DEF n
    <2>5. (\E i \in 1 .. n : p = order[i]) <=> \E d \in 1 .. n : p = order[n + 1 - d]
      BY <2>2, <2>3
    <2> QED
      BY <2>1, <2>4, <2>5
  <1> QED
    BY <1>0, <1>2, <1>8, <1>9, <1>10 DEF MadeRight

\* A future that waits for nobody.
LEMMA MakesAlone ==
  ASSUME FutureInv, NEW t \in Threads,
         NEW how \in {"promise", "schedule", "combine"},
         NEW type \in Types, NEW state \in Shares, NEW entries \in Seq(Entries),
         Create(t, how, type, FALSE, {}, state, entries),
         \/ how = "promise" /\ entries = <<>>
         \/ how = "schedule" /\ entries = << <<"submit", created + 1>> >>
         \/ how = "combine" /\ entries = << <<"return", created + 1, "ok">> >>
  PROVE  MadeRight(t)
  <1>0. PICK f : f = created + 1
    OBVIOUS
  <1>1. /\ agenda[t] = <<>> /\ UNCHANGED <<queue, on_ready, result, started, dropped>>
        /\ created \in Nat /\ created' = f /\ f \in Futures
        /\ Created' = Created \cup {f} /\ f \notin Created /\ Created \subseteq Futures
        /\ kind'[f] = how /\ sources'[f] = {}
        /\ \A g \in Created : shared'[g] = shared[g]
        /\ \A u \in Threads \ {t} : agenda'[u] = agenda[u]
    BY <1>0, CreateFacts
  <1>2. /\ \A e \in ToSet(entries) : Legal(e)'
        /\ \A d \in 1 .. Len(entries) : \A p, x : CarriesNext(Nth(entries, d), p, x) => x = f
        /\ \A c, d \in 1 .. Len(entries) : c = d
        /\ how \in {"promise", "combine"} =>
             \A d \in 1 .. Len(entries) : \A p, x : ~CarriesNext(Nth(entries, d), p, x)
        /\ how = "schedule" => \E d \in 1 .. Len(entries) : CarriesNext(Nth(entries, d), 0, f)
    <2>1. CASE how = "promise"
      <3>1. entries = <<>> /\ ToSet(<<>>) = {} /\ Len(<<>>) = 0
        BY <2>1 DEF ToSet
      <3> QED
        BY <2>1, <3>1
    <2>2. CASE how = "schedule"
      <3> DEFINE e0 == <<"submit", f>>
      <3>1. Legal(e0)'
        BY <1>1, <2>2 DEF Legal, MayCall, Callables, Continuations
      <3>2. \A p, x : CarriesNext(e0, p, x) => x = f
        BY DEF CarriesNext
      <3>3. CarriesNext(e0, 0, f)
        BY <1>1, <2>2 DEF CarriesNext, Origin, Continuations
      <3> HIDE DEF e0
      <3>4. entries = <<e0>>
        BY <1>0, <2>2 DEF e0
      <3>5. ToSet(entries) = {e0} /\ Len(entries) = 1 /\ Nth(entries, 1) = e0
        BY <3>4 DEF ToSet, Nth
      <3> QED
        BY <2>2, <3>1, <3>2, <3>3, <3>5
    <2>3. CASE how = "combine"
      <3> DEFINE e0 == <<"return", f, "ok">>
      <3>1. Legal(e0)'
        BY <1>1 DEF Legal
      <3>2. \A p, x : ~CarriesNext(e0, p, x)
        BY DEF CarriesNext
      <3> HIDE DEF e0
      <3>3. entries = <<e0>>
        BY <1>0, <2>3 DEF e0
      <3>4. ToSet(entries) = {e0} /\ Len(entries) = 1 /\ Nth(entries, 1) = e0
        BY <3>3 DEF ToSet, Nth
      <3> QED
        BY <2>3, <3>1, <3>2, <3>4
    <2> QED
      BY <2>1, <2>2, <2>3
  <1>3. how \in Kinds /\ how \notin Continuations /\ {} \in SUBSET Created /\ FALSE \in BOOLEAN
    BY DEF Kinds, Continuations
  <1>4. /\ FutureInv' /\ Steady
        /\ \A p, x : x # f => (Token(p, x)' <=> Token(p, x))
        /\ \A p : Token(p, f)' <=> \E d \in 1 .. Len(entries) : CarriesNext(Nth(entries, d), p, f)
    <2>1. RightlyMade(how, type, FALSE, {}) /\ RightlyLeft(entries)
      BY <1>0, <1>2, <1>3 DEF RightlyMade, RightlyLeft
    <2>2. FutureInv' /\ Steady /\ TokensLeft(entries)
      BY <1>3, <2>1, MakeKeeps
    <2> QED
      BY <1>0, <2>2 DEF TokensLeft
  <1> QED
    BY <1>0, <1>1, <1>2, <1>3, <1>4 DEF MadeRight

\* A continuation: attached to one parent.
LEMMA MakesContinuation ==
  ASSUME FutureInv, NEW t \in Threads, NEW how \in Continuations, NEW type \in Types,
         NEW takes_result \in BOOLEAN, NEW p \in Created,
         Create(t, how, type, takes_result, {p}, NoShared, << <<"attach", p, created + 1>> >>),
         how \in {"status", "merge"} => takes_result = TRUE /\ type = "immediate"
  PROVE  MadeRight(t)
  <1>1. PICK order, entries : order = <<p>> /\ entries = << <<"attach", p, created + 1>> >>
    OBVIOUS
  <1>2. /\ order \in Seq(Created) /\ Len(order) = 1 /\ order[1] = p
        /\ Len(entries) = 1 /\ entries[1] = <<"attach", p, created + 1>>
    BY <1>1
  <1>3. entries \in Seq(Entries)
    <2>1. <<"attach", p, created + 1>> \in Entries
      BY CreateFacts DEF Entries
    <2> QED
      BY <1>1, <2>1
  <1>4. NoShared \in Shares /\ how \in Continuations \cup {"combine"} /\ \E q : {p} = {q}
    BY DEF NoShared, Shares, Results
  <1>5. Create(t, how, type, takes_result, {p}, NoShared, entries)
    BY <1>1
  <1>6. /\ \A x : x \in {p} <=> \E i \in 1 .. Len(order) : x = order[i]
        /\ \A i, j \in 1 .. Len(order) : order[i] = order[j] => i = j
        /\ \A i \in 1 .. Len(order) : entries[i] = <<"attach", order[i], created + 1>>
    BY <1>2
  <1>7. CASE takes_result = TRUE
    <2>1. Create(t, how, type, TRUE, {p}, NoShared, entries)
      BY <1>5, <1>7
    <2> QED
      BY <1>2, <1>3, <1>4, <1>6, <1>7, <2>1, MakesAttached
  <1>8. CASE takes_result = FALSE
    <2>1. Create(t, how, type, FALSE, {p}, NoShared, entries) /\ how \notin {"status", "merge"}
      BY <1>5, <1>8
    <2> QED
      BY <1>2, <1>3, <1>4, <1>6, <2>1, MakesAttached
  <1> QED
    BY <1>7, <1>8

\* Combine attaches the new future to every input, or returns at once.
LEMMA MakesCombined ==
  ASSUME FutureInv, NEW t \in Threads, NEW inputs, NEW wait_for_all \in BOOLEAN,
         CombineStatusFutures(t, inputs, wait_for_all)
  PROVE  /\ MadeRight(t)
         /\ kind'[created + 1] = "combine" /\ sources'[created + 1] = inputs
         /\ inputs \subseteq Created /\ IsFiniteSet(inputs)
         /\ shared'[created + 1] =
              [NoShared EXCEPT !.remaining = Cardinality(inputs), !.wait_all = wait_for_all]
         /\ inputs = {} => ToSet(agenda'[t]) = {<<"return", created + 1, "ok">>}
  <1> DEFINE f == created + 1
             order == SetToSeq(inputs)
             state == [NoShared EXCEPT !.remaining = Cardinality(inputs), !.wait_all = wait_for_all]
             one == << <<"return", f, "ok">> >>
             many == [i \in DOMAIN order |-> <<"attach", order[i], f>>]
  <1>1. /\ inputs \subseteq handles
        /\ Create(t, "combine", "immediate", FALSE, inputs, state,
                  IF inputs = {} THEN one ELSE many)
    BY DEF CombineStatusFutures
  <1>2. inputs \subseteq Created /\ IsFiniteSet(inputs) /\ Cardinality(inputs) \in Nat
    <2>1. inputs \subseteq Created
      BY <1>1 DEF FutureInv, FutureTypes
    <2>2. IsFiniteSet(Created)
      BY FutureAssumption, FS_Interval DEF Created, FutureInv, FutureTypes
    <2> QED
      BY <2>1, <2>2, FS_Subset, FS_CardinalityType
  <1>3. state \in Shares
    BY <1>2 DEF NoShared, Shares, Results
  <1>4. /\ order \in Seq(inputs) /\ Len(order) = Cardinality(inputs)
        /\ \A x \in inputs : \E i \in 1 .. Len(order) : order[i] = x
        /\ \A i, j \in 1 .. Len(order) : order[i] = order[j] => i = j
    BY <1>2, SeqOfSet
  <1> HIDE DEF order, state
  <1>5. /\ order \in Seq(Created)
        /\ \A x : x \in inputs <=> \E i \in 1 .. Len(order) : x = order[i]
    BY <1>2, <1>4
  <1>6. "immediate" \in Types /\ FALSE \in BOOLEAN
    BY DEF Types
  <1>7. PICK entries : entries = IF inputs = {} THEN one ELSE many
    OBVIOUS
  <1>8. Create(t, "combine", "immediate", FALSE, inputs, state, entries)
    BY <1>1, <1>7
  <1>10. /\ kind'[f] = "combine" /\ sources'[f] = inputs /\ shared'[f] = state
         /\ agenda' = [agenda EXCEPT ![t] = entries]
         /\ f \in Futures /\ Created \subseteq Futures
    BY <1>8, CreateFacts
  <1>11. MadeRight(t)
    <2>1. CASE inputs = {}
      <3>1. Create(t, "combine", "immediate", FALSE, {}, state, entries)
        BY <1>8, <2>1
      <3>2. entries = << <<"return", f, "ok">> >>
        BY <1>7, <2>1
      <3>3. entries \in Seq(Entries)
        <4>1. <<"return", f, "ok">> \in Entries
          BY <1>10 DEF Entries, Results
        <4> QED
          BY <3>2, <4>1
      <3> QED
        BY <1>3, <1>6, <3>1, <3>2, <3>3, MakesAlone
    <2>2. CASE inputs # {}
      <3>1. entries = many /\ DOMAIN order = 1 .. Len(order) /\ Len(order) \in Nat
        BY <1>5, <1>7, <2>2
      <3>2. \A i \in 1 .. Len(order) : <<"attach", order[i], f>> \in Entries
        BY <1>5, <1>10 DEF Entries
      <3>3. entries \in [1 .. Len(order) -> Entries]
        BY <3>1, <3>2
      <3>4. /\ entries \in Seq(Entries) /\ Len(entries) = Len(order)
            /\ \A i \in 1 .. Len(order) : entries[i] = <<"attach", order[i], f>>
        BY <3>1, <3>3
      <3>5. "combine" \in Continuations \cup {"combine"} /\ "combine" \notin Continuations
        BY DEF Continuations
      <3> HIDE DEF many
      <3> QED
        BY <1>3, <1>4, <1>5, <1>6, <1>8, <3>4, <3>5, MakesAttached
    <2> QED
      BY <2>1, <2>2
  <1>9. inputs = {} => ToSet(agenda'[t]) = {<<"return", f, "ok">>}
    <2> SUFFICES ASSUME inputs = {} PROVE ToSet(agenda'[t]) = {<<"return", f, "ok">>}
      OBVIOUS
    <2>1. agenda'[t] = one
      BY <1>7, <1>10 DEF FutureInv, FutureTypes
    <2> QED
      BY <2>1 DEF ToSet
  <1> QED
    BY <1>2, <1>9, <1>10, <1>11 DEF state

\* The calls that make a future.
Makes(t) ==
  \/ Promise(t)
  \/ \E type \in AskedTypes : Schedule(t, type)
  \/ \E p \in Created, type \in AskedTypes, takes_result \in TakesResult :
       Then(t, p, type, takes_result)
  \/ \E p \in Created : AsStatusFuture(t, p)
  \/ \E inputs \in SUBSET Created : Combine(t, inputs) \/ CombineWaitForAll(t, inputs)
  \/ \E r \in Created : MergeValues(t, r)

\* Every call that makes a future makes it right.
LEMMA MakesKeeps ==
  ASSUME FutureInv, NEW t \in Threads, Makes(t)
  PROVE  MadeRight(t)
  <1>1. /\ NoShared \in Shares /\ Queued \subseteq Types /\ "immediate" \in Types
        /\ AskedTypes \subseteq Types /\ TakesResult \subseteq BOOLEAN
        /\ Continuations = {"then", "status", "merge"}
    BY FutureAssumption DEF NoShared, Shares, Results, Types, Continuations
  <1>2. CASE Promise(t)
    <2>1. <<>> \in Seq(Entries)
      OBVIOUS
    <2> QED
      BY <1>1, <1>2, <2>1, MakesAlone DEF Promise
  <1>3. ASSUME NEW type \in AskedTypes, Schedule(t, type) PROVE MadeRight(t)
    <2>1. Create(t, "schedule", type, FALSE, {}, NoShared, << <<"submit", created + 1>> >>)
      BY <1>3 DEF Schedule
    <2>2. << <<"submit", created + 1>> >> \in Seq(Entries)
      <3>1. <<"submit", created + 1>> \in Entries
        BY <2>1, CreateFacts DEF Entries
      <3> QED
        BY <3>1
    <2> QED
      BY <1>1, <2>1, <2>2, MakesAlone
  <1>4. ASSUME NEW p \in Created, NEW type \in AskedTypes, NEW takes_result \in TakesResult,
               Then(t, p, type, takes_result)
        PROVE  MadeRight(t)
    <2>1. Create(t, "then", type, takes_result, {p}, NoShared, << <<"attach", p, created + 1>> >>)
      BY <1>4 DEF Then
    <2> QED
      BY <1>1, <2>1, MakesContinuation
  <1>5. ASSUME NEW p \in Created, AsStatusFuture(t, p) PROVE MadeRight(t)
    <2>1. Create(t, "status", "immediate", TRUE, {p}, NoShared, << <<"attach", p, created + 1>> >>)
      BY <1>5 DEF AsStatusFuture
    <2> QED
      BY <1>1, <2>1, MakesContinuation
  <1>6. ASSUME NEW inputs, Combine(t, inputs) \/ CombineWaitForAll(t, inputs)
        PROVE  MadeRight(t)
    BY <1>6, MakesCombined DEF Combine, CombineWaitForAll
  <1>7. ASSUME NEW r \in Created, MergeValues(t, r) PROVE MadeRight(t)
    <2>1. Create(t, "merge", "immediate", TRUE, {r}, NoShared, << <<"attach", r, created + 1>> >>)
      BY <1>7 DEF MergeValues
    <2> QED
      BY <1>1, <2>1, MakesContinuation
  <1> QED
    BY <1>2, <1>3, <1>4, <1>5, <1>6, <1>7 DEF Makes

-----------------------------------------------------------------------------
(* The first theorem.                                                      *)

\* At the start there is nothing.
LEMMA InitFutureInv ==
  ASSUME Init
  PROVE  FutureInv /\ \A p, x : ~Token(p, x)
  <1>1. Created = {} /\ created \in 0 .. MaxFutures
    BY FutureAssumption DEF Init, Created
  <1>2. <<>> \in Seq(Entries)
    OBVIOUS
  <1>3. /\ NoShared \in Shares /\ "immediate" \in Types
    BY DEF NoShared, Shares, Results, Types
  <1>4. FutureTypes
    <2>1. /\ on_ready \in [Futures -> Seq(Entries)] /\ agenda \in [Threads -> Seq(Entries)]
      BY <1>2 DEF Init
    <2>2. /\ kind \in [Futures -> Kinds \cup {"none"}] /\ home \in [Futures -> Types]
          /\ accepts \in [Futures -> BOOLEAN] /\ sources \in [Futures -> SUBSET Futures]
          /\ result \in [Futures -> Results \cup {"none"}] /\ shared \in [Futures -> Shares]
          /\ started \in [Futures -> Nat] /\ queue \in [Queued -> SUBSET Created]
          /\ handles \subseteq Created /\ dropped \subseteq Created
      BY <1>3 DEF Init, ExecutorInit
    <2> QED
      BY <1>1, <2>1, <2>2 DEF FutureTypes
  <1>5. Lineage
    BY <1>1 DEF Lineage, Init
  <1>6. /\ \A t \in Threads : agenda[t] = <<>> /\ ToSet(agenda[t]) = {}
        /\ \A g \in Futures : on_ready[g] = <<>> /\ ToSet(on_ready[g]) = {}
        /\ \A e \in Queued : queue[e] = {}
    <2>1. ToSet(<<>>) = {}
      BY DEF ToSet
    <2> QED
      BY <2>1 DEF Init, ExecutorInit
  <1>7. AgendasLegal /\ RegistrationsLegal /\ QueuesLegal
    BY <1>6 DEF AgendasLegal, Posted, RegistrationsLegal, QueuesLegal
  <1>8. ASSUME NEW p, NEW x, NEW a \in Places PROVE ~Has(a, p, x)
    <2>1. CASE \E u \in Threads, d \in Nat : a = <<"agenda", u, d>>
      <3>1. PICK u \in Threads, d \in Nat : a = <<"agenda", u, d>>
        BY <2>1
      <3>2. Len(agenda[u]) = 0
        BY <1>6
      <3> QED
        BY <3>1, <3>2 DEF Has
    <2>2. CASE \E g \in Futures, i \in Nat : a = <<"ready", g, i>>
      BY <1>6, <2>2 DEF Has
    <2>3. CASE \E e \in Queued : a = <<"queue", e>>
      BY <1>6, <2>3 DEF Has
    <2> QED
      BY <2>1, <2>2, <2>3, PlaceForms
  <1>9. OneToken /\ NotYetCalled /\ \A p, x : ~Token(p, x)
    BY <1>8 DEF OneToken, NotYetCalled, Token
  <1>10. CalledOnceInOrder
    BY <1>1 DEF CalledOnceInOrder
  <1> QED
    BY <1>4, <1>5, <1>7, <1>9, <1>10 DEF FutureInv

\* The forms of a step.
LEMMA NextForms ==
  ASSUME [Next]_vars
  PROVE  \/ UNCHANGED vars
         \/ \E t \in Threads :
              \/ AttachReady(t) \/ AttachPending(t) \/ Submit(t) \/ PushTask(t)
              \/ RunCalls(t) \/ Return(t) \/ Spends(t)
              \/ Makes(t) \/ Intervenes(t) \/ ShutdownForeground(t)
              \/ \E f \in Created : Take(t, f)
  BY DEF Next, Step, User, Makes, Intervenes, Spends

\* A step that changes nothing.
LEMMA StutterKeeps ==
  ASSUME FutureInv, UNCHANGED vars
  PROVE  FutureInv' /\ \A p, x : Token(p, x)' <=> Token(p, x)
  <1> USE DEF vars, futureVars, executorVars
  <1>1. FutureTypes' /\ Lineage'
    BY DEF FutureInv, FutureTypes, Lineage, Created, ParentOf
  <1>2. AgendasLegal'
    <2>1. Posted' = Posted /\ \A e : Legal(e) => Legal(e)'
      BY DEF Posted, Legal, Follows, Created, Ready, MayCall, Permits, ParentOf
    <2> QED
      BY <2>1 DEF AgendasLegal, FutureInv
  <1>3. RegistrationsLegal' /\ QueuesLegal'
    BY DEF FutureInv, RegistrationsLegal, QueuesLegal, Awaited, Follows, CallbackOf, Created, Ready,
           MayCall, ParentOf
  <1>4. ASSUME NEW a, NEW p, NEW x PROVE Has(a, p, x)' <=> Has(a, p, x)
    BY DEF Has, Carries, Origin, ParentOf
  <1>5. OneToken' /\ \A p, x : Token(p, x)' <=> Token(p, x)
    BY <1>4 DEF FutureInv, OneToken, Token, Places
  <1>6. NotYetCalled' /\ CalledOnceInOrder'
    BY <1>5 DEF FutureInv, NotYetCalled, CalledOnceInOrder, Created, Ready, ParentOf
  <1> QED
    BY <1>1, <1>2, <1>3, <1>5, <1>6 DEF FutureInv

\* Every step keeps the inductive invariant.
LEMMA NextFutureInv ==
  ASSUME FutureInv, [Next]_vars
  PROVE  FutureInv'
  BY NextForms, StutterKeeps, AttachReadyKeeps, AttachPendingKeeps, SubmitKeeps, PushTaskKeeps,
     RunCallsKeeps, ReturnKeeps, SpendsKeeps, MakesKeeps, IntervenesKeeps, ShutdownKeeps, TakeKeeps
     DEF MadeRight

\* The inductive invariant: every entry of an agenda, every callback that is registered and every
\* queued task is one that its future may have where it stands, a future is called back at most
\* once because of each source, and what has its call before it was not called.
THEOREM FutureInvariant == Spec => []FutureInv
  <1>1. Init => FutureInv
    BY InitFutureInv
  <1>2. FutureInv /\ [Next]_vars => FutureInv'
    BY NextFutureInv
  <1> QED
    BY <1>1, <1>2, PTL DEF Spec

\* ScheduleOnExecutor calls a callable at most once, a continuation only with the result of its
\* parent there, and with a failed one only if it asked for the Result: whoever races with
\* OnReady and Return, and whatever is cancelled, dropped or shut down meanwhile.
THEOREM CallablesCalledOnce == Spec => []CalledOnceInOrder
  <1>1. FutureInv => CalledOnceInOrder
    BY DEF FutureInv
  <1> QED
    BY <1>1, FutureInvariant, PTL

-----------------------------------------------------------------------------
(* Nothing is forgotten: what will complete a future, wherever it is.      *)

\* On some agenda is what completes f.
Completes(f) == \E e \in Posted : e[1] \in {"body", "return"} /\ e[2] = f

\* The sources that the combined future r has still to hear of.
Pending(r) == {p \in sources[r] : Token(p, r)}

WillComplete ==
  \A f \in Created : kind[f] \in Callables /\ ~Ready(f) /\ f \notin dropped =>
    Token(Origin(f), f) \/ Completes(f)

FailuresOf(S) == {result[i] : i \in {j \in S : result[j] \notin {"none", "ok"}}}

\* The SharedState of the combined future r says what has arrived.
Tallied(r) ==
  LET s == shared[r]
  IN  /\ ~s.done => s.remaining = Cardinality(Pending(r))
      /\ ~s.done /\ sources[r] # {} => Pending(r) # {}
      /\ s.done \/ sources[r] = {} => Ready(r) \/ Completes(r)
      /\ s.done /\ (s.wait_all \/ ~s.has_error) => Pending(r) = {}
      /\ \A p \in sources[r] \ Pending(r) : Ready(p)
      /\ s.has_error => s.first_error \in FailuresOf(sources[r])
      /\ ~s.has_error =>
           s.first_error = "ok" /\ \A p \in sources[r] \ Pending(r) : result[p] = "ok"

Tallies == \A r \in Created : kind[r] = "combine" => Tallied(r)

CompletionInv == WillComplete /\ Tallies

\* Entries stay posted but the head.
LEMMA CompletesAfter ==
  ASSUME FutureInv, NEW t \in Threads, agenda[t] # <<>>,
         NEW entries \in Seq(Entries), Proceed(t, entries), NEW f
  PROVE  /\ Completes(f) => \/ Completes(f)'
                            \/ Head(agenda[t])[1] \in {"body", "return"} /\ Subject(t) = f
         /\ \A e \in ToSet(entries) : e[1] \in {"body", "return"} /\ e[2] = f => Completes(f)'
  <1>1. /\ ToSet(entries) \subseteq Posted'
        /\ Posted \subseteq Posted' \cup {Head(agenda[t])}
    BY PostedAfter DEF FutureInv
  <1> QED
    BY <1>1 DEF Completes, Subject

\* A new call takes nothing from any agenda.
LEMMA CompletesOnCall ==
  ASSUME FutureInv, NEW t \in Threads, agenda[t] = <<>>,
         \A u \in Threads \ {t} : agenda'[u] = agenda[u], NEW f
  PROVE  Completes(f) => Completes(f)'
  <1>1. ToSet(agenda[t]) = {}
    BY DEF ToSet
  <1>2. Posted \subseteq Posted'
    BY <1>1 DEF Posted
  <1> QED
    BY <1>2 DEF Completes

\* Steps that lose a token only to what completes its future.
LEMMA WillCompleteKept ==
  ASSUME FutureInv, CompletionInv, Steady,
         UNCHANGED <<created, kind, sources>>, dropped \subseteq dropped',
         \A f \in Created : kind[f] \in Callables /\ ~Ready(f)' =>
           /\ \A p : p = Origin(f) /\ Token(p, f) =>
                     Token(p, f)' \/ Completes(f)' \/ f \in dropped'
           /\ Completes(f) => Completes(f)'
  PROVE  WillComplete'
  <1> SUFFICES ASSUME NEW f \in Created, kind[f] \in Callables, ~Ready(f)', f \notin dropped'
               PROVE  Token(Origin(f), f)' \/ Completes(f)'
    BY DEF WillComplete, Created
  <1>1. ~Ready(f)
    BY LegalKept DEF FutureInv
  <1>2. Token(Origin(f), f) \/ Completes(f)
    BY <1>1 DEF CompletionInv, WillComplete
  <1>3. PICK p : p = Origin(f)
    OBVIOUS
  <1>4. Origin(f)' = p
    BY <1>3 DEF Origin, ParentOf
  <1>5. Token(p, f)' \/ Completes(f)'
    BY <1>2, <1>3
  <1> QED
    BY <1>4, <1>5

\* A combined future that no step is about.
LEMMA TalliedKept ==
  ASSUME FutureInv, Steady, NEW r \in Created, Tallied(r), sources'[r] = sources[r],
         shared'[r] = shared[r], \A p : Token(p, r)' <=> Token(p, r),
         Completes(r) => Completes(r)' \/ Ready(r)'
  PROVE  Tallied(r)'
  <1>1. Pending(r)' = Pending(r)
    BY DEF Pending
  <1>2. sources[r] \subseteq Created
    <2>1. sources[r] \subseteq 1 .. r - 1 /\ created \in Nat
      BY FutureAssumption DEF FutureInv, Lineage, FutureTypes
    <2> QED
      BY <2>1 DEF Created
  <1>3. \A p \in Created : Ready(p) => Ready(p)' /\ result'[p] = result[p]
    BY DEF Steady, Ready
  <1>4. FailuresOf(sources[r]) \subseteq FailuresOf(sources[r])'
    BY <1>2, <1>3 DEF FailuresOf, Ready
  <1>5. \A p \in Created : result[p] = "ok" => result'[p] = "ok"
    BY <1>3 DEF Ready
  <1> QED
    BY <1>1, <1>2, <1>3, <1>4, <1>5 DEF Tallied

\* Steps that no combined future takes part in.
LEMMA TalliesKept ==
  ASSUME FutureInv, CompletionInv, Steady, UNCHANGED <<created, kind, sources, shared>>,
         \A r \in Created : kind[r] = "combine" =>
           /\ \A p : Token(p, r)' <=> Token(p, r)
           /\ Completes(r) => Completes(r)' \/ Ready(r)'
  PROVE  Tallies'
  <1> SUFFICES ASSUME NEW r \in Created, kind[r] = "combine" PROVE Tallied(r)'
    BY DEF Tallies, Created
  <1>1. Tallied(r)
    BY DEF CompletionInv, Tallies
  <1> QED
    BY <1>1, TalliedKept

\* The steps that post no return, and what they post.
Moves(t) ==
  AttachReady(t) \/ AttachPending(t) \/ Submit(t) \/ PushTask(t) \/ RunCalls(t) \/ Return(t)

\* What these steps post, and what they leave alone.
LEMMA MovesForm ==
  ASSUME FutureInv, NEW t \in Threads, Moves(t)
  PROVE  /\ agenda[t] # <<>>
         /\ UNCHANGED Bystanders /\ UNCHANGED shared /\ Steady
         /\ \E entries \in Seq(Entries) :
              /\ Proceed(t, entries)
              /\ \A e \in ToSet(entries) : e[1] # "return"
              /\ RunCalls(t) => <<"body", Subject(t)>> \in ToSet(entries)
  <1> DEFINE f == Subject(t)
             Posts == \E entries \in Seq(Entries) :
                        /\ Proceed(t, entries)
                        /\ \A e \in ToSet(entries) : e[1] # "return"
                        /\ RunCalls(t) => <<"body", f>> \in ToSet(entries)
  <1>1. agenda[t] # <<>> /\ UNCHANGED Bystanders /\ UNCHANGED shared
    BY DEF Moves, AttachReady, AttachPending, Submit, PushTask, RunCalls, Return, Continue, Doing,
           Bystanders
  <1>2. ASSUME NEW entry \in Entries, Proceed(t, <<entry>>), entry[1] # "return",
               RunCalls(t) => entry = <<"body", f>>
        PROVE  Posts
    <2> DEFINE entries == <<entry>>
    <2>1. entries \in Seq(Entries) /\ ToSet(entries) = {entry} /\ Proceed(t, entries)
      BY <1>2 DEF ToSet
    <2> HIDE DEF entries
    <2> QED
      BY <1>2, <2>1
  <1>3. ASSUME AttachPending(t) \/ PushTask(t) PROVE Posts
    <2>1. Proceed(t, <<>>) /\ ~RunCalls(t)
      BY <1>3 DEF AttachPending, PushTask, RunCalls, Doing, Continue
    <2> QED
      BY <2>1, SpentEntries
  <1>4. ASSUME AttachReady(t) PROVE Posts
    <2>1. /\ Head(agenda[t])[1] = "attach" /\ Proceed(t, <<CallbackOf(f, Argument(t))>>)
          /\ ~RunCalls(t)
      BY <1>4 DEF AttachReady, RunCalls, Doing, Continue
    <2>2. CallbackOf(f, Argument(t)) \in Entries
      BY <1>1, <2>1, HeadLegal, CallbackCarries DEF Legal, Subject, Argument, FutureInv
    <2>3. CallbackOf(f, Argument(t))[1] # "return"
      BY DEF CallbackOf
    <2> HIDE DEF Posts
    <2> QED
      BY <1>2, <2>1, <2>2, <2>3
  <1>5. ASSUME Submit(t) PROVE Posts
    <2> DEFINE e == Get(t, home[f])
               entry == IF e = "immediate" THEN <<"run", f>> ELSE <<"push", f, e>>
    <2>1. Head(agenda[t])[1] = "submit" /\ Proceed(t, <<entry>>) /\ ~RunCalls(t)
      BY <1>5 DEF Submit, RunCalls, Doing, Continue
    <2>2. f \in Futures /\ f \in 0 .. MaxFutures /\ e \in Types
      BY <1>1, <2>1, HeadLegal, FutureAssumption DEF FutureInv, FutureTypes, Get, Types, Futures
    <2>3. entry \in Entries /\ entry[1] # "return"
      BY <2>2 DEF Entries, Types
    <2> HIDE DEF Posts, entry
    <2> QED
      BY <1>2, <2>1, <2>3
  <1>6. ASSUME RunCalls(t) PROVE Posts
    <2>1. Head(agenda[t])[1] = "run" /\ Proceed(t, << <<"body", f>> >>)
      BY <1>6 DEF RunCalls, Doing
    <2>2. f \in 0 .. MaxFutures
      BY <1>1, <2>1, HeadLegal, FutureAssumption DEF Futures
    <2>3. <<"body", f>> \in Entries
      BY <2>2 DEF Entries
    <2> HIDE DEF Posts
    <2> QED
      BY <1>2, <2>1, <2>3
  <1>7. ASSUME Return(t) PROVE Posts
    <2> DEFINE first == IF kind[f] \in Continuations /\ ~Ready(ParentOf(f))
                        THEN << <<"release", ParentOf(f)>>, <<"unlock", f>> >> ELSE <<>>
               entries == first \o on_ready[f]
    <2>1. Head(agenda[t])[1] = "return" /\ Proceed(t, entries) /\ ~RunCalls(t)
      BY <1>7 DEF Return, RunCalls, Doing
    <2>2. f \in Futures /\ f \in 0 .. MaxFutures
      BY <1>1, <2>1, HeadLegal, FutureAssumption DEF Futures
    <2>3. first \in Seq(Entries) /\ \A e \in ToSet(first) : e[1] # "return"
      <3>1. CASE kind[f] \in Continuations /\ ~Ready(ParentOf(f))
        <4>1. ParentOf(f) \in 0 .. MaxFutures
          BY <2>2, <3>1, ParentFacts, FutureAssumption DEF Futures, FutureInv
        <4>2. <<"release", ParentOf(f)>> \in Entries /\ <<"unlock", f>> \in Entries
          BY <2>2, <4>1 DEF Entries
        <4> QED
          BY <3>1, <4>2 DEF ToSet
      <3>2. CASE ~(kind[f] \in Continuations /\ ~Ready(ParentOf(f)))
        <4>1. first = <<>>
          BY <3>2
        <4> QED
          BY <4>1, SpentEntries
      <3> QED
        BY <3>1, <3>2
    <2>4. on_ready[f] \in Seq(Entries) /\ \A e \in ToSet(on_ready[f]) : e[1] # "return"
      BY <2>2 DEF FutureInv, FutureTypes, RegistrationsLegal, Awaited, CallbackOf
    <2> HIDE DEF first
    <2>5. entries \in Seq(Entries) /\ ToSet(entries) = ToSet(first) \cup ToSet(on_ready[f])
      BY <2>3, <2>4, JoinFacts
    <2> HIDE DEF entries
    <2> QED
      BY <2>1, <2>3, <2>4, <2>5
  <1>8. Steady
    <2>1. CASE result' = result
      BY <1>1, <2>1 DEF Steady, Created, Bystanders
    <2>2. CASE Return(t)
      <3>1. /\ Head(agenda[t])[1] = "return" /\ ~Ready(f)
            /\ result' = [result EXCEPT ![f] = Argument(t)]
        BY <2>2 DEF Return, Doing
      <3>2. f \in Futures /\ Created \subseteq Futures /\ Created' = Created
        BY <1>1, <3>1, HeadLegal, FutureAssumption
           DEF Bystanders, Created, Futures, FutureInv, FutureTypes
      <3>3. \A g \in Created : Ready(g) => result'[g] = result[g]
        BY <3>1, <3>2 DEF FutureInv, FutureTypes
      <3> QED
        BY <1>1, <3>2, <3>3 DEF Steady, Bystanders
    <2> QED
      BY <2>1, <2>2 DEF Moves, AttachReady, AttachPending, Submit, PushTask, RunCalls, Continue
  <1> QED
    BY <1>1, <1>3, <1>4, <1>5, <1>6, <1>7, <1>8 DEF Moves

\* Tokens are moved, or spent on the calling of a callable.
LEMMA CompletionMoved ==
  ASSUME FutureInv, CompletionInv, NEW t \in Threads, Moves(t)
  PROVE  CompletionInv'
  <1>0. PICK f : f = Subject(t)
    OBVIOUS
  <1>1. /\ agenda[t] # <<>>
        /\ UNCHANGED Bystanders /\ UNCHANGED shared /\ Steady
        /\ \E entries \in Seq(Entries) :
             /\ Proceed(t, entries)
             /\ \A e \in ToSet(entries) : e[1] # "return"
             /\ RunCalls(t) => <<"body", f>> \in ToSet(entries)
    BY <1>0, MovesForm
  <1>2. PICK entries \in Seq(Entries) :
          Proceed(t, entries) /\ (RunCalls(t) => <<"body", f>> \in ToSet(entries))
    BY <1>1
  <1>3. \A g : Completes(g) => Completes(g)' \/ Ready(g)'
    <2>1. ASSUME Head(agenda[t])[1] \in {"body", "return"} PROVE Ready(f)'
      <3>1. Return(t)
        BY <2>1 DEF Moves, AttachReady, AttachPending, Submit, PushTask, RunCalls, Doing
      <3>2. /\ Head(agenda[t])[1] = "return" /\ result' = [result EXCEPT ![f] = Argument(t)]
        BY <1>0, <3>1 DEF Return, Doing
      <3>3. f \in Futures /\ Argument(t) \in Results
        BY <1>0, <1>1, <3>2, HeadLegal, EntryForms DEF Subject, Argument
      <3> QED
        BY <3>2, <3>3 DEF Ready, Results, FutureInv, FutureTypes
    <2> QED
      BY <1>0, <1>1, <1>2, <2>1, CompletesAfter
  <1>4. ASSUME NEW p, NEW x, ~Completes(x)' \/ kind[x] = "combine"
        PROVE  Token(p, x)' <=> Token(p, x)
    <2>1. CASE RunCalls(t)
      <3>1. Head(agenda[t])[1] = "run"
        BY <2>1 DEF RunCalls, Doing
      <3>2. Token(p, x)' <=> Token(p, x) /\ ~Carries(Head(agenda[t]), p, x)
        BY <2>1, RunCallsKeeps
      <3>3. Carries(Head(agenda[t]), p, x) => x = f
        BY <1>0, <3>1 DEF Carries, Subject
      <3>4. MayCall(f)
        BY <1>0, <1>1, <3>1, HeadLegal DEF Legal, Subject
      <3>5. Completes(f)' /\ kind[f] # "combine"
        BY <1>1, <1>2, <2>1, <3>4, CompletesAfter DEF MayCall, Callables, Continuations
      <3> QED
        BY <1>4, <3>2, <3>3, <3>5
    <2>2. CASE ~RunCalls(t)
      BY <2>2, AttachReadyKeeps, AttachPendingKeeps, SubmitKeeps, PushTaskKeeps, ReturnKeeps
         DEF Moves
    <2> QED
      BY <2>1, <2>2
  <1> QED
    BY <1>1, <1>3, <1>4, WillCompleteKept, TalliesKept DEF CompletionInv, Bystanders

\* A task moves from its queue to an agenda.
LEMMA CompletionTaken ==
  ASSUME FutureInv, CompletionInv, NEW t \in Threads, NEW f \in Created, Take(t, f)
  PROVE  CompletionInv'
  <1>1. /\ UNCHANGED Bystanders /\ UNCHANGED <<result, shared>>
        /\ agenda[t] = <<>> /\ \A u \in Threads \ {t} : agenda'[u] = agenda[u]
    BY DEF Take, Bystanders, FutureInv, FutureTypes
  <1>2. \A g : Completes(g) => Completes(g)'
    BY <1>1, CompletesOnCall
  <1>3. \A p, x : Token(p, x)' <=> Token(p, x)
    BY TakeKeeps
  <1>4. Steady
    BY <1>1 DEF Steady, Created, Bystanders
  <1> QED
    BY <1>1, <1>2, <1>3, <1>4, WillCompleteKept, TalliesKept DEF CompletionInv, Bystanders

\* No token and no result is lost to an intervention.
LEMMA CompletionIntervened ==
  ASSUME FutureInv, CompletionInv, NEW t \in Threads, Intervenes(t)
  PROVE  CompletionInv'
  <1>1. /\ UNCHANGED <<created, kind, accepts, sources, dropped, result, shared>>
        /\ agenda[t] = <<>> /\ \A u \in Threads \ {t} : agenda'[u] = agenda[u]
    BY DEF Intervenes, Cancel, UpdatePriority, DropHandle, ShutdownBackground, UserCall, Idle,
           FutureInv, FutureTypes
  <1>2. \A g : Completes(g) => Completes(g)'
    BY <1>1, CompletesOnCall
  <1>3. \A p, x : Token(p, x)' <=> Token(p, x)
    BY IntervenesKeeps
  <1>4. Steady
    BY <1>1 DEF Steady, Created
  <1> QED
    BY <1>1, <1>2, <1>3, <1>4, WillCompleteKept, TalliesKept DEF CompletionInv

\* What Shutdown clears counts as dropped.
LEMMA CompletionCleared ==
  ASSUME FutureInv, CompletionInv, NEW t \in Threads, ShutdownForeground(t)
  PROVE  CompletionInv'
  <1>1. /\ UNCHANGED <<created, kind, accepts, sources, result, shared>>
        /\ dropped' = dropped \cup queue["foreground"]
        /\ agenda[t] = <<>> /\ \A u \in Threads \ {t} : agenda'[u] = agenda[u]
    BY DEF ShutdownForeground, Idle, FutureInv, FutureTypes
  <1>2. \A g : Completes(g) => Completes(g)'
    BY <1>1, CompletesOnCall
  <1>3. /\ \A p, x : Token(p, x)' => Token(p, x)
        /\ \A p, x : Token(p, x) => Token(p, x)' \/ x \in dropped'
        /\ \A p, x : Token(p, x) => Token(p, x)' \/ \E e \in Queued : x \in queue[e]
    <2>1. /\ \A p, x : Token(p, x)' => Token(p, x)
          /\ \A p, x : Token(p, x) => Token(p, x)' \/ x \in dropped'
      BY ShutdownKeeps
    <2>2. ASSUME NEW p, NEW x, Token(p, x), ~Token(p, x)'
          PROVE  \E e \in Queued : x \in queue[e]
      <3>1. PICK a \in Places : Has(a, p, x)
        BY <2>2 DEF Token
      <3>2. CASE \E u \in Threads, d \in Nat : a = <<"agenda", u, d>>
        <4>1. PICK u \in Threads, d \in Nat : a = <<"agenda", u, d>>
          BY <3>2
        <4>2. u # t
          <5>1. Len(<<>>) = 0
            OBVIOUS
          <5> QED
            BY <1>1, <3>1, <4>1, <5>1 DEF Has
        <4>3. agenda'[u] = agenda[u]
          BY <1>1, <4>2
        <4>4. Has(a, p, x)'
          BY <1>1, <3>1, <4>1, <4>3 DEF Has, Carries, Origin, ParentOf
        <4> QED
          BY <2>2, <4>4 DEF Token, Places
      <3>3. CASE \E g \in Futures, i \in Nat : a = <<"ready", g, i>>
        <4>1. Has(a, p, x)'
          BY <1>1, <3>1, <3>3, OtherPlaces DEF ShutdownForeground
        <4> QED
          BY <2>2, <4>1 DEF Token, Places
      <3>4. CASE \E e \in Queued : a = <<"queue", e>>
        BY <3>1, <3>4 DEF Has
      <3> QED
        BY <3>2, <3>3, <3>4, PlaceForms
    <2> QED
      BY <2>1, <2>2
  <1>4. Steady
    BY <1>1 DEF Steady, Created
  <1>5. \A r \in Created : kind[r] = "combine" => \A p : Token(p, r)' <=> Token(p, r)
    BY <1>3 DEF FutureInv, QueuesLegal
  <1> QED
    BY <1>1, <1>2, <1>3, <1>4, <1>5, WillCompleteKept, TalliesKept DEF CompletionInv

\* What the other steps make of the head.
LEMMA SpendsHead ==
  ASSUME FutureInv, NEW t \in Threads, Spends(t)
  PROVE  /\ Head(agenda[t])[1] \in {"push", "run", "body", "return", "arrive", "release", "unlock",
                                    "priority", "reprioritise"}
         /\ Head(agenda[t])[1] \in {"push", "run", "body"} =>
              \A f : f = Subject(t) => Ready(f) \/ Completes(f)'
         /\ Head(agenda[t])[1] = "return" => Ready(Subject(t))
         /\ Head(agenda[t])[1] # "arrive" => shared' = shared
         /\ Head(agenda[t])[1] = "arrive" => Arrive(t) \/ ArriveLate(t)
         /\ \A f : Completes(f) => Completes(f)' \/ Ready(f)
  <1>0. PICK f, op : f = Subject(t) /\ op = Head(agenda[t])[1]
    OBVIOUS
  <1> DEFINE Facts == /\ op \in {"push", "run", "body", "return", "arrive", "release", "unlock",
                                 "priority", "reprioritise"}
                      /\ op \in {"push", "run", "body"} => Ready(f) \/ Completes(f)'
                      /\ op = "return" => Ready(f)
                      /\ op # "arrive" => shared' = shared
                      /\ op = "arrive" => Arrive(t) \/ ArriveLate(t)
  <1>1. agenda[t] # <<>>
    BY SpendsForm
  <1>2. op # "unlock" => f \in Created
    BY <1>0, <1>1, HeadLegal
  <1>3. ASSUME NEW v \in Results, f \in Created, Proceed(t, << <<"return", f, v>> >>)
        PROVE  Completes(f)'
    <2> DEFINE entries == << <<"return", f, v>> >>
    <2>1. entries \in Seq(Entries) /\ ToSet(entries) = {<<"return", f, v>>}
      BY <1>0, <1>3, SpentEntries
    <2>2. Proceed(t, entries)
      BY <1>0, <1>3
    <2> HIDE DEF entries
    <2> QED
      BY <1>0, <1>1, <2>1, <2>2, CompletesAfter
  <1>4. ASSUME PushFails(t) PROVE Facts
    <2>1. op = "push" /\ shared' = shared /\ Proceed(t, << <<"return", f, "unavailable">> >>)
      BY <1>0, <1>4 DEF PushFails, Doing, Continue
    <2> QED
      BY <1>0, <1>2, <1>3, <2>1 DEF Results
  <1>5. ASSUME RunSkipped(t) PROVE Facts
    BY <1>0, <1>5 DEF RunSkipped, Doing, Continue
  <1>6. ASSUME RunPropagates(t) PROVE Facts
    <2>1. /\ op = "run" /\ shared' = shared /\ Propagates(f)
          /\ Proceed(t, << <<"return", f, result[ParentOf(f)]>> >>)
      BY <1>0, <1>6 DEF RunPropagates, Doing, Continue
    <2>2. f \in Futures /\ MayCall(f) /\ kind[f] \in Continuations
      BY <1>0, <1>1, <2>1, HeadLegal DEF Legal, Subject, Propagates
    <2>3. result[ParentOf(f)] \in Results
      <3>1. ParentOf(f) \in Futures
        BY <1>0, <2>2, ParentFacts DEF FutureInv
      <3> QED
        BY <1>0, <2>2, <3>1 DEF MayCall, Ready, FutureInv, FutureTypes
    <2> QED
      BY <1>0, <1>2, <1>3, <2>1, <2>3
  <1>7. ASSUME BodyReturns(t) PROVE Facts
    <2>1. /\ op = "body" /\ shared' = shared
          /\ \E v \in Produces(f) : Proceed(t, << <<"return", f, v>> >>)
      BY <1>0, <1>7 DEF BodyReturns, Doing, Continue
    <2>2. f \in Futures /\ MayCall(f)
      BY <1>0, <1>1, <2>1, HeadLegal DEF Legal, Subject
    <2>3. Produces(f) \subseteq Results
      <3>1. CASE kind[f] \in {"status", "merge"}
        <4>1. kind[f] \in Continuations
          BY <3>1 DEF Continuations
        <4>2. ParentOf(f) \in Futures /\ Ready(ParentOf(f))
          BY <1>0, <2>2, <4>1, ParentFacts DEF FutureInv, MayCall
        <4> QED
          BY <3>1, <4>2 DEF Produces, Ready, FutureInv, FutureTypes
      <3>2. CASE kind[f] \notin {"status", "merge"}
        BY <3>2 DEF Produces, Results
      <3> QED
        BY <3>1, <3>2
    <2> QED
      BY <1>0, <1>2, <1>3, <2>1, <2>3
  <1>8. ASSUME ReturnIgnored(t) PROVE Facts
    BY <1>0, <1>8 DEF ReturnIgnored, Doing, Continue
  <1>9. ASSUME Release(t) \/ Unlock(t) \/ Reprioritise(t) \/ RescheduleTask(t) PROVE Facts
    BY <1>0, <1>9 DEF Release, Unlock, Reprioritise, RescheduleTask, Doing, Continue
  <1>10. ASSUME Arrive(t) \/ ArriveLate(t) PROVE Facts
    BY <1>0, <1>10 DEF Arrive, ArriveLate, Doing
  <1>11. Facts
    BY <1>0, <1>4, <1>5, <1>6, <1>7, <1>8, <1>9, <1>10 DEF Spends
  <1>12. ASSUME NEW g, Completes(g) PROVE Completes(g)' \/ Ready(g)
    <2>1. \E entries \in Seq(Entries) : Proceed(t, entries)
      BY SpendsForm
    <2>2. Completes(g)' \/ (op \in {"body", "return"} /\ f = g)
      BY <1>0, <1>1, <1>12, <2>1, CompletesAfter
    <2> QED
      BY <1>0, <1>11, <2>2
  <1> QED
    BY <1>0, <1>11, <1>12

\* A token is spent only on a result, or when there is one.
LEMMA WillCompleteSpent ==
  ASSUME FutureInv, CompletionInv, NEW t \in Threads, Spends(t)
  PROVE  WillComplete' /\ Steady /\ UNCHANGED <<created, kind, sources, result>>
  <1>1. /\ UNCHANGED Bystanders /\ UNCHANGED result /\ agenda[t] # <<>>
    BY SpendsForm
  <1>2. Steady
    BY <1>1 DEF Steady, Created, Bystanders
  <1>3. ASSUME NEW f \in Created, kind[f] \in Callables, ~Ready(f)'
        PROVE  /\ \A p : p = Origin(f) /\ Token(p, f) => Token(p, f)' \/ Completes(f)'
               /\ Completes(f) => Completes(f)'
    <2>1. ~Ready(f)
      BY <1>1, <1>3 DEF Ready
    <2>2. Completes(f) => Completes(f)'
      BY <2>1, SpendsHead
    <2>3. \A p : Token(p, f) => Token(p, f)' \/ Carries(Head(agenda[t]), p, f)
      BY SpendsKeeps
    <2>4. ASSUME NEW p, Carries(Head(agenda[t]), p, f) PROVE Completes(f)'
      <3>1. CASE Head(agenda[t])[1] = "arrive"
        <4>1. f = Argument(t) /\ Doing(t, "arrive")
          BY <1>1, <2>4, <3>1 DEF Carries, Argument, Doing
        <4>2. kind[f] = "combine"
          BY <4>1, ArrivalFacts
        <4> QED
          BY <1>3, <4>2 DEF Callables, Continuations
      <3>2. CASE Head(agenda[t])[1] \in {"push", "run"}
        BY <2>1, <2>4, <3>2, SpendsHead DEF Carries, Subject
      <3> QED
        BY <2>4, <3>1, <3>2, SpendsHead DEF Carries
    <2> QED
      BY <2>2, <2>3, <2>4
  <1> QED
    BY <1>1, <1>2, <1>3, WillCompleteKept DEF Bystanders

\* All of them but the arrivals leave combined futures alone.
LEMMA CompletionSpent ==
  ASSUME FutureInv, CompletionInv, NEW t \in Threads, Spends(t), ~Doing(t, "arrive")
  PROVE  CompletionInv'
  <1>1. WillComplete' /\ Steady /\ UNCHANGED <<created, kind, sources, result>>
    BY WillCompleteSpent
  <1>2. agenda[t] # <<>> /\ Head(agenda[t])[1] # "arrive"
    BY SpendsForm DEF Doing
  <1>3. shared' = shared
    BY <1>2, SpendsHead
  <1>4. ASSUME NEW r \in Created, kind[r] = "combine", NEW p
        PROVE  Token(p, r)' <=> Token(p, r)
    <2>1. Token(p, r)' <=> Token(p, r) /\ ~Carries(Head(agenda[t]), p, r)
      BY SpendsKeeps
    <2>2. ASSUME Carries(Head(agenda[t]), p, r) PROVE FALSE
      <3>1. Head(agenda[t])[1] \in {"push", "run"} /\ r = Subject(t)
        BY <1>2, <2>2, SpendsHead DEF Carries, Subject
      <3>2. MayCall(r)
        BY <1>2, <3>1, HeadLegal DEF Legal, Subject
      <3> QED
        BY <1>4, <3>2 DEF MayCall, Callables, Continuations
    <2> QED
      BY <2>1, <2>2
  <1>5. \A r : Completes(r) => Completes(r)' \/ Ready(r)'
    BY <1>1, SpendsHead DEF Ready
  <1> QED
    BY <1>1, <1>3, <1>4, <1>5, TalliesKept DEF CompletionInv

\* A source of a combined future is ready.
LEMMA CompletionArrived ==
  ASSUME FutureInv, CompletionInv, NEW t \in Threads, Arrive(t) \/ ArriveLate(t)
  PROVE  CompletionInv'
  <1>0. PICK r0, p0 : r0 = Argument(t) /\ p0 = Subject(t)
    OBVIOUS
  <1>a. PICK s, z : s = shared[r0] /\ z = shared'[r0]
    OBVIOUS
  <1>1. Spends(t) /\ Doing(t, "arrive") /\ agenda[t] # <<>> /\ Head(agenda[t])[1] = "arrive"
    BY DEF Spends, Arrive, ArriveLate, Doing
  <1>2. WillComplete' /\ Steady /\ UNCHANGED <<created, kind, sources, result>>
    BY <1>0, <1>a, <1>1, WillCompleteSpent
  <1>3. /\ r0 \in Created /\ r0 \in Futures /\ p0 \in sources[r0] /\ kind[r0] = "combine"
        /\ result[p0] \in Results /\ AfterArrival(s, result[p0]) \in Shares
    BY <1>0, <1>a, <1>1, ArrivalFacts
  <1>4. Ready(p0)
    BY <1>0, <1>a, <1>3 DEF Ready, Results
  <1>5. \A r : Completes(r) => Completes(r)' \/ Ready(r)'
    BY <1>0, <1>a, <1>1, <1>2, SpendsHead DEF Ready
  <1>6. \A p, x : Carries(Head(agenda[t]), p, x) <=> p = p0 /\ x = r0
    BY <1>0, <1>a, <1>1 DEF Carries, Subject, Argument
  <1>7. \A p, x : Token(p, x)' <=> Token(p, x) /\ ~(p = p0 /\ x = r0)
    BY <1>0, <1>a, <1>1, <1>6, SpendsKeeps
  <1>8. Token(p0, r0)
    <2>1. PICK entries \in Seq(Entries) : Proceed(t, entries)
      BY <1>0, <1>a, <1>1, SpendsForm
    <2>2. UNCHANGED <<kind, sources>>
      BY <1>0, <1>a, <1>2
    <2>3. /\ Has(<<"agenda", t, Len(agenda[t])>>, p0, r0)
          /\ <<"agenda", t, Len(agenda[t])>> \in Places
      BY <1>0, <1>a, <1>1, <1>6, <2>1, <2>2, AgendaPlaces DEF FutureInv
    <2> QED
      BY <1>0, <1>a, <2>3 DEF Token
  <1>9. p0 \in Pending(r0) /\ Pending(r0)' = Pending(r0) \ {p0}
    BY <1>0, <1>a, <1>2, <1>3, <1>7, <1>8 DEF Pending
  <1>10. /\ IsFiniteSet(Pending(r0)) /\ Cardinality(Pending(r0)) \in Nat \ {0}
         /\ Cardinality(Pending(r0)') = Cardinality(Pending(r0)) - 1
         /\ Cardinality(Pending(r0)') = 0 <=> Pending(r0)' = {}
    <2>1. Pending(r0) \subseteq 1 .. r0 - 1 /\ r0 \in Nat
      BY <1>0, <1>a, <1>3 DEF Pending, FutureInv, Lineage, Created
    <2>2. IsFiniteSet(1 .. r0 - 1)
      BY <1>0, <1>a, <2>1, FS_Interval
    <2>3. IsFiniteSet(Pending(r0))
      BY <1>0, <1>a, <2>1, <2>2, FS_Subset
    <2>4. PICK S : S = Pending(r0)
      OBVIOUS
    <2>5. /\ IsFiniteSet(S \ {p0}) /\ Cardinality(S \ {p0}) = Cardinality(S) - 1
          /\ Cardinality(S) \in Nat /\ Cardinality(S \ {p0}) \in Nat
          /\ Cardinality(S \ {p0}) = 0 <=> S \ {p0} = {}
      BY <1>0, <1>a, <1>9, <2>3, <2>4, FS_RemoveElement, FS_CardinalityType, FS_EmptySet
    <2> QED
      BY <1>0, <1>a, <1>9, <2>3, <2>4, <2>5
  <1>11. Tallied(r0)
    BY <1>0, <1>a, <1>3 DEF CompletionInv, Tallies
  <1>12. sources[r0] \ Pending(r0)' = (sources[r0] \ Pending(r0)) \cup {p0}
    BY <1>0, <1>a, <1>3, <1>9
  <1>13. FailuresOf(sources[r0])' = FailuresOf(sources[r0])
    BY <1>0, <1>a, <1>2 DEF FailuresOf
  <1>14. CASE ArriveLate(t)
    <2>1. s.done /\ shared' = shared
      BY <1>0, <1>a, <1>14 DEF ArriveLate, Continue
    <2>2. s.has_error /\ ~s.wait_all
      BY <1>0, <1>a, <1>9, <1>11, <2>1 DEF Tallied
    <2>3. \A p \in sources[r0] \ Pending(r0)' : Ready(p)'
      BY <1>0, <1>a, <1>2, <1>4, <1>11, <1>12 DEF Tallied, Ready
    <2>4. Ready(r0)' \/ Completes(r0)'
      BY <1>0, <1>a, <1>2, <1>5, <1>11, <2>1 DEF Tallied, Ready
    <2>5. Tallied(r0)'
      BY <1>0, <1>a, <1>2, <1>11, <1>13, <2>1, <2>2, <2>3, <2>4 DEF Tallied
    <2>6. ASSUME NEW r \in Created, kind[r] = "combine", r # r0 PROVE Tallied(r)'
      <3>1. Tallied(r)
        BY <1>0, <1>a, <2>6 DEF CompletionInv, Tallies
      <3> QED
        BY <1>0, <1>a, <1>2, <1>5, <1>7, <2>1, <2>6, <3>1, TalliedKept
    <2> QED
      BY <1>0, <1>a, <1>2, <2>5, <2>6 DEF CompletionInv, Tallies, Created
  <1>15. CASE Arrive(t)
    <2>1. /\ ~s.done /\ shared' = [shared EXCEPT ![r0] = AfterArrival(s, result[p0])]
          /\ Proceed(t, IF AfterArrival(s, result[p0]).done
                        THEN << <<"return", r0, AfterArrival(s, result[p0]).first_error>> >>
                        ELSE <<>>)
      BY <1>0, <1>a, <1>15 DEF Arrive
    <2>2. z = AfterArrival(s, result[p0]) /\ \A r \in Futures \ {r0} : shared'[r] = shared[r]
      BY <1>0, <1>a, <1>3, <2>1 DEF FutureInv, FutureTypes
    <2>3. z.done => Completes(r0)'
      <3> SUFFICES ASSUME z.done PROVE Completes(r0)'
        OBVIOUS
      <3> DEFINE entries == << <<"return", r0, z.first_error>> >>
      <3>1. Proceed(t, entries)
        BY <1>0, <1>a, <2>1, <2>2
      <3>2. z.first_error \in Results
        BY <1>0, <1>a, <1>3, <2>2 DEF Shares
      <3>3. entries \in Seq(Entries) /\ ToSet(entries) = {<<"return", r0, z.first_error>>}
        BY <1>0, <1>a, <1>3, <3>2, SpentEntries
      <3> HIDE DEF entries
      <3> QED
        BY <1>0, <1>a, <1>1, <3>1, <3>3, CompletesAfter
    <2>4. PICK status : status = result[p0]
      OBVIOUS
    <2>5. s.remaining = Cardinality(Pending(r0)) /\ s \in Shares
      BY <1>0, <1>a, <1>3, <1>11, <2>1 DEF Tallied, FutureInv, FutureTypes
    <2>6. /\ z.remaining = Cardinality(Pending(r0)')
          /\ z.done <=> (status # "ok" /\ ~s.has_error /\ ~s.wait_all) \/ z.remaining = 0
          /\ z.has_error <=> s.has_error \/ status # "ok"
          /\ status # "ok" /\ ~s.has_error => z.first_error = status
          /\ z.wait_all = s.wait_all
          /\ ~(status # "ok" /\ ~s.has_error) => z.first_error = s.first_error
      <3>1. s.remaining > 0 /\ s.remaining - 1 = Cardinality(Pending(r0)')
        BY <1>10, <2>5
      <3>2. PICK failed : failed = (status # "ok" /\ ~s.has_error)
        OBVIOUS
      <3>3. z = [remaining |-> s.remaining - 1, wait_all |-> s.wait_all,
                 done |-> (failed /\ ~s.wait_all) \/ s.remaining - 1 = 0,
                 has_error |-> s.has_error \/ failed,
                 first_error |-> IF failed THEN status ELSE s.first_error]
        BY <1>0, <1>a, <2>2, <2>4, <3>1, <3>2 DEF AfterArrival
      <3>4. /\ z.remaining = s.remaining - 1 /\ z.wait_all = s.wait_all
            /\ z.done = ((failed /\ ~s.wait_all) \/ s.remaining - 1 = 0)
            /\ z.has_error = (s.has_error \/ failed)
            /\ z.first_error = IF failed THEN status ELSE s.first_error
        BY <3>3
      <3> QED
        BY <3>1, <3>2, <3>4
    <2>7. \A p \in sources[r0] \ Pending(r0)' : Ready(p)'
      BY <1>0, <1>a, <1>2, <1>4, <1>11, <1>12 DEF Tallied, Ready
    <2>8. z.has_error => z.first_error \in FailuresOf(sources[r0])
      <3>1. CASE status # "ok" /\ ~s.has_error
        BY <1>0, <1>a, <1>3, <1>4, <2>4, <2>6, <3>1 DEF FailuresOf, Ready
      <3>2. CASE ~(status # "ok" /\ ~s.has_error)
        BY <1>0, <1>a, <1>11, <2>6, <3>2 DEF Tallied
      <3> QED
        BY <3>1, <3>2
    <2>9. ~z.has_error =>
            z.first_error = "ok" /\ \A p \in sources[r0] \ Pending(r0)' : result'[p] = "ok"
      BY <1>0, <1>a, <1>2, <1>11, <1>12, <2>4, <2>6 DEF Tallied
    <2>10. z.done /\ (z.wait_all \/ ~z.has_error) => Pending(r0)' = {}
      BY <1>0, <1>a, <1>10, <2>6
    <2>11. ~z.done => Pending(r0)' # {}
      BY <1>0, <1>a, <1>10, <2>6
    <2>12. z.done \/ sources[r0] = {} => Completes(r0)'
      BY <1>0, <1>a, <1>3, <2>3
    <2>13. Tallied(r0)'
      <3>1. sources'[r0] = sources[r0]
        BY <1>0, <1>a, <1>2
      <3> QED
        BY <1>0, <1>a, <1>13, <2>6, <2>7, <2>8, <2>9, <2>10, <2>11, <2>12, <3>1 DEF Tallied
    <2>14. ASSUME NEW r \in Created, kind[r] = "combine", r # r0 PROVE Tallied(r)'
      <3>1. Tallied(r)
        BY <1>0, <1>a, <2>14 DEF CompletionInv, Tallies
      <3>2. r \in Futures \ {r0}
        BY <1>0, <1>a, <2>14, FutureAssumption DEF Created, Futures, FutureInv, FutureTypes
      <3>3. shared'[r] = shared[r]
        BY <1>0, <1>a, <2>2, <3>2
      <3> QED
        BY <1>0, <1>a, <1>2, <1>5, <1>7, <2>14, <3>1, <3>3, TalliedKept
    <2> QED
      BY <1>0, <1>a, <1>2, <2>13, <2>14 DEF CompletionInv, Tallies, Created
  <1> QED
    BY <1>14, <1>15

\* A combined future starts with all its sources pending.
LEMMA TalliedFromStart ==
  ASSUME FutureInv, NEW t \in Threads, NEW f, f = created + 1, Makes(t), kind'[f] = "combine"
  PROVE  Tallied(f)'
  <1>1. PICK inputs \in SUBSET Created, wait_for_all \in BOOLEAN :
          CombineStatusFutures(t, inputs, wait_for_all)
    <2>1. ASSUME NEW how, NEW type, NEW takes_result, NEW origins, NEW state, NEW entries,
                 Create(t, how, type, takes_result, origins, state, entries)
          PROVE  how = "combine"
      BY <2>1, CreateFacts
    <2>2. ~Promise(t) /\ \A type \in AskedTypes : ~Schedule(t, type)
      BY <2>1 DEF Promise, Schedule
    <2>3. \A p \in Created, type \in AskedTypes, takes_result \in TakesResult :
            ~Then(t, p, type, takes_result)
      BY <2>1 DEF Then
    <2>4. \A p \in Created : ~AsStatusFuture(t, p) /\ ~MergeValues(t, p)
      BY <2>1 DEF AsStatusFuture, MergeValues
    <2>5. \E inputs \in SUBSET Created : Combine(t, inputs) \/ CombineWaitForAll(t, inputs)
      BY <2>2, <2>3, <2>4 DEF Makes
    <2> QED
      BY <2>5 DEF Combine, CombineWaitForAll
  <1>2. /\ MadeRight(t) /\ sources'[f] = inputs
        /\ shared'[f] =
             [NoShared EXCEPT !.remaining = Cardinality(inputs), !.wait_all = wait_for_all]
        /\ inputs = {} => ToSet(agenda'[t]) = {<<"return", f, "ok">>}
    <2>1. /\ MadeRight(t)
          /\ kind'[created + 1] = "combine" /\ sources'[created + 1] = inputs
          /\ inputs \subseteq Created /\ IsFiniteSet(inputs)
          /\ shared'[created + 1] =
               [NoShared EXCEPT !.remaining = Cardinality(inputs), !.wait_all = wait_for_all]
          /\ inputs = {} => ToSet(agenda'[t]) = {<<"return", created + 1, "ok">>}
      BY <1>1, MakesCombined, Zenon
    <2> QED
      BY <2>1
  <1>3. Pending(f)' = inputs
    BY <1>2 DEF MadeRight, Pending
  <1>4. /\ shared'[f].remaining = Cardinality(inputs) /\ shared'[f].done = FALSE
        /\ shared'[f].has_error = FALSE /\ shared'[f].first_error = "ok"
    BY <1>2 DEF NoShared
  <1>5. inputs = {} => Completes(f)'
    <2> SUFFICES ASSUME inputs = {} PROVE Completes(f)'
      OBVIOUS
    <2> DEFINE e == <<"return", f, "ok">>
    <2>1. e \in ToSet(agenda'[t])
      BY <1>2
    <2>2. e \in Posted'
      BY <2>1 DEF Posted
    <2>3. e[1] \in {"body", "return"} /\ e[2] = f
      OBVIOUS
    <2> QED
      BY <2>2, <2>3 DEF Completes
  <1>6. Tallied(f)'
    BY <1>2, <1>3, <1>4, <1>5 DEF Tallied
  <1> QED
    BY <1>6

\* A new future has what will complete it.
LEMMA CompletionMade ==
  ASSUME FutureInv, CompletionInv, NEW t \in Threads, Makes(t)
  PROVE  CompletionInv'
  <1>0. PICK f : f = created + 1
    OBVIOUS
  <1>1. MadeRight(t)
    BY <1>0, MakesKeeps
  <1>2. /\ FutureInv' /\ Steady
        /\ created' = f /\ agenda[t] = <<>> /\ UNCHANGED <<result, dropped>>
        /\ \A u \in Threads \ {t} : agenda'[u] = agenda[u]
        /\ \A g \in Created : shared'[g] = shared[g]
        /\ \A p, x : x # f => (Token(p, x)' <=> Token(p, x))
        /\ kind'[f] \in Continuations \cup {"combine"} => \A p : Token(p, f)' <=> p \in sources'[f]
        /\ kind'[f] = "schedule" => Token(0, f)'
    BY <1>0, <1>1 DEF MadeRight
  <1>3. /\ Created' = Created \cup {f} /\ f \notin Created /\ f \in Created'
    <2>1. created \in Nat
      BY FutureAssumption DEF FutureInv, FutureTypes
    <2> QED
      BY <1>0, <1>2, <2>1 DEF Created
  <1>4. \A g : Completes(g) => Completes(g)'
    BY <1>2, CompletesOnCall
  <1>5. kind'[f] = "combine" => Tallied(f)'
    BY <1>0, TalliedFromStart
  <1>6. ASSUME NEW g \in Created', kind'[g] \in Callables, ~Ready(g)', g \notin dropped'
        PROVE  Token(Origin(g), g)' \/ Completes(g)'
    <2>1. CASE g = f
      <3>1. CASE kind'[f] \in Continuations
        <4>1. sources'[f] = {ParentOf(f)'}
          BY <1>2, <1>3, <3>1 DEF FutureInv, Lineage
        <4>2. Origin(f)' = ParentOf(f)'
          BY <3>1 DEF Origin
        <4> QED
          BY <1>2, <2>1, <3>1, <4>1, <4>2
      <3>2. CASE kind'[f] = "schedule"
        <4>1. Origin(f)' = 0
          BY <3>2 DEF Origin, Continuations
        <4> QED
          BY <1>2, <2>1, <3>2, <4>1
      <3> QED
        BY <1>6, <2>1, <3>1, <3>2 DEF Callables
    <2>2. CASE g # f
      <3>1. g \in Created
        BY <1>3, <2>2
      <3>2. kind'[g] = kind[g] /\ ParentOf(g)' = ParentOf(g)
        BY <1>2, <3>1, LegalKept DEF Steady, FutureInv
      <3>3. Origin(g)' = Origin(g)
        BY <3>2 DEF Origin
      <3>4. Token(Origin(g), g) \/ Completes(g)
        BY <1>2, <1>6, <3>1, <3>2 DEF CompletionInv, WillComplete, Ready
      <3> QED
        BY <1>2, <1>4, <2>2, <3>3, <3>4
    <2> QED
      BY <2>1, <2>2
  <1>7. ASSUME NEW r \in Created', kind'[r] = "combine" PROVE Tallied(r)'
    <2>1. CASE r = f
      BY <1>5, <1>7, <2>1
    <2>2. CASE r # f
      <3>1. r \in Created
        BY <1>3, <2>2
      <3>2. kind[r] = "combine" /\ sources'[r] = sources[r]
        BY <1>2, <1>7, <3>1 DEF Steady
      <3>3. Tallied(r)
        BY <3>1, <3>2 DEF CompletionInv, Tallies
      <3> QED
        BY <1>2, <1>4, <2>2, <3>1, <3>2, <3>3, TalliedKept
    <2> QED
      BY <2>1, <2>2
  <1> QED
    BY <1>6, <1>7 DEF CompletionInv, WillComplete, Tallies

\* A step that changes nothing.
LEMMA CompletionStutters ==
  ASSUME FutureInv, CompletionInv, UNCHANGED vars
  PROVE  CompletionInv'
  <1> USE DEF vars, futureVars, executorVars
  <1>1. \A p, x : Token(p, x)' <=> Token(p, x)
    BY StutterKeeps
  <1>2. \A f : Completes(f) => Completes(f)'
    BY DEF Completes, Posted
  <1>3. Steady
    BY DEF Steady, Created
  <1> QED
    BY <1>1, <1>2, <1>3, WillCompleteKept, TalliesKept DEF CompletionInv

\* Every step keeps it.
LEMMA NextCompletionInv ==
  ASSUME FutureInv, CompletionInv, [Next]_vars
  PROVE  CompletionInv'
  <1>1. ASSUME NEW t \in Threads, Spends(t) PROVE CompletionInv'
    <2>1. CASE Doing(t, "arrive")
      <3>1. Head(agenda[t])[1] = "arrive"
        BY <2>1 DEF Doing
      <3> QED
        BY <1>1, <3>1, SpendsHead, CompletionArrived
    <2>2. CASE ~Doing(t, "arrive")
      BY <1>1, <2>2, CompletionSpent
    <2> QED
      BY <2>1, <2>2
  <1> QED
    BY <1>1, NextForms, CompletionStutters, CompletionMoved, CompletionMade, CompletionIntervened,
       CompletionCleared, CompletionTaken DEF Moves

\* With the threads out of all calls, what will complete a future is in a queue or registered.
LEMMA CompletionInvImplies ==
  ASSUME FutureInv, CompletionInv
  PROVE  NothingForgotten
  <1> SUFFICES ASSUME \A t \in Threads : agenda[t] = <<>>, NEW f \in Created, ~Ready(f),
                      kind[f] # "promise", f \notin dropped
               PROVE  \/ \E e \in Queued : f \in queue[e]
                      \/ \E p \in sources[f] : ~Ready(p) /\ CallbackOf(p, f) \in ToSet(on_ready[p])
    BY DEF NothingForgotten
  <1>1. Posted = {}
    <2>1. ToSet(<<>>) = {}
      BY DEF ToSet
    <2> QED
      BY <2>1 DEF Posted
  <1>2. ~Completes(f)
    BY <1>1 DEF Completes
  <1>3. f \in Futures /\ kind[f] \in Callables \cup {"combine"}
    BY FutureAssumption
       DEF FutureInv, FutureTypes, Lineage, Created, Futures, Kinds, Callables, Continuations
  <1>4. \E p : Token(p, f)
    <2>1. CASE kind[f] = "combine"
      <3>1. Tallied(f)
        BY <2>1 DEF CompletionInv, Tallies
      <3>2. Pending(f) # {}
        BY <1>2, <3>1 DEF Tallied
      <3> QED
        BY <3>2 DEF Pending
    <2>2. CASE kind[f] \in Callables
      BY <1>2, <2>2 DEF CompletionInv, WillComplete
    <2> QED
      BY <1>3, <2>1, <2>2
  <1>5. PICK p : Token(p, f)
    BY <1>4
  <1>6. PICK a \in Places : Has(a, p, f)
    BY <1>5 DEF Token
  <1>7. CASE \E u \in Threads, d \in Nat : a = <<"agenda", u, d>>
    <2>1. Len(<<>>) = 0
      OBVIOUS
    <2> QED
      BY <1>6, <1>7, <2>1 DEF Has
  <1>8. CASE \E g \in Futures, i \in Nat : a = <<"ready", g, i>>
    <2>1. PICK g \in Futures, i \in Nat : a = <<"ready", g, i>>
      BY <1>8
    <2>2. i \in DOMAIN on_ready[g] /\ Carries(on_ready[g][i], p, f)
      BY <1>6, <2>1 DEF Has
    <2>3. on_ready[g][i] \in ToSet(on_ready[g]) /\ Awaited(g, on_ready[g][i])
      BY <2>2 DEF ToSet, FutureInv, RegistrationsLegal
    <2>4. Follows(f, g) /\ on_ready[g][i] = CallbackOf(g, f)
      BY <2>2, <2>3, AwaitedSense DEF FutureInv
    <2>5. ~Ready(g)
      <3>1. on_ready[g] # <<>>
        <4>1. ToSet(<<>>) = {}
          BY DEF ToSet
        <4> QED
          BY <2>3, <4>1
      <3> QED
        BY <3>1 DEF FutureInv, RegistrationsLegal
    <2> QED
      BY <2>3, <2>4, <2>5 DEF Follows
  <1>9. CASE \E e \in Queued : a = <<"queue", e>>
    BY <1>6, <1>9 DEF Has
  <1> QED
    BY <1>7, <1>8, <1>9, PlaceForms

\* Every pending future has what will complete it, and every SharedState says what has arrived.
LEMMA CompletionInvariant == Spec => []CompletionInv
  <1>1. Init => CompletionInv
    BY FutureAssumption DEF Init, CompletionInv, WillComplete, Tallies, Created
  <1>2. FutureInv /\ CompletionInv /\ [Next]_vars => CompletionInv'
    BY NextCompletionInv
  <1> QED
    BY <1>1, <1>2, FutureInvariant, PTL DEF Spec

\* OnReady never misses Return: once the threads are out of their calls, what will complete a
\* pending future is in a queue, or registered with a source that is still pending.
THEOREM NoFutureForgotten == Spec => []NothingForgotten
  <1>1. FutureInv /\ CompletionInv => NothingForgotten
    BY CompletionInvImplies
  <1> QED
    BY <1>1, FutureInvariant, CompletionInvariant, PTL

-----------------------------------------------------------------------------
(* A mutex held between two steps is one that the agenda unlocks.          *)

Mutexes == 0 .. MaxFutures

MutexesUnlocked ==
  /\ held \in [Threads -> SUBSET Mutexes]
  /\ \A t \in Threads : \A m \in held[t] : <<"unlock", m>> \in ToSet(agenda[t])

\* A step of a call: a mutex it keeps is one that it posts the unlocking of, and only Unlock
\* takes such an entry away.
LEMMA UnlockedAfter ==
  ASSUME FutureInv, MutexesUnlocked, NEW t \in Threads, agenda[t] # <<>>,
         NEW entries \in Seq(Entries), Proceed(t, entries),
         held' \in [Threads -> SUBSET Mutexes], \A u \in Threads \ {t} : held'[u] = held[u],
         \A m \in held'[t] : m \in held[t] \/ <<"unlock", m>> \in ToSet(entries),
         Head(agenda[t])[1] = "unlock" => Subject(t) \notin held'[t]
  PROVE  MutexesUnlocked'
  <1>1. /\ \A u \in Threads \ {t} : agenda'[u] = agenda[u]
        /\ ToSet(agenda[t]) = {Head(agenda[t])} \cup ToSet(Tail(agenda[t]))
        /\ ToSet(agenda'[t]) = ToSet(entries) \cup ToSet(Tail(agenda[t]))
    BY ProceedFacts DEF FutureInv
  <1>2. ASSUME NEW m \in held'[t] PROVE <<"unlock", m>> \in ToSet(agenda'[t])
    <2>1. ASSUME <<"unlock", m>> = Head(agenda[t]) PROVE FALSE
      <3>1. Head(agenda[t])[1] = "unlock" /\ Subject(t) = m
        BY <2>1 DEF Subject
      <3> QED
        BY <1>2, <3>1
    <2>2. m \in held[t] => <<"unlock", m>> \in ToSet(agenda[t])
      BY DEF MutexesUnlocked
    <2> QED
      BY <1>1, <1>2, <2>1, <2>2
  <1>3. \A u \in Threads \ {t} : \A m \in held'[u] : <<"unlock", m>> \in ToSet(agenda'[u])
    BY <1>1 DEF MutexesUnlocked
  <1> QED
    BY <1>2, <1>3 DEF MutexesUnlocked

\* A call that begins on an idle thread, which holds nothing.
LEMMA UnlockedOnCall ==
  ASSUME MutexesUnlocked, NEW t \in Threads, agenda[t] = <<>>,
         \A u \in Threads \ {t} : agenda'[u] = agenda[u],
         held' \in [Threads -> SUBSET Mutexes], \A u \in Threads \ {t} : held'[u] = held[u],
         \A m \in held'[t] : m \in held[t] \/ <<"unlock", m>> \in ToSet(agenda'[t])
  PROVE  MutexesUnlocked'
  <1>1. held[t] = {}
    <2>1. ToSet(agenda[t]) = {}
      BY DEF ToSet
    <2> QED
      BY <2>1 DEF MutexesUnlocked
  <1> QED
    BY <1>1 DEF MutexesUnlocked

\* What Return keeps locked it unlocks after it has let its parent go.
LEMMA ReturnUnlocks ==
  ASSUME FutureInv, MutexesUnlocked, NEW t \in Threads, Return(t)
  PROVE  MutexesUnlocked'
  <1>0. PICK f : f = Subject(t)
    OBVIOUS
  <1> DEFINE calls == on_ready[f]
             locks == kind[f] \in Continuations /\ ~Ready(ParentOf(f))
             letting_go == << <<"release", ParentOf(f)>>, <<"unlock", f>> >>
             first == IF locks THEN letting_go ELSE <<>>
  <1>1. /\ agenda[t] # <<>> /\ Head(agenda[t])[1] = "return" /\ Proceed(t, first \o calls)
        /\ held' = [held EXCEPT ![t] = IF locks THEN @ \cup {f} ELSE @]
    BY <1>0 DEF Return, Doing
  <1>2. f \in Futures /\ f \in Mutexes
    BY <1>0, <1>1, HeadLegal, FutureAssumption DEF Mutexes, Futures
  <1>3. calls \in Seq(Entries)
    BY <1>2 DEF FutureInv, FutureTypes
  <1>4. first \in Seq(Entries) /\ (locks => <<"unlock", f>> \in ToSet(first))
    <2>1. CASE locks
      <3>1. ParentOf(f) \in 0 .. MaxFutures
        BY <1>2, <2>1, ParentFacts, FutureAssumption DEF Futures, FutureInv
      <3>2. <<"release", ParentOf(f)>> \in Entries /\ <<"unlock", f>> \in Entries
        BY <1>2, <3>1 DEF Entries, Mutexes
      <3>3. letting_go \in Seq(Entries) /\ <<"unlock", f>> \in ToSet(letting_go)
        BY <3>2 DEF ToSet
      <3> QED
        BY <2>1, <3>3
    <2>2. CASE ~locks
      BY <2>2
    <2> QED
      BY <2>1, <2>2
  <1> HIDE DEF first, calls
  <1>5. PICK entries : entries = first \o calls
    OBVIOUS
  <1>6. entries \in Seq(Entries) /\ (locks => <<"unlock", f>> \in ToSet(entries))
    BY <1>3, <1>4, <1>5, JoinFacts
  <1>7. /\ held' \in [Threads -> SUBSET Mutexes] /\ \A u \in Threads \ {t} : held'[u] = held[u]
        /\ \A m \in held'[t] : m \in held[t] \/ <<"unlock", m>> \in ToSet(entries)
    BY <1>1, <1>2, <1>6 DEF MutexesUnlocked
  <1> QED
    BY <1>1, <1>5, <1>6, <1>7, UnlockedAfter

\* Of these steps only Return keeps a mutex.
LEMMA MovesUnlock ==
  ASSUME FutureInv, MutexesUnlocked, NEW t \in Threads, Moves(t)
  PROVE  MutexesUnlocked'
  <1>1. CASE Return(t)
    BY <1>1, ReturnUnlocks
  <1>2. CASE ~Return(t)
    <2>1. held' = held /\ Head(agenda[t])[1] # "unlock"
      BY <1>2 DEF Moves, AttachReady, AttachPending, Submit, PushTask, RunCalls, Continue, Doing
    <2>2. agenda[t] # <<>> /\ \E entries \in Seq(Entries) : Proceed(t, entries)
      BY MovesForm
    <2> QED
      BY <2>1, <2>2, UnlockedAfter DEF MutexesUnlocked
  <1> QED
    BY <1>1, <1>2

\* Of these steps only Unlock gives a mutex back, and only Reprioritise keeps one.
LEMMA SpendsUnlock ==
  ASSUME FutureInv, MutexesUnlocked, NEW t \in Threads, Spends(t)
  PROVE  MutexesUnlocked'
  <1>1. agenda[t] # <<>> /\ \E entries \in Seq(Entries) : Proceed(t, entries)
    BY SpendsForm
  <1>2. CASE Unlock(t)
    <2>1. held' = [held EXCEPT ![t] = @ \ {Subject(t)}]
      BY <1>2 DEF Unlock
    <2>2. /\ held' \in [Threads -> SUBSET Mutexes] /\ \A u \in Threads \ {t} : held'[u] = held[u]
          /\ held'[t] = held[t] \ {Subject(t)}
      BY <2>1 DEF MutexesUnlocked
    <2> QED
      BY <1>1, <2>2, UnlockedAfter
  <1>3. CASE Reprioritise(t)
    <2>0. PICK f, e : f = Subject(t) /\ e = ExecutorOf(t, f)
      OBVIOUS
    <2>1. /\ Head(agenda[t])[1] = "priority"
          /\ Proceed(t, IF e = "immediate" THEN <<>>
                        ELSE << <<"reprioritise", f, e>>, <<"unlock", f>> >>)
          /\ held' = [held EXCEPT ![t] = IF e = "immediate" THEN @ ELSE @ \cup {f}]
      BY <1>3, <2>0 DEF Reprioritise, Doing
    <2>2. f \in Created /\ f \in Futures /\ f \in Mutexes
      BY <1>1, <2>0, <2>1, HeadLegal, FutureAssumption DEF Mutexes, Futures
    <2>3. CASE e = "immediate"
      <3>1. held' = held
        BY <2>1, <2>3 DEF MutexesUnlocked
      <3> QED
        BY <1>1, <2>1, <3>1, UnlockedAfter DEF MutexesUnlocked
    <2>4. CASE e # "immediate"
      <3>1. e \in Queued
        BY <2>0, <2>2, <2>4 DEF ExecutorOf, Get, FutureInv, FutureTypes, Types
      <3> DEFINE entries == << <<"reprioritise", f, e>>, <<"unlock", f>> >>
      <3>2. entries \in Seq(Entries) /\ Proceed(t, entries)
        BY <2>1, <2>2, <2>4, <3>1, SpentEntries
      <3>3. <<"unlock", f>> \in ToSet(entries)
        BY DEF ToSet
      <3>4. held' = [held EXCEPT ![t] = @ \cup {f}]
        BY <2>1, <2>4
      <3> HIDE DEF entries
      <3>5. /\ held' \in [Threads -> SUBSET Mutexes]
            /\ \A u \in Threads \ {t} : held'[u] = held[u]
            /\ \A m \in held'[t] : m \in held[t] \/ <<"unlock", m>> \in ToSet(entries)
        BY <2>2, <3>3, <3>4 DEF MutexesUnlocked
      <3> QED
        BY <1>1, <2>1, <3>2, <3>5, UnlockedAfter
    <2> QED
      BY <2>3, <2>4
  <1>4. CASE ~Unlock(t) /\ ~Reprioritise(t)
    <2>1. held' = held /\ Head(agenda[t])[1] # "unlock"
      BY <1>4 DEF Spends, PushFails, RunSkipped, RunPropagates, BodyReturns, ReturnIgnored,
                  Release, RescheduleTask, Arrive, ArriveLate, Continue, Doing
    <2> QED
      BY <1>1, <2>1, UnlockedAfter DEF MutexesUnlocked
  <1> QED
    BY <1>2, <1>3, <1>4

\* Every step keeps the mutexes accounted for.
LEMMA MutexesNext ==
  ASSUME FutureInv, MutexesUnlocked, [Next]_vars
  PROVE  MutexesUnlocked'
  <1>1. CASE UNCHANGED vars
    BY <1>1 DEF vars, futureVars, MutexesUnlocked
  <1>2. ASSUME NEW t \in Threads, Makes(t) PROVE MutexesUnlocked'
    <2>1. agenda[t] = <<>> /\ \A u \in Threads \ {t} : agenda'[u] = agenda[u]
      BY <1>2, MakesKeeps DEF MadeRight
    <2>2. held' = held
      BY <1>2 DEF Makes, Promise, Schedule, Then, AsStatusFuture, Combine, CombineWaitForAll,
                  CombineStatusFutures, MergeValues, Create
    <2> QED
      BY <2>1, <2>2, UnlockedOnCall DEF MutexesUnlocked
  <1>3. ASSUME NEW t \in Threads, Intervenes(t) PROVE MutexesUnlocked'
    <2>1. agenda[t] = <<>> /\ held' = held /\ \A u \in Threads \ {t} : agenda'[u] = agenda[u]
      BY <1>3 DEF Intervenes, Cancel, UpdatePriority, DropHandle, ShutdownBackground, UserCall,
                  Idle, FutureInv, FutureTypes
    <2> QED
      BY <2>1, UnlockedOnCall DEF MutexesUnlocked
  <1>4. ASSUME NEW t \in Threads, ShutdownForeground(t) PROVE MutexesUnlocked'
    <2>1. /\ agenda[t] = <<>> /\ \A u \in Threads \ {t} : agenda'[u] = agenda[u]
          /\ held' = [held EXCEPT ![t] = @ \cup {ForegroundMutex}]
      BY <1>4 DEF ShutdownForeground, Idle, FutureInv, FutureTypes
    <2>2. <<"unlock", ForegroundMutex>> \in ToSet(agenda'[t])
      BY <1>4, ShutdownKeeps
    <2>3. ForegroundMutex \in Mutexes
      BY FutureAssumption DEF Mutexes, ForegroundMutex
    <2>4. /\ held' \in [Threads -> SUBSET Mutexes] /\ \A u \in Threads \ {t} : held'[u] = held[u]
          /\ held'[t] = held[t] \cup {ForegroundMutex}
      BY <2>1, <2>3 DEF MutexesUnlocked
    <2> QED
      BY <2>1, <2>2, <2>4, UnlockedOnCall
  <1>5. ASSUME NEW t \in Threads, NEW f \in Created, Take(t, f) PROVE MutexesUnlocked'
    <2>1. agenda[t] = <<>> /\ held' = held /\ \A u \in Threads \ {t} : agenda'[u] = agenda[u]
      BY <1>5 DEF Take, FutureInv, FutureTypes
    <2> QED
      BY <2>1, UnlockedOnCall DEF MutexesUnlocked
  <1> QED
    BY <1>1, <1>2, <1>3, <1>4, <1>5, MovesUnlock, SpendsUnlock, NextForms DEF Moves

\* Futures are made from older ones, what users hold, what is queued and what was dropped
\* exists, and a mutex that a thread holds between two steps is one that the rest of its calls
\* unlocks: nobody keeps a lock for good.
THEOREM FutureTypeCorrect == Spec => []TypeOK
  <1>1. Init => MutexesUnlocked
    BY DEF Init, MutexesUnlocked
  <1>2. FutureInv /\ MutexesUnlocked /\ [Next]_vars => MutexesUnlocked'
    BY MutexesNext
  <1>3. FutureInv /\ MutexesUnlocked => TypeOK
    <2> SUFFICES ASSUME FutureInv, MutexesUnlocked PROVE TypeOK
      OBVIOUS
    <2>1. \A f \in Futures : sources[f] \subseteq 1 .. f - 1 /\ started[f] \in Nat
      BY DEF FutureInv, FutureTypes, Lineage
    <2> QED
      BY <2>1 DEF TypeOK, FutureInv, FutureTypes, MutexesUnlocked
  <1> QED
    BY <1>1, <1>2, <1>3, FutureInvariant, PTL DEF Spec

-----------------------------------------------------------------------------
(* Futures implement Promises.                                             *)

\* A return that is on its way brings a result that its future may get.
ReturnsLegal ==
  \A e \in Posted : e[1] = "return" => e[3] \in {"cancelled"} \cup Promised!Verdicts(e[2])

\* Verdicts, kind by kind.
LEMMA VerdictForms ==
  ASSUME NEW f \in Futures
  PROVE  LET from == sources[f]
             all_ready == \A i \in from : Ready(i)
             all_ok == \A i \in from : result[i] = "ok"
         IN  /\ kind[f] = "schedule" => Promised!Verdicts(f) = {"ok", "error", "unavailable"}
             /\ kind[f] = "then" /\ all_ready => "unavailable" \in Promised!Verdicts(f)
             /\ kind[f] = "then" /\ all_ready /\ accepts[f] =>
                  Promised!Verdicts(f) = {"ok", "error", "unavailable"}
             /\ kind[f] = "then" /\ all_ready /\ ~accepts[f] =>
                  /\ FailuresOf(from) \subseteq Promised!Verdicts(f)
                  /\ all_ok => {"ok", "error"} \subseteq Promised!Verdicts(f)
             /\ kind[f] \in {"status", "merge"} =>
                  /\ FailuresOf(from) \subseteq Promised!Verdicts(f)
                  /\ all_ok => "ok" \in Promised!Verdicts(f)
             /\ kind[f] = "combine" =>
                  /\ all_ok => "ok" \in Promised!Verdicts(f)
                  /\ \A v \in FailuresOf(from) :
                       (shared[f].wait_all => all_ready) => v \in Promised!Verdicts(f)
  BY DEF Promised!Verdicts, Promised!Failures, Promised!Ready, FailuresOf, Ready

\* A future may get no fewer results as more of its sources get theirs.
LEMMA VerdictsKept ==
  ASSUME FutureInv, Steady, NEW f \in Created,
         shared'[f].wait_all = shared[f].wait_all
  PROVE  Promised!Verdicts(f) \subseteq Promised!Verdicts(f)'
  <1>1. /\ kind'[f] = kind[f] /\ accepts'[f] = accepts[f] /\ sources'[f] = sources[f]
    BY DEF Steady
  <1>2. sources[f] \subseteq Created /\ f \in Futures
    <2>1. sources[f] \subseteq 1 .. f - 1 /\ created \in 0 .. MaxFutures
      BY DEF FutureInv, Lineage, FutureTypes
    <2> QED
      BY <2>1, FutureAssumption DEF Created, Futures
  <1>3. \A i \in sources[f] : Ready(i) => Ready(i)' /\ result'[i] = result[i]
    BY <1>2 DEF Steady, Ready
  <1>4. \A i \in sources[f] : result[i] = "ok" => result'[i] = "ok"
    BY <1>3 DEF Ready
  <1>5. FailuresOf(sources[f]) \subseteq FailuresOf(sources[f])'
    BY <1>1, <1>3 DEF FailuresOf, Ready
  <1>6. [g \in Futures |-> shared[g].wait_all][f] = shared[f].wait_all
        /\ [g \in Futures |-> shared'[g].wait_all][f] = shared'[f].wait_all
    BY <1>2
  <1> QED
    BY <1>1, <1>2, <1>3, <1>4, <1>5, <1>6
       DEF Promised!Verdicts, Promised!Failures, Promised!Ready, FailuresOf, Ready

\* An entry that ReturnsLegal is content with.
Verdict(e) == e[1] = "return" => e[3] \in {"cancelled"} \cup Promised!Verdicts(e[2])

\* A return that was legal stays legal.
LEMMA VerdictKept ==
  ASSUME FutureInv, Steady, \A f \in Created : shared'[f].wait_all = shared[f].wait_all,
         NEW e, Legal(e), Verdict(e)
  PROVE  Verdict(e)'
  <1>1. e[1] = "return" => e[2] \in Created
    BY DEF Legal
  <1>2. e[1] = "return" => Promised!Verdicts(e[2]) \subseteq Promised!Verdicts(e[2])'
    BY <1>1, VerdictsKept
  <1> QED
    BY <1>2 DEF Verdict

\* Legal returns stay legal if those that are new are.
LEMMA ReturnsKept ==
  ASSUME FutureInv, ReturnsLegal, Steady,
         \A f \in Created : shared'[f].wait_all = shared[f].wait_all,
         NEW New, Posted' \subseteq Posted \cup New, \A e \in New : Verdict(e)'
  PROVE  ReturnsLegal'
  <1>1. \A e \in Posted : Legal(e) /\ Verdict(e)
    BY DEF FutureInv, AgendasLegal, ReturnsLegal, Verdict
  <1>2. \A e \in Posted' : Verdict(e)'
    BY <1>1, VerdictKept
  <1> QED
    BY <1>2 DEF ReturnsLegal, Verdict

\* The results that tasks, executors, destructors and combined futures bring.
LEMMA SpendsVerdicts ==
  ASSUME FutureInv, CompletionInv, NEW t \in Threads, Spends(t)
  PROVE  \E entries \in Seq(Entries) :
           Proceed(t, entries) /\ \A e \in ToSet(entries) : Verdict(e)'
  <1>0. PICK f, op : f = Subject(t) /\ op = Head(agenda[t])[1]
    OBVIOUS
  <1> DEFINE Posts == \E entries \in Seq(Entries) :
                        Proceed(t, entries) /\ \A e \in ToSet(entries) : Verdict(e)'
  <1>1. agenda[t] # <<>> /\ Created' = Created
    BY SpendsForm DEF Bystanders, Created
  <1>2. op # "unlock" => f \in Created /\ f \in Futures
    BY <1>0, <1>1, HeadLegal
  <1>3. WillComplete' /\ Steady /\ UNCHANGED <<created, kind, sources, result>>
    BY WillCompleteSpent
  <1>4. ASSUME NEW g \in Created, NEW v \in Results, Proceed(t, << <<"return", g, v>> >>),
               v = "cancelled" \/ v \in Promised!Verdicts(g)'
        PROVE  Posts
    <2> DEFINE entries == << <<"return", g, v>> >>
    <2>1. entries \in Seq(Entries) /\ ToSet(entries) = {<<"return", g, v>>}
      BY <1>0, <1>4, SpentEntries
    <2>2. Proceed(t, entries) /\ Verdict(<<"return", g, v>>)'
      BY <1>0, <1>4 DEF Verdict
    <2> HIDE DEF entries
    <2> QED
      BY <1>0, <2>1, <2>2
  <1>5. Proceed(t, <<>>) => Posts
    BY SpentEntries
  <1>6. ASSUME NEW g \in Created, NEW v \in Results, Proceed(t, << <<"return", g, v>> >>),
               shared'[g] = shared[g], v \in Promised!Verdicts(g)
        PROVE  Posts
    BY <1>0, <1>3, <1>4, <1>6, VerdictsKept
  <1> HIDE DEF Posts
  <1>7. ASSUME f \in Futures, MayCall(f), kind[f] \in Continuations
        PROVE  /\ sources[f] = {ParentOf(f)} /\ Ready(ParentOf(f))
               /\ result[ParentOf(f)] \in Results
               /\ \A i \in sources[f] : Ready(i)
               /\ result[ParentOf(f)] # "ok" => result[ParentOf(f)] \in FailuresOf(sources[f])
               /\ result[ParentOf(f)] = "ok" => \A i \in sources[f] : result[i] = "ok"
    <2>1. sources[f] = {ParentOf(f)} /\ ParentOf(f) \in Futures /\ Ready(ParentOf(f))
      BY <1>0, <1>7, ParentFacts DEF FutureInv, MayCall
    <2>2. result[ParentOf(f)] \in Results
      BY <1>0, <2>1 DEF Ready, FutureInv, FutureTypes
    <2> QED
      BY <1>0, <2>1, <2>2 DEF FailuresOf, Ready
  <1>8. ASSUME PushFails(t) PROVE Posts
    <2>1. op = "push" /\ shared' = shared /\ Proceed(t, << <<"return", f, "unavailable">> >>)
      BY <1>0, <1>8 DEF PushFails, Doing, Continue
    <2>2. f \in Created /\ f \in Futures /\ MayCall(f) /\ kind[f] \in {"schedule", "then"}
      BY <1>0, <1>1, <2>1, HeadLegal DEF Legal, Subject
    <2>3. kind[f] = "then" => \A i \in sources[f] : Ready(i)
      BY <1>0, <1>7, <2>2 DEF Continuations
    <2>4. "unavailable" \in Promised!Verdicts(f) /\ "unavailable" \in Results
      BY <1>0, <2>2, <2>3, VerdictForms DEF Results
    <2> QED
      BY <1>0, <1>6, <2>1, <2>2, <2>4
  <1>9. ASSUME \/ RunSkipped(t) \/ ReturnIgnored(t) \/ RescheduleTask(t) \/ ArriveLate(t)
               \/ Unlock(t)
        PROVE  Posts
    BY <1>0, <1>5, <1>9 DEF RunSkipped, ReturnIgnored, RescheduleTask, ArriveLate, Unlock, Continue
  <1>10. ASSUME RunPropagates(t) PROVE Posts
    <2>1. /\ op = "run" /\ shared' = shared /\ Propagates(f)
          /\ Proceed(t, << <<"return", f, result[ParentOf(f)]>> >>)
      BY <1>0, <1>10 DEF RunPropagates, Doing, Continue
    <2>2. /\ f \in Created /\ f \in Futures /\ MayCall(f)
          /\ kind[f] \in Continuations /\ ~accepts[f] /\ result[ParentOf(f)] # "ok"
      BY <1>0, <1>1, <2>1, HeadLegal DEF Legal, Subject, Propagates
    <2>3. kind[f] = "then"
      BY <1>0, <2>2 DEF FutureInv, Lineage, Continuations
    <2>4. result[ParentOf(f)] \in Promised!Verdicts(f) /\ result[ParentOf(f)] \in Results
      BY <1>0, <1>7, <2>2, <2>3, VerdictForms
    <2> QED
      BY <1>0, <1>6, <2>1, <2>2, <2>4
  <1>11. ASSUME BodyReturns(t) PROVE Posts
    <2>1. /\ op = "body" /\ shared' = shared
          /\ \E v \in Produces(f) : Proceed(t, << <<"return", f, v>> >>)
      BY <1>0, <1>11 DEF BodyReturns, Doing, Continue
    <2>2. f \in Created /\ f \in Futures /\ MayCall(f) /\ Permits(f)
      BY <1>0, <1>1, <2>1, HeadLegal DEF Legal, Subject
    <2>3. Produces(f) \subseteq Promised!Verdicts(f) /\ Produces(f) \subseteq Results
      <3>1. CASE kind[f] \in {"status", "merge"}
        <4>1. kind[f] \in Continuations /\ Produces(f) = {result[ParentOf(f)]}
          BY <3>1 DEF Continuations, Produces
        <4> QED
          BY <1>0, <1>7, <2>2, <3>1, <4>1, VerdictForms
      <3>2. CASE kind[f] = "schedule"
        <4>1. Produces(f) = {"ok", "error"}
          BY <3>2 DEF Produces
        <4> QED
          BY <1>0, <2>2, <3>2, <4>1, VerdictForms DEF Results
      <3>3. CASE kind[f] = "then"
        <4>1. Produces(f) = {"ok", "error"} /\ kind[f] \in Continuations
          BY <3>3 DEF Produces, Continuations
        <4>2. accepts[f] \/ result[ParentOf(f)] = "ok"
          BY <1>0, <2>2, <4>1 DEF Permits
        <4> QED
          BY <1>0, <1>7, <2>2, <3>3, <4>1, <4>2, VerdictForms DEF Results
      <3> QED
        BY <1>0, <2>2, <3>1, <3>2, <3>3 DEF MayCall, Callables, Continuations
    <2> QED
      BY <1>0, <1>6, <2>1, <2>2, <2>3
  <1>12. ASSUME Release(t) PROVE Posts
    <2>1. /\ op = "release"
          /\ Proceed(t, <<>>) \/ Proceed(t, << <<"return", f, "cancelled">> >>)
      BY <1>0, <1>12 DEF Release, Doing, Continue
    <2> QED
      BY <1>0, <1>2, <1>4, <1>5, <2>1 DEF Results
  <1>13. ASSUME Reprioritise(t) PROVE Posts
    <2>0. PICK e : e = ExecutorOf(t, f)
      OBVIOUS
    <2>1. /\ op = "priority"
          /\ IF e = "immediate" THEN Proceed(t, <<>>)
             ELSE Proceed(t, << <<"reprioritise", f, e>>, <<"unlock", f>> >>)
      BY <1>0, <1>13, <2>0 DEF Reprioritise, Doing
    <2>2. e # "immediate" => e \in Queued
      BY <1>0, <1>2, <2>0, <2>1 DEF ExecutorOf, Get, FutureInv, FutureTypes, Types
    <2>3. CASE e # "immediate"
      <3> DEFINE entries == << <<"reprioritise", f, e>>, <<"unlock", f>> >>
      <3>1. /\ entries \in Seq(Entries) /\ Proceed(t, entries)
            /\ \A z \in ToSet(entries) : z[1] \in {"reprioritise", "unlock"}
        BY <1>0, <1>2, <2>1, <2>2, <2>3, SpentEntries
      <3> HIDE DEF entries
      <3>2. \A z \in ToSet(entries) : Verdict(z)'
        BY <3>1 DEF Verdict
      <3> QED
        BY <3>1, <3>2 DEF Posts
    <2> QED
      BY <1>0, <1>5, <2>1, <2>3
  <1>14. ASSUME Arrive(t) PROVE Posts
    <2>0. PICK r, after : r = Argument(t) /\ after = AfterArrival(shared[r], result[f])
      OBVIOUS
    <2>1. /\ shared' = [shared EXCEPT ![r] = after] /\ Doing(t, "arrive")
          /\ Proceed(t, IF after.done THEN << <<"return", r, after.first_error>> >> ELSE <<>>)
      BY <1>0, <2>0, <1>14 DEF Arrive
    <2>2. r \in Created /\ r \in Futures /\ kind[r] = "combine" /\ after \in Shares
      BY <1>0, <2>0, <2>1, ArrivalFacts
    <2>3. shared'[r] = after /\ after.first_error \in Results
      BY <1>0, <2>0, <2>1, <2>2 DEF FutureInv, FutureTypes, Shares
    <2>4. Tallied(r)'
      BY <1>0, <2>0, <1>1, <1>3, <1>14, <2>2, CompletionArrived DEF CompletionInv, Tallies
    <2>5. ASSUME after.done PROVE after.first_error \in Promised!Verdicts(r)'
      <3>1. /\ kind'[r] = "combine" /\ r \in Futures
            /\ (after.wait_all \/ ~after.has_error) => Pending(r)' = {}
            /\ \A p \in sources'[r] \ Pending(r)' : Ready(p)'
            /\ after.has_error => after.first_error \in FailuresOf(sources[r])'
            /\ ~after.has_error =>
                 /\ after.first_error = "ok"
                 /\ \A p \in sources'[r] \ Pending(r)' : result'[p] = "ok"
        BY <1>0, <2>0, <1>3, <2>2, <2>3, <2>4, <2>5 DEF Tallied
      <3>2. /\ after.wait_all => \A p \in sources'[r] : Ready(p)'
            /\ ~after.has_error => \A p \in sources'[r] : result'[p] = "ok"
        BY <3>1
      <3>3. [g \in Futures |-> shared'[g].wait_all][r] = after.wait_all
        BY <1>0, <2>0, <2>2, <2>3
      <3> QED
        BY <3>1, <3>2, <3>3
           DEF Promised!Verdicts, Promised!Failures, Promised!Ready, FailuresOf, Ready
    <2> QED
      BY <1>0, <2>0, <1>4, <1>5, <2>1, <2>2, <2>3, <2>5
  <1> QED
    BY <1>8, <1>9, <1>10, <1>11, <1>12, <1>13, <1>14 DEF Spends, Posts

\* No step but the first gives a combined future another mind about failures.
LEMMA SpendsWaits ==
  ASSUME FutureInv, NEW t \in Threads, Spends(t)
  PROVE  \A f \in Futures : shared'[f].wait_all = shared[f].wait_all
  <1>1. CASE Arrive(t)
    <2>0. PICK r, status, after : /\ r = Argument(t) /\ status = result[Subject(t)]
                                  /\ after = AfterArrival(shared[r], status)
      OBVIOUS
    <2>1. /\ shared' = [shared EXCEPT ![r] = after] /\ r \in Futures
          /\ after.wait_all = shared[r].wait_all
      <3>1. Doing(t, "arrive") /\ shared' = [shared EXCEPT ![r] = after]
        BY <1>1, <2>0 DEF Arrive
      <3>2. r \in Futures
        BY <2>0, <3>1, ArrivalFacts
      <3>3. after.wait_all = shared[r].wait_all
        BY <2>0 DEF AfterArrival
      <3> QED
        BY <3>1, <3>2, <3>3
    <2> QED
      BY <2>1 DEF FutureInv, FutureTypes
  <1>2. CASE ArriveLate(t)
    BY <1>2 DEF ArriveLate, Continue
  <1> QED
    BY <1>1, <1>2, SpendsHead

\* The only result that comes with the making of a future is that of combining none.
LEMMA MakesPosts ==
  ASSUME FutureInv, NEW t \in Threads, NEW f, f = created + 1, Makes(t),
         NEW e \in ToSet(agenda'[t]), e[1] = "return"
  PROVE  /\ e = <<"return", f, "ok">> /\ agenda'[t] = <<e>>
         /\ kind'[f] = "combine" /\ sources'[f] = {}
  <1>1. ASSUME NEW how, NEW type, NEW takes_result, NEW origins, NEW state, NEW entries,
               Create(t, how, type, takes_result, origins, state, entries)
        PROVE  /\ e \in ToSet(entries) /\ agenda'[t] = entries
               /\ kind'[f] = how /\ sources'[f] = origins
    BY <1>1, CreateFacts DEF FutureInv, FutureTypes
  <1>2. ASSUME NEW x, x[1] # "return", NEW how, NEW type, NEW takes_result, NEW origins, NEW state
        PROVE  ~Create(t, how, type, takes_result, origins, state, <<x>>)
    <2>1. ToSet(<<x>>) = {x}
      BY DEF ToSet
    <2> QED
      BY <1>1, <1>2, <2>1
  <1>3. ~Promise(t)
    <2>1. ToSet(<<>>) = {}
      BY DEF ToSet
    <2> QED
      BY <1>1, <2>1 DEF Promise
  <1>4. \A type \in AskedTypes : ~Schedule(t, type)
    BY <1>2 DEF Schedule
  <1>5. \A p \in Created, type \in AskedTypes, takes_result \in TakesResult :
          ~Then(t, p, type, takes_result)
    BY <1>2 DEF Then
  <1>6. \A p \in Created : ~AsStatusFuture(t, p) /\ ~MergeValues(t, p)
    BY <1>2 DEF AsStatusFuture, MergeValues
  <1>7. PICK inputs, wait_for_all : CombineStatusFutures(t, inputs, wait_for_all)
    BY <1>3, <1>4, <1>5, <1>6 DEF Makes, Combine, CombineWaitForAll
  <1> DEFINE order == SetToSeq(inputs)
             one == << <<"return", f, "ok">> >>
             many == [i \in DOMAIN order |-> <<"attach", order[i], f>>]
  <1>8. /\ e \in ToSet(IF inputs = {} THEN one ELSE many)
        /\ agenda'[t] = IF inputs = {} THEN one ELSE many
        /\ kind'[f] = "combine" /\ sources'[f] = inputs
    <2>1. PICK state, entries :
            /\ Create(t, "combine", "immediate", FALSE, inputs, state, entries)
            /\ entries = IF inputs = {} THEN one ELSE many
      BY <1>7 DEF CombineStatusFutures
    <2> HIDE DEF one, many
    <2> QED
      BY <1>1, <2>1
  <1> HIDE DEF order
  <1>9. \A x \in ToSet(many) : x[1] = "attach"
    BY DEF ToSet
  <1>10. ToSet(one) = {<<"return", f, "ok">>}
    BY DEF ToSet
  <1> QED
    BY <1>8, <1>9, <1>10

\* Making a future posts no illegal return.
LEMMA MakesVerdicts ==
  ASSUME FutureInv, ReturnsLegal, NEW t \in Threads, Makes(t)
  PROVE  ReturnsLegal'
  <1>0. PICK f : f = created + 1
    OBVIOUS
  <1>1. /\ Steady /\ agenda[t] = <<>> /\ \A u \in Threads \ {t} : agenda'[u] = agenda[u]
        /\ \A g \in Created : shared'[g] = shared[g]
    BY <1>0, MakesKeeps DEF MadeRight
  <1>2. Posted' \subseteq Posted \cup ToSet(agenda'[t])
    BY <1>1 DEF Posted
  <1>3. f \in Futures
    BY <1>0, FutureAssumption, MakesKeeps DEF MadeRight, FutureInv, FutureTypes, Futures
  <1>4. ASSUME NEW e \in ToSet(agenda'[t]) PROVE Verdict(e)'
    <2> SUFFICES ASSUME e[1] = "return" PROVE e[3] \in Promised!Verdicts(e[2])'
      BY DEF Verdict
    <2>1. e[2] = f /\ e[3] = "ok" /\ kind'[f] = "combine" /\ sources'[f] = {}
      BY <1>0, MakesPosts
      <2>2. "ok" \in Promised!Verdicts(f)'
      BY <1>3, <2>1 DEF Promised!Verdicts
    <2> QED
      BY <2>1, <2>2
  <1> QED
    BY <1>1, <1>2, <1>4, ReturnsKept

\* A step keeps the returns on their way legal, whatever it posts itself.
LEMMA ReturnsNext ==
  ASSUME FutureInv, CompletionInv, ReturnsLegal, [Next]_vars
  PROVE  ReturnsLegal'
  <1>1. CASE UNCHANGED vars
    <2>1. Posted' = Posted /\ Steady /\ shared' = shared
      BY <1>1 DEF vars, futureVars, Posted, Steady, Created
    <2>2. PICK New : New = {}
      OBVIOUS
    <2>3. Posted' \subseteq Posted \cup New /\ \A e \in New : Verdict(e)'
      BY <2>1, <2>2
    <2>4. Steady /\ \A f \in Created : shared'[f].wait_all = shared[f].wait_all
      BY <2>1
    <2> QED
      BY <2>3, <2>4, ReturnsKept
  <1>2. ASSUME NEW t \in Threads, Moves(t) PROVE ReturnsLegal'
    <2>1. PICK entries \in Seq(Entries) :
            Proceed(t, entries) /\ \A e \in ToSet(entries) : e[1] # "return"
      BY <1>2, MovesForm
    <2>2. agenda[t] # <<>> /\ Steady /\ shared' = shared
      BY <1>2, MovesForm
    <2>3. Posted' \subseteq Posted \cup ToSet(entries)
      BY <2>1, <2>2, PostedAfter DEF FutureInv
    <2>4. \A e \in ToSet(entries) : Verdict(e)'
      BY <2>1 DEF Verdict
    <2> QED
      BY <2>2, <2>3, <2>4, ReturnsKept
  <1>3. ASSUME NEW t \in Threads, Spends(t) PROVE ReturnsLegal'
    <2>1. PICK entries \in Seq(Entries) :
            Proceed(t, entries) /\ \A e \in ToSet(entries) : Verdict(e)'
      BY <1>3, SpendsVerdicts
    <2>2. agenda[t] # <<>> /\ Steady
      BY <1>3, SpendsForm, WillCompleteSpent
    <2>3. Posted' \subseteq Posted \cup ToSet(entries)
      BY <2>1, <2>2, PostedAfter DEF FutureInv
    <2>4. \A f \in Created : shared'[f].wait_all = shared[f].wait_all
      BY <1>3, SpendsWaits, FutureAssumption DEF Created, Futures, FutureInv, FutureTypes
    <2> QED
      BY <2>1, <2>2, <2>3, <2>4, ReturnsKept
  <1>4. ASSUME NEW t \in Threads, Makes(t) PROVE ReturnsLegal'
    BY <1>4, MakesVerdicts
  <1>5. ASSUME NEW t \in Threads, Intervenes(t) PROVE ReturnsLegal'
    <2>1. PICK entries :
            /\ agenda' = [agenda EXCEPT ![t] = entries]
            /\ \/ entries = <<>>
               \/ \E f \in Created : \/ entries = << <<"return", f, "cancelled">> >>
                                     \/ entries = << <<"priority", f>> >>
                                     \/ entries = << <<"release", f>> >>
      BY <1>5 DEF Intervenes, Cancel, UpdatePriority, DropHandle, ShutdownBackground, UserCall
    <2>2. /\ UNCHANGED <<created, kind, accepts, sources, result, shared>> /\ agenda[t] = <<>>
      BY <1>5 DEF Intervenes, Cancel, UpdatePriority, DropHandle, ShutdownBackground, UserCall, Idle
    <2>3. \A e \in ToSet(entries) : e[1] = "return" => e[3] = "cancelled"
      BY <2>1 DEF ToSet
    <2>4. Posted' \subseteq Posted \cup ToSet(entries)
      BY <2>1 DEF Posted, FutureInv, FutureTypes
    <2>5. Steady
      BY <2>2 DEF Steady, Created
    <2> QED
      BY <2>2, <2>3, <2>4, <2>5, ReturnsKept DEF Verdict
  <1>6. ASSUME NEW t \in Threads, ShutdownForeground(t) PROVE ReturnsLegal'
    <2>1. UNCHANGED <<created, kind, accepts, sources, result, shared>>
      BY <1>6 DEF ShutdownForeground
    <2>2. \A e \in Posted' \ Posted : e[1] # "return"
      BY <1>6, ShutdownKeeps
    <2>3. Steady
      BY <2>1 DEF Steady, Created
    <2> DEFINE New == Posted' \ Posted
    <2>4. Posted' \subseteq Posted \cup New /\ \A e \in New : Verdict(e)'
      BY <2>2 DEF Verdict
    <2> QED
      BY <2>1, <2>3, <2>4, ReturnsKept
  <1>7. ASSUME NEW t \in Threads, NEW f \in Created, Take(t, f) PROVE ReturnsLegal'
    <2>1. /\ UNCHANGED <<created, kind, accepts, sources, result, shared>>
          /\ agenda' = [agenda EXCEPT ![t] = << <<"run", f>> >>]
      BY <1>7 DEF Take
    <2>2. Posted' \subseteq Posted \cup {<<"run", f>>}
      BY <2>1 DEF Posted, FutureInv, FutureTypes, ToSet
    <2>3. Steady
      BY <2>1 DEF Steady, Created
    <2>4. PICK New : New = {<<"run", f>>}
      OBVIOUS
    <2>5. \A e \in New : Verdict(e)'
      BY <2>4 DEF Verdict
    <2>6. Posted' \subseteq Posted \cup New
      BY <2>2, <2>4
    <2>7. \A g \in Created : shared'[g].wait_all = shared[g].wait_all
      BY <2>1
    <2> QED
      BY <2>3, <2>5, <2>6, <2>7, ReturnsKept
  <1> QED
    BY <1>1, <1>2, <1>3, <1>4, <1>5, <1>6, <1>7, NextForms DEF Moves

\* What leaves all that was promised as it was.
LEMMA AbstractStutter ==
  ASSUME UNCHANGED <<kind, accepts, sources, result>>,
         \A f \in Futures : shared'[f].wait_all = shared[f].wait_all
  PROVE  UNCHANGED Promised!vars
  <1>1. [f \in Futures |-> shared'[f].wait_all] = [f \in Futures |-> shared[f].wait_all]
    OBVIOUS
  <1> QED
    BY <1>1 DEF Promised!vars

\* Return completes its future, with a result that its kind and its sources permit.
LEMMA ReturnCompletes ==
  ASSUME FutureInv, ReturnsLegal, NEW t \in Threads, Return(t)
  PROVE  \E f \in Promised!Futures : Promised!Complete(f)
  <1> DEFINE f == Subject(t)
             v == Argument(t)
  <1>1. /\ agenda[t] # <<>> /\ Head(agenda[t])[1] = "return" /\ ~Ready(f)
        /\ result' = [result EXCEPT ![f] = v]
        /\ UNCHANGED <<kind, accepts, sources, shared>>
    BY DEF Return, Doing
  <1>2. f \in Created /\ f \in Futures
    BY <1>1, HeadLegal
  <1>3. Head(agenda[t]) \in Posted
    <2>1. Head(agenda[t]) \in ToSet(agenda[t])
      BY <1>1, TailFacts DEF FutureInv, FutureTypes
    <2> QED
      BY <2>1 DEF Posted
  <1>4. v \in {"cancelled"} \cup Promised!Verdicts(f)
    BY <1>1, <1>3 DEF ReturnsLegal, Subject, Argument
  <1>5. kind[f] # "none"
    BY <1>2 DEF FutureInv, Lineage
  <1> HIDE DEF f, v
  <1>6. Promised!Complete(f)
    BY <1>1, <1>4, <1>5 DEF Promised!Complete, Promised!Ready, Ready
  <1> QED
    BY <1>2, <1>6 DEF Promised!Futures, Futures

\* A call that makes a future creates it, from futures there are.
LEMMA MakesCreates ==
  ASSUME FutureInv, NEW t \in Threads, Makes(t)
  PROVE  \E f \in Promised!Futures : Promised!Create(f)
  <1>0. PICK f : f = created + 1
    OBVIOUS
  <1>1. PICK how, type, takes_result, origins, state, entries :
          Create(t, how, type, takes_result, origins, state, entries)
    BY DEF Makes, Promise, Schedule, Then, AsStatusFuture, Combine, CombineWaitForAll,
           CombineStatusFutures, MergeValues
  <1>2. MadeRight(t)
    BY <1>0, MakesKeeps
  <1>3. /\ FutureInv' /\ created' = f /\ UNCHANGED result
        /\ f \in Futures /\ f \notin Created /\ f \in Created' /\ Created' = Created \cup {f}
        /\ created \in Nat
    BY <1>1, <1>2, <1>0, CreateFacts DEF MadeRight
  <1>4. kind[f] = "none" /\ kind'[f] # "none"
    BY <1>3 DEF FutureInv, Lineage
  <1>5. sources'[f] \subseteq Created
    <2>1. sources'[f] \subseteq 1 .. f - 1
      BY <1>3 DEF FutureInv, Lineage
    <2> QED
      BY <1>3, <2>1 DEF Created
  <1>6. \A g \in Created : kind[g] # "none" /\ g \in Futures
    BY <1>1, <1>0, CreateFacts DEF FutureInv, Lineage
  <1>7. \A g \in Futures \ {f} : /\ kind'[g] = kind[g] /\ accepts'[g] = accepts[g]
                                 /\ sources'[g] = sources[g] /\ shared'[g] = shared[g]
    BY <1>0, <1>1 DEF Create, FutureInv, FutureTypes
  <1>8. \A g \in Futures \ {f} :
          [h \in Futures |-> shared'[h].wait_all][g] = [h \in Futures |-> shared[h].wait_all][g]
    BY <1>7
  <1>9. Promised!Create(f)
    BY <1>3, <1>4, <1>5, <1>6, <1>7, <1>8 DEF Promised!Create, Promised!Futures, Futures
  <1> QED
    BY <1>3, <1>9 DEF Promised!Futures, Futures

\* Every other step leaves what was promised as it was.
LEMMA StepImplements ==
  ASSUME FutureInv, CompletionInv, ReturnsLegal, [Next]_vars
  PROVE  [Promised!Next]_(Promised!vars)
  <1>1. CASE UNCHANGED vars
    BY <1>1, AbstractStutter DEF vars, futureVars
  <1>2. ASSUME NEW t \in Threads, Moves(t) PROVE [Promised!Next]_(Promised!vars)
    <2>1. CASE Return(t)
      BY <2>1, ReturnCompletes DEF Promised!Next
    <2>2. CASE ~Return(t)
      <3>1. UNCHANGED <<kind, accepts, sources, result, shared>>
        BY <1>2, <2>2 DEF Moves, AttachReady, AttachPending, Submit, PushTask, RunCalls, Continue
      <3> QED
        BY <3>1, AbstractStutter
    <2> QED
      BY <2>1, <2>2
  <1>3. ASSUME NEW t \in Threads, Spends(t) PROVE [Promised!Next]_(Promised!vars)
    BY <1>3, SpendsForm, SpendsWaits, AbstractStutter DEF Bystanders
  <1>4. ASSUME NEW t \in Threads, Makes(t) PROVE [Promised!Next]_(Promised!vars)
    BY <1>4, MakesCreates DEF Promised!Next
  <1>5. ASSUME NEW t \in Threads, Intervenes(t) PROVE [Promised!Next]_(Promised!vars)
    <2>1. UNCHANGED <<kind, accepts, sources, result, shared>>
      BY <1>5 DEF Intervenes, Cancel, UpdatePriority, DropHandle, ShutdownBackground, UserCall
    <2> QED
      BY <2>1, AbstractStutter
  <1>6. ASSUME NEW t \in Threads, ShutdownForeground(t) PROVE [Promised!Next]_(Promised!vars)
    <2>1. UNCHANGED <<kind, accepts, sources, result, shared>>
      BY <1>6 DEF ShutdownForeground
    <2> QED
      BY <2>1, AbstractStutter
  <1>7. ASSUME NEW t \in Threads, NEW f \in Created, Take(t, f)
        PROVE  [Promised!Next]_(Promised!vars)
    <2>1. UNCHANGED <<kind, accepts, sources, result, shared>>
      BY <1>7 DEF Take
    <2> QED
      BY <2>1, AbstractStutter
  <1> QED
    BY <1>1, <1>2, <1>3, <1>4, <1>5, <1>6, <1>7, NextForms DEF Moves

\* At the start nothing is promised.
LEMMA InitImplements ==
  ASSUME Init
  PROVE  Promised!Init
  <1>1. [f \in Futures |-> shared[f].wait_all] = [f \in Futures |-> FALSE]
    BY DEF Init, NoShared
  <1> QED
    BY <1>1 DEF Init, Promised!Init, Promised!Futures, Futures

\* Whatever Return is called with is cancelled or a result that the future's kind and the results
\* of its sources permit, and stays so until the call gets the mutex.
THEOREM ReturnsAreLegal == Spec => []ReturnsLegal
  <1>1. Init => ReturnsLegal
    <2>1. ToSet(<<>>) = {}
      BY DEF ToSet
    <2> QED
      BY <2>1 DEF Init, ReturnsLegal, Posted
  <1>2. FutureInv /\ CompletionInv /\ ReturnsLegal /\ [Next]_vars => ReturnsLegal'
    BY ReturnsNext
  <1> QED
    BY <1>1, <1>2, FutureInvariant, CompletionInvariant, PTL DEF Spec

\* Each future gets one result, never another, and one that follows from those it was made from:
\* a continuation passes its parent's error on or runs, Combine fails as soon as one source fails
\* or waits for all, Merge has every value or none.
THEOREM FuturesImplementPromises == Spec => ImplementsPromises
  <1>1. Init => Promised!Init
    BY InitImplements
  <1>2. FutureInv /\ CompletionInv /\ ReturnsLegal /\ [Next]_vars
          => [Promised!Next]_(Promised!vars)
    BY StepImplements
  <1> QED
    BY <1>1, <1>2, FutureInvariant, CompletionInvariant, ReturnsAreLegal, PTL
       DEF Spec, ImplementsPromises, Promised!Spec

-----------------------------------------------------------------------------
(* No thread waits for itself.                                             *)

\* Somebody other than child, or a queue, still holds the wrapper of f.
Kept(f, child) ==
  \/ f \in handles
  \/ \E c \in Created \ {child} : kind[c] \in Continuations /\ ~Ready(c) /\ f \in sources[c]
  \/ \E g \in Created : \E e \in ToSet(on_ready[g]) : f \in Keeps(e)
  \/ \E e \in Posted : f \in Keeps(e)
  \/ \E e \in Queued : f \in queue[e]

\* Who holds a wrapper, by entries instead of their places.
LEMMA KeptForms ==
  ASSUME NEW f, NEW child
  PROVE  Kept(f, child) <=> HeldWithout(f, child) \/ \E e \in Queued : f \in queue[e]
  BY DEF Kept, HeldWithout, Posted, ToSet

\* A token keeps the future it will call back and, if that one combines others, these.
TokensKeep ==
  \A p, x : Token(p, x) =>
    \A child : /\ Kept(x, child)
               /\ kind[x] = "combine" => \A q \in sources[x] : Kept(q, child)

\* An entry that carries a token keeps the future that it calls back.
LEMMA EntryKeeps ==
  ASSUME NEW e, NEW p, NEW x, Carries(e, p, x)
  PROVE  /\ x \in Keeps(e)
         /\ e[1] \in {"attach", "arrive"} => sources[x] \subseteq Keeps(e)
  BY DEF Carries, Keeps

\* Wherever a token is, the place keeps what it calls back.
LEMMA TokensHold == FutureInv => TokensKeep
  <1> SUFFICES ASSUME FutureInv, NEW p, NEW x, Token(p, x), NEW child
               PROVE  /\ Kept(x, child)
                      /\ kind[x] = "combine" => \A q \in sources[x] : Kept(q, child)
    BY DEF TokensKeep
  <1>1. PICK a \in Places : Has(a, p, x)
    BY DEF Token
  <1>2. CASE \E u \in Threads, d \in Nat : a = <<"agenda", u, d>>
    <2>1. PICK u \in Threads, d \in Nat : a = <<"agenda", u, d>>
      BY <1>2
    <2>2. PICK e : e = Nth(agenda[u], d)
      OBVIOUS
    <2>3. d \in 1 .. Len(agenda[u]) /\ Carries(e, p, x)
      BY <1>1, <2>1, <2>2 DEF Has
    <2>4. e \in Posted
      <3>1. agenda[u] \in Seq(Entries)
        BY DEF FutureInv, FutureTypes
      <3>2. Len(agenda[u]) + 1 - d \in DOMAIN agenda[u]
        BY <2>3, <3>1
      <3>3. e \in ToSet(agenda[u])
        BY <2>2, <3>2 DEF Nth, ToSet
      <3> QED
        BY <3>3 DEF Posted
    <2>5. Legal(e)
      BY <2>4 DEF FutureInv, AgendasLegal
    <2>6. kind[x] = "combine" => e[1] \in {"attach", "arrive"}
      BY <2>3, <2>5 DEF Carries, Legal, MayCall, Callables, Continuations
    <2> QED
      BY <2>3, <2>4, <2>6, EntryKeeps DEF Kept
  <1>3. CASE \E g \in Futures, i \in Nat : a = <<"ready", g, i>>
    <2>1. PICK g \in Futures, i \in Nat : a = <<"ready", g, i>>
      BY <1>3
    <2>2. PICK e : e = on_ready[g][i]
      OBVIOUS
    <2>3. i \in DOMAIN on_ready[g] /\ Carries(e, p, x)
      BY <1>1, <2>1, <2>2 DEF Has
    <2>4. e \in ToSet(on_ready[g]) /\ Awaited(g, e)
      BY <2>2, <2>3 DEF ToSet, FutureInv, RegistrationsLegal
    <2>5. Follows(x, g) /\ e = CallbackOf(g, x)
      BY <2>3, <2>4, AwaitedSense DEF FutureInv
    <2>6. kind[x] = "combine" => e[1] \in {"attach", "arrive"}
      BY <2>5 DEF CallbackOf
    <2>7. g \in Created
      <3>1. <<>> \in Seq(Entries) /\ ToSet(<<>>) = {}
        BY DEF ToSet
      <3> QED
        BY <2>4, <3>1 DEF FutureInv, Lineage
    <2> QED
      BY <2>3, <2>4, <2>6, <2>7, EntryKeeps DEF Kept
  <1>4. CASE \E e \in Queued : a = <<"queue", e>>
    <2>1. PICK e \in Queued : x \in queue[e]
      BY <1>1, <1>4 DEF Has
    <2>2. kind[x] # "combine"
      BY <2>1 DEF FutureInv, QueuesLegal
    <2> QED
      BY <2>1, <2>2 DEF Kept
  <1> QED
    BY <1>1, <1>2, <1>3, <1>4, PlaceForms

\* And after a step.
LEMMA TokensHoldNext == FutureInv' => TokensKeep'
  BY TokensHold, PTL

\* What completes a pending future keeps it, and a combined future keeps what it has still to
\* hear of.
CompletersKeep ==
  \A x \in Created : ~Ready(x) => \A child :
    /\ kind[x] \in Callables /\ x \notin dropped => Kept(x, child)
    /\ kind[x] = "combine" => Kept(x, child)

\* A combined future keeps the sources that are pending, since their callbacks keep its state.
CombinedKeep ==
  \A r \in Created : kind[r] = "combine" =>
    \A q \in sources[r] : ~Ready(q) => \A child : Kept(q, child)

\* Both follow from the invariants above, without a step to look at.
LEMMA CompletersHold == FutureInv /\ CompletionInv => CompletersKeep /\ CombinedKeep
  <1> SUFFICES ASSUME FutureInv, CompletionInv PROVE CompletersKeep /\ CombinedKeep
    OBVIOUS
  <1>0. TokensKeep
    BY TokensHold
  <1>1. ASSUME NEW x, Completes(x), NEW child PROVE Kept(x, child)
    <2>1. PICK e \in Posted : e[1] \in {"body", "return"} /\ e[2] = x
      BY <1>1 DEF Completes
    <2>2. x \in Keeps(e)
      BY <2>1 DEF Keeps
    <2> QED
      BY <2>1, <2>2 DEF Kept
  <1>2. ASSUME NEW x \in Created, ~Ready(x), kind[x] = "combine", NEW child PROVE Kept(x, child)
    <2>1. Tallied(x)
      BY <1>2 DEF CompletionInv, Tallies
    <2>2. Completes(x) \/ \E p : Token(p, x)
      BY <1>2, <2>1 DEF Tallied, Pending
    <2> QED
      BY <1>0, <1>1, <2>2 DEF TokensKeep
  <1>3. ASSUME NEW x \in Created, ~Ready(x), kind[x] \in Callables, x \notin dropped, NEW child
        PROVE  Kept(x, child)
    <2>1. Token(Origin(x), x) \/ Completes(x)
      BY <1>3 DEF CompletionInv, WillComplete
    <2> QED
      BY <1>0, <1>1, <2>1 DEF TokensKeep
  <1>4. ASSUME NEW r \in Created, kind[r] = "combine", NEW q \in sources[r], ~Ready(q), NEW child
        PROVE  Kept(q, child)
    <2>1. Tallied(r)
      BY <1>4 DEF CompletionInv, Tallies
    <2>2. q \in Pending(r)
      BY <1>4, <2>1 DEF Tallied
    <2>3. Token(q, r)
      BY <2>2 DEF Pending
    <2> QED
      BY <1>0, <1>4, <2>3 DEF TokensKeep
  <1> QED
    BY <1>2, <1>3, <1>4 DEF CompletersKeep, CombinedKeep

\* And after a step.
LEMMA CompletersHoldNext == FutureInv' /\ CompletionInv' => CompletersKeep' /\ CombinedKeep'
  BY CompletersHold, PTL

\* What a step leaves held: all but what its head alone keeps and what a continuation that gets
\* its result lets go.
LEMMA KeptAfter ==
  ASSUME FutureInv, NEW t \in Threads, agenda[t] # <<>>,
         NEW entries \in Seq(Entries), Proceed(t, entries),
         UNCHANGED <<created, kind, sources, handles>>,
         \A e \in Queued : queue[e] \subseteq queue'[e],
         NEW p, NEW child, Kept(p, child),
         \A c \in Created \ {child} :
           kind[c] \in Continuations /\ p \in sources[c] /\ Ready(c)' => Ready(c),
         \A g \in Created : ToSet(on_ready[g]) \subseteq ToSet(on_ready'[g]) \cup ToSet(entries),
         p \in Keeps(Head(agenda[t])) => Kept(p, child)'
  PROVE  Kept(p, child)'
  <1>1. Created' = Created /\ \A e : Keeps(e)' = Keeps(e)
    BY DEF Created, Keeps
  <1>2. /\ ToSet(entries) \subseteq Posted'
        /\ Posted \subseteq Posted' \cup {Head(agenda[t])}
    BY PostedAfter DEF FutureInv
  <1>3. CASE p \in handles
    BY <1>3 DEF Kept
  <1>4. CASE \E c \in Created \ {child} : kind[c] \in Continuations /\ ~Ready(c) /\ p \in sources[c]
    BY <1>1, <1>4 DEF Kept
  <1>5. CASE \E g \in Created : \E e \in ToSet(on_ready[g]) : p \in Keeps(e)
    <2>1. PICK g \in Created : \E e \in ToSet(on_ready[g]) : p \in Keeps(e)
      BY <1>5
    <2>2. PICK e \in ToSet(on_ready[g]) : p \in Keeps(e)
      BY <2>1
    <2>3. e \in ToSet(on_ready'[g]) \/ e \in Posted'
      BY <1>2, <2>2
    <2> QED
      BY <1>1, <2>2, <2>3 DEF Kept
  <1>6. CASE \E e \in Posted : p \in Keeps(e)
    BY <1>1, <1>2, <1>6 DEF Kept
  <1>7. CASE \E e \in Queued : p \in queue[e]
    BY <1>7 DEF Kept
  <1> QED
    BY <1>3, <1>4, <1>5, <1>6, <1>7 DEF Kept

\* A continuation that its parent has not called back.
ParentReady(f) == kind[f] \in Continuations => Ready(ParentOf(f))

\* What Return posts, and what it keeps.
LEMMA ReturnPosts ==
  ASSUME FutureInv, NEW t \in Threads, Return(t), NEW f, f = Subject(t)
  PROVE  /\ f \in Created /\ f \in Futures /\ agenda[t] # <<>> /\ Head(agenda[t])[1] = "return"
         /\ ~Ready(f) /\ Ready(f)' /\ \A g \in Futures \ {f} : result'[g] = result[g]
         /\ on_ready'[f] = <<>> /\ \A g \in Futures \ {f} : on_ready'[g] = on_ready[g]
         /\ on_ready[f] \in Seq(Entries) /\ \A e \in ToSet(on_ready[f]) : Awaited(f, e)
         /\ UNCHANGED Bystanders /\ UNCHANGED <<queue, started, shared>>
         /\ ParentReady(f) => Proceed(t, on_ready[f]) /\ held' = [held EXCEPT ![t] = @]
         /\ ~ParentReady(f) =>
              /\ Proceed(t, << <<"release", ParentOf(f)>>, <<"unlock", f>> >> \o on_ready[f])
              /\ held' = [held EXCEPT ![t] = @ \cup {f}]
  <1> DEFINE locks == kind[f] \in Continuations /\ ~Ready(ParentOf(f))
             letting_go == << <<"release", ParentOf(f)>>, <<"unlock", f>> >>
  <1>1. /\ agenda[t] # <<>> /\ Head(agenda[t])[1] = "return" /\ ~Ready(f)
        /\ Proceed(t, (IF locks THEN letting_go ELSE <<>>) \o on_ready[f])
        /\ held' = [held EXCEPT ![t] = IF locks THEN @ \cup {f} ELSE @]
        /\ result' = [result EXCEPT ![f] = Argument(t)]
        /\ on_ready' = [on_ready EXCEPT ![f] = <<>>]
        /\ UNCHANGED Bystanders /\ UNCHANGED <<queue, started, shared>>
    BY DEF Return, Doing, executorVars, Bystanders
  <1>2. f \in Created /\ f \in Futures /\ Argument(t) \in Results
    BY <1>1, HeadLegal, EntryForms DEF Subject, Argument
  <1>3. Ready(f)' /\ \A g \in Futures \ {f} : result'[g] = result[g]
    BY <1>1, <1>2 DEF Ready, Results, FutureInv, FutureTypes
  <1>4. on_ready'[f] = <<>> /\ \A g \in Futures \ {f} : on_ready'[g] = on_ready[g]
    BY <1>1, <1>2 DEF FutureInv, FutureTypes
  <1>5. on_ready[f] \in Seq(Entries) /\ \A e \in ToSet(on_ready[f]) : Awaited(f, e)
    BY <1>2 DEF FutureInv, FutureTypes, RegistrationsLegal
  <1>6. locks <=> ~ParentReady(f)
    BY DEF ParentReady
  <1>7. <<>> \o on_ready[f] = on_ready[f]
    BY <1>5
  <1> HIDE DEF locks, letting_go
  <1>8. /\ ParentReady(f) => Proceed(t, on_ready[f]) /\ held' = [held EXCEPT ![t] = @]
        /\ ~ParentReady(f) =>
              /\ Proceed(t, letting_go \o on_ready[f])
              /\ held' = [held EXCEPT ![t] = @ \cup {f}]
    BY <1>1, <1>6, <1>7
  <1> QED
    BY <1>1, <1>2, <1>3, <1>4, <1>5, <1>8 DEF letting_go

\* The steps of a call that attaches nothing and holds no priority call, and returns no
\* continuation of a pending parent: what was held and is pending stays held.
LEMMA StepsKeep ==
  ASSUME FutureInv, CompletionInv, FutureInv', CompletionInv', NEW t \in Threads,
         Moves(t) \/ Spends(t),
         Head(agenda[t])[1] \notin {"attach", "priority", "reprioritise"},
         Return(t) => ParentReady(Subject(t)),
         NEW p \in Created, NEW child, Kept(p, child), ~Ready(p)'
  PROVE  Kept(p, child)'
  <1>0. PICK f, op : f = Subject(t) /\ op = Head(agenda[t])[1]
    OBVIOUS
  <1>1. /\ agenda[t] # <<>> /\ op \notin {"attach", "priority", "reprioritise"}
        /\ UNCHANGED Bystanders /\ UNCHANGED <<created, kind, sources, handles>>
        /\ \A e \in Queued : queue[e] \subseteq queue'[e]
    <2>1. CASE Spends(t)
      BY <1>0, <2>1, SpendsForm DEF Bystanders
    <2>2. CASE Moves(t)
      <3>1. agenda[t] # <<>> /\ UNCHANGED Bystanders
        BY <2>2, MovesForm
      <3>2. \A e \in Queued : queue[e] \subseteq queue'[e]
        BY <2>2 DEF Moves, AttachReady, AttachPending, Submit, PushTask, RunCalls, Return, Push,
                    executorVars, FutureInv, FutureTypes
      <3> QED
        BY <1>0, <3>1, <3>2 DEF Bystanders
    <2> QED
      BY <2>1, <2>2
  <1>2. /\ Legal(Head(agenda[t])) /\ Head(agenda[t]) \in Entries
        /\ op # "unlock" => f \in Created /\ f \in Futures
    BY <1>0, <1>1, HeadLegal
  <1>3. p \in Futures /\ ~Ready(p)
    <2>1. p \in Futures
      BY FutureAssumption DEF Created, Futures, FutureInv, FutureTypes
    <2>2. Steady
      BY MovesForm, WillCompleteSpent
    <2> QED
      BY <2>1, <2>2 DEF Steady, Ready
  <1>4. CASE Return(t)
    <2>1. /\ ParentReady(f) /\ f \in Futures /\ Ready(f)'
          /\ \A g \in Futures \ {f} : result'[g] = result[g]
          /\ on_ready'[f] = <<>> /\ \A g \in Futures \ {f} : on_ready'[g] = on_ready[g]
          /\ on_ready[f] \in Seq(Entries) /\ Proceed(t, on_ready[f])
          /\ Head(agenda[t])[1] = "return"
      BY <1>0, <1>4, ReturnPosts
    <2>2. ASSUME NEW c \in Created, kind[c] \in Continuations, p \in sources[c], Ready(c)'
          PROVE  Ready(c)
      <3>0. c \in Futures
        BY FutureAssumption DEF Created, Futures, FutureInv, FutureTypes
      <3>1. c \in Futures /\ sources[c] = {ParentOf(c)}
        BY <2>2, <3>0, ParentFacts DEF FutureInv
      <3>2. c # f
        BY <1>3, <2>1, <2>2, <3>1 DEF ParentReady
      <3> QED
        BY <2>1, <2>2, <3>1, <3>2 DEF Ready
    <2>3. \A g \in Created : ToSet(on_ready[g]) \subseteq ToSet(on_ready'[g]) \cup ToSet(on_ready[f])
      <3>1. Created \subseteq Futures
        BY FutureAssumption DEF Created, Futures, FutureInv, FutureTypes
      <3> QED
        BY <2>1, <3>1
    <2>4. p \notin Keeps(Head(agenda[t]))
      BY <1>0, <2>1 DEF Keeps, Subject
    <2> QED
      BY <1>1, <2>1, <2>2, <2>3, <2>4, KeptAfter
  <1>5. CASE ~Return(t)
    <2>1. UNCHANGED <<result, on_ready>> /\ \E entries \in Seq(Entries) : Proceed(t, entries)
      <3>1. CASE Spends(t)
        BY <3>1, SpendsForm
      <3>2. CASE Moves(t)
        <4>1. \E entries \in Seq(Entries) : Proceed(t, entries)
          BY <3>2, MovesForm
        <4>2. UNCHANGED <<result, on_ready>>
          BY <1>0, <1>1, <1>5, <3>2
             DEF Moves, AttachReady, AttachPending, Submit, PushTask, RunCalls, Continue, Doing
        <4> QED
          BY <4>1, <4>2
      <3> QED
        BY <3>1, <3>2
    <2>2. PICK entries \in Seq(Entries) : Proceed(t, entries)
      BY <2>1
    <2>3. CASE p \notin Keeps(Head(agenda[t]))
      BY <1>1, <2>1, <2>2, <2>3, KeptAfter DEF Ready
    <2>4. CASE p \in Keeps(Head(agenda[t]))
      <3>0. TokensKeep' /\ CompletersKeep' /\ CombinedKeep' /\ Created' = Created
        BY <1>1, TokensHoldNext, CompletersHoldNext DEF Created
      <3>1. op \in {"submit", "push", "run", "body", "return", "arrive"}
        BY <1>0, <1>1, <1>2, <2>4 DEF Keeps, Entries
      <3>2. op # "arrive" => p = f
        BY <1>0, <2>4, <3>1 DEF Keeps, Subject
      <3>3. ASSUME Completes(p)' PROVE Kept(p, child)'
        <4>1. PICK e \in Posted' : e[1] \in {"body", "return"} /\ e[2] = p
          BY <3>3 DEF Completes
        <4>2. p \in Keeps(e)'
          BY <4>1 DEF Keeps
        <4> QED
          BY <4>1, <4>2 DEF Kept
      <3>4. CASE Spends(t) /\ op # "arrive"
        <4>1. op # "return" => Completes(f)'
          BY <1>0, <1>3, <3>1, <3>2, <3>4, SpendsHead
        <4>2. op # "return"
          BY <1>0, <1>3, <3>2, <3>4, SpendsHead
        <4> QED
          BY <3>2, <3>3, <3>4, <4>1, <4>2
      <3>5. CASE op = "arrive"
        <4>1. PICK r : r = Argument(t)
          OBVIOUS
        <4>2. Follows(r, f) /\ kind[r] = "combine" /\ Ready(f) /\ r \in Created
          BY <1>0, <1>2, <3>5, <4>1 DEF Legal, Follows, Subject, Argument
        <4>3. p \in {f, r} \cup sources[r]
          BY <1>0, <2>4, <3>5, <4>1 DEF Keeps, Subject, Argument
        <4>4. p = r \/ p \in sources[r]
          BY <1>3, <4>2, <4>3
        <4>5. kind'[r] = "combine" /\ sources'[r] = sources[r] /\ r \in Created'
          BY <1>1, <3>0, <4>2
        <4>6. CASE p = r
          BY <3>0, <4>5, <4>6 DEF CompletersKeep
        <4>7. CASE p \in sources[r]
          BY <3>0, <4>5, <4>7 DEF CombinedKeep
        <4> QED
          BY <4>4, <4>6, <4>7
      <3>6. CASE RunCalls(t)
        <4>1. \E e \in Posted' : e[1] \in {"body", "return"} /\ e[2] = f
          <5>1. PICK z \in Seq(Entries) : Proceed(t, z) /\ <<"body", f>> \in ToSet(z)
            BY <1>0, <3>6, MovesForm DEF Moves
          <5>2. <<"body", f>> \in Posted'
            BY <1>1, <5>1, PostedAfter DEF FutureInv
          <5> QED
            BY <5>2
        <4>2. p = f
          BY <1>0, <3>2, <3>6 DEF RunCalls, Doing
        <4> QED
          BY <3>3, <4>1, <4>2 DEF Completes
      <3>7. CASE Submit(t) \/ PushTask(t)
        <4>1. op \in {"submit", "push"}
          BY <1>0, <3>7 DEF Submit, PushTask, Doing
        <4>2. PICK q : q = Origin(f)
          OBVIOUS
        <4>3. Token(q, f)
          <5>1. Carries(Head(agenda[t]), q, f)
            BY <1>0, <4>1, <4>2 DEF Carries, Subject
          <5>2. <<"agenda", t, Len(agenda[t])>> \in Places
                /\ Has(<<"agenda", t, Len(agenda[t])>>, q, f)
            BY <1>1, <2>2, <5>1, AgendaPlaces DEF FutureInv
          <5> QED
            BY <5>2 DEF Token
        <4>4. Token(q, f)'
          BY <3>7, <4>3, SubmitKeeps, PushTaskKeeps
        <4> QED
          BY <3>0, <3>2, <4>1, <4>4 DEF TokensKeep
      <3>8. CASE AttachReady(t) \/ AttachPending(t)
        BY <1>0, <1>1, <3>8 DEF AttachReady, AttachPending, Doing
      <3> QED
        BY <1>5, <3>4, <3>5, <3>6, <3>7, <3>8 DEF Moves
    <2> QED
      BY <2>3, <2>4
  <1> QED
    BY <1>4, <1>5

\* Nobody waits for f, nor f for a parent: its return calls nobody and lets nobody go.
Childless(f) == on_ready[f] = <<>> /\ ParentReady(f)

\* Entry e locks no mutex m of the thread that holds it, and lets nothing go that would.
Harmless(m, e) ==
  \/ /\ e[1] = "release" /\ e[2] # m
     /\ \/ Ready(e[2]) \/ Kept(e[2], 0)
        \/ m = ForegroundMutex /\ Childless(e[2])
  \/ /\ e[1] = "return" /\ m = ForegroundMutex
     /\ Ready(e[2]) \/ Childless(e[2])
  \/ e[1] = "reprioritise" /\ e[2] = m /\ m # ForegroundMutex

\* The section that ends with the entry at depth k, which unlocks m.
Section(u, m, k) ==
  /\ held[u] = {m} /\ k \in 1 .. Len(agenda[u]) /\ Nth(agenda[u], k) = <<"unlock", m>>
  /\ m # ForegroundMutex => Len(agenda[u]) <= k + 1
  /\ \A d \in k + 1 .. Len(agenda[u]) : Harmless(m, Nth(agenda[u], d))

\* A thread holds one mutex, and what it does before it unlocks that one needs no other.
InSection(u) == \E m \in Mutexes, k \in Nat : Section(u, m, k)

\* A continuation is not cancelled while it holds the last reference to its pending parent.
Considerate(u) ==
  \A f : agenda[u] # <<>> /\ Head(agenda[u])[1] = "return" /\ f = Subject(u) =>
    ParentReady(f) \/ Kept(ParentOf(f), f)

\* What is asked of a user.
Careful(u) == (held[u] = {} \/ InSection(u)) /\ Considerate(u)

\* What a thread does that is no user: no call of it holds a mutex.
Plain(e) ==
  /\ e[1] \in {"arrive", "submit", "push", "run", "body", "return"}
  /\ e[1] = "return" => ParentReady(e[2])

\* What is asked of the other threads.
Unburdened(t) == held[t] = {} /\ \A e \in ToSet(agenda[t]) : Plain(e)

\* A result waits for its mutex only as the next entry of an agenda.
ReturnsFirst(t) == \A d \in 1 .. Len(agenda[t]) - 1 : Nth(agenda[t], d)[1] # "return"

\* The inductive invariant: who holds a mutex needs no other before it has unlocked that one,
\* so whoever is waited for goes on.
LocksInv ==
  /\ \A f \in dropped : ParentReady(f)
  /\ \A t \in Threads : ReturnsFirst(t)
  /\ \A t \in Threads \ Users : Unburdened(t)
  /\ \A u \in Users : Careful(u)

\* One user, who lets go of no last reference to a pending future inside a call that holds a
\* mutex.  With a second user this is not for one call to see to: the second may drop the handle
\* of a parent after the first has begun to cancel the child.
LoneUser == ~LastReference /\ \A t, u \in Users : t = u

\* The pending keep their holders, and who has no callbacks gets none.
HoldersStay ==
  /\ \A p \in Created : ~Ready(p)' => \A child : Kept(p, child) => Kept(p, child)'
  /\ \A f \in Created : on_ready[f] = <<>> => on_ready'[f] = <<>>

\* A parent that is ready stays so.
LEMMA ParentReadyKept ==
  ASSUME FutureInv, Steady, NEW f \in Created
  PROVE  /\ ParentReady(f) => ParentReady(f)'
         /\ ParentOf(f)' = ParentOf(f)
         /\ kind[f] \in Continuations => ParentOf(f) \in Created
  <1>1. ParentOf(f)' = ParentOf(f) /\ kind'[f] = kind[f]
    BY LegalKept DEF FutureInv, Steady
  <1>2. f \in Futures
    BY FutureAssumption DEF Created, Futures, FutureInv, FutureTypes
  <1>3. kind[f] \in Continuations => ParentOf(f) \in Created
    BY <1>2, ParentFacts DEF FutureInv
  <1>4. \A p \in Created : Ready(p) => Ready(p)'
    BY LegalKept DEF FutureInv
  <1> QED
    BY <1>1, <1>3, <1>4 DEF ParentReady

\* What is harmless stays harmless while others act.
LEMMA HarmlessKept ==
  ASSUME FutureInv, Steady, HoldersStay, NEW m, NEW e \in Posted, Harmless(m, e)
  PROVE  Harmless(m, e)'
  <1>1. e[1] # "unlock" => e[2] \in Created
    BY DEF FutureInv, AgendasLegal, Legal
  <1>2. e[2] \in Created
    BY <1>1 DEF Harmless
  <1>3. Childless(e[2]) => Childless(e[2])'
    BY <1>2, ParentReadyKept DEF Childless, HoldersStay
  <1>4. Ready(e[2]) => Ready(e[2])'
    BY <1>2, LegalKept DEF FutureInv
  <1>5. Kept(e[2], 0) => Ready(e[2])' \/ Kept(e[2], 0)'
    BY <1>2 DEF HoldersStay
  <1>6. CASE e[1] = "release"
    BY <1>3, <1>4, <1>5, <1>6 DEF Harmless
  <1>7. CASE e[1] = "return"
    BY <1>3, <1>4, <1>7 DEF Harmless
  <1>8. CASE e[1] = "reprioritise"
    BY <1>8 DEF Harmless
  <1> QED
    BY <1>6, <1>7, <1>8 DEF Harmless

\* An entry at a depth is posted.
LEMMA NthPosted ==
  ASSUME FutureInv, NEW u \in Threads, NEW d \in 1 .. Len(agenda[u])
  PROVE  Nth(agenda[u], d) \in ToSet(agenda[u]) /\ Nth(agenda[u], d) \in Posted
  <1>1. agenda[u] \in Seq(Entries)
    BY DEF FutureInv, FutureTypes
  <1>2. Len(agenda[u]) + 1 - d \in DOMAIN agenda[u]
    BY <1>1
  <1> QED
    BY <1>2 DEF Nth, ToSet, Posted

\* A thread that the step is not about.
LEMMA UnburdenedStays ==
  ASSUME FutureInv, Steady, NEW u \in Threads, agenda'[u] = agenda[u], held'[u] = held[u],
         Unburdened(u)
  PROVE  Unburdened(u)'
  <1>1. ASSUME NEW e \in ToSet(agenda[u]) PROVE Plain(e)'
    <2>1. e \in Posted /\ Plain(e)
      BY <1>1 DEF Posted, Unburdened
    <2>2. e[2] \in Created
      BY <2>1 DEF FutureInv, AgendasLegal, Legal, Plain
    <2> QED
      BY <2>1, <2>2, ParentReadyKept DEF Plain
  <1> QED
    BY <1>1 DEF Unburdened

\* Steps of others disturb no user.
LEMMA CarefulStays ==
  ASSUME FutureInv, Steady, HoldersStay, NEW u \in Threads, agenda'[u] = agenda[u],
         held'[u] = held[u], Careful(u)
  PROVE  Careful(u)'
  <1>1. ASSUME NEW m \in Mutexes, NEW k \in Nat, Section(u, m, k) PROVE Section(u, m, k)'
    <2>1. ASSUME NEW d \in k + 1 .. Len(agenda[u]) PROVE Harmless(m, Nth(agenda[u], d))'
      <3>1. PICK e : e = Nth(agenda[u], d)
        OBVIOUS
      <3>2. agenda[u] \in Seq(Entries)
        BY DEF FutureInv, FutureTypes
      <3>3. d \in 1 .. Len(agenda[u])
        BY <1>1, <3>2 DEF Section
      <3>4. e \in Posted
        BY <3>1, <3>3, NthPosted
      <3>5. Harmless(m, e)
        BY <1>1, <2>1, <3>1 DEF Section
      <3>6. Harmless(m, e)'
        BY <3>4, <3>5, HarmlessKept
      <3>7. Nth(agenda[u], d)' = e
        BY <3>1 DEF Nth
      <3> QED
        BY <3>6, <3>7
    <2>2. \A d : Nth(agenda[u], d)' = Nth(agenda[u], d)
      BY DEF Nth
    <2> QED
      BY <1>1, <2>1, <2>2 DEF Section
  <1>2. Considerate(u)'
    <2> SUFFICES ASSUME agenda[u] # <<>>, Head(agenda[u])[1] = "return", NEW f, f = Subject(u)
                 PROVE  ParentReady(f)' \/ Kept(ParentOf(f), f)'
      BY DEF Considerate, Subject
    <2>1. f \in Created
      BY HeadLegal
    <2>2. CASE ParentReady(f)
      BY <2>1, <2>2, ParentReadyKept
    <2>3. CASE ~ParentReady(f)
      <3>1. PICK p : p = ParentOf(f)
        OBVIOUS
      <3>2. Kept(p, f)
        BY <2>3, <3>1 DEF Careful, Considerate
      <3>3. p \in Created /\ ParentOf(f)' = p /\ kind'[f] = kind[f]
        BY <2>1, <2>3, <3>1, ParentReadyKept DEF ParentReady, Steady
      <3>4. Ready(p)' \/ Kept(p, f)'
        BY <3>2, <3>3 DEF HoldersStay
      <3> QED
        BY <3>3, <3>4 DEF ParentReady
    <2> QED
      BY <2>2, <2>3
  <1> QED
    BY <1>1, <1>2 DEF Careful, InSection

\* What a step of a thread leaves of the depths of its agenda.
LEMMA ReturnsFirstAfter ==
  ASSUME FutureInv, NEW t \in Threads, agenda[t] # <<>>, ReturnsFirst(t),
         NEW entries \in Seq(Entries), Proceed(t, entries),
         \A e \in ToSet(entries) : e[1] # "return"
  PROVE  ReturnsFirst(t)' /\ (agenda'[t] # <<>> => Head(agenda'[t])[1] # "return")
  <1> DEFINE n == Len(agenda[t])
  <1>1. /\ agenda'[t] \in Seq(Entries) /\ n \in Nat \ {0} /\ Len(entries) \in Nat
        /\ Len(agenda'[t]) = n - 1 + Len(entries)
        /\ \A d \in 1 .. n - 1 : Nth(agenda'[t], d) = Nth(agenda[t], d)
        /\ \A d \in n .. Len(agenda'[t]) : Nth(agenda'[t], d) = Nth(entries, d - n + 1)
    BY ProceedFacts DEF FutureInv
  <1> HIDE DEF n
  <1>2. ASSUME NEW d \in 1 .. Len(agenda'[t]) PROVE Nth(agenda'[t], d)[1] # "return"
    <2>1. CASE d < n
      <3>1. d \in 1 .. n - 1 /\ d \in 1 .. Len(agenda[t]) - 1
        BY <1>1, <2>1 DEF n
      <3> QED
        BY <1>1, <3>1 DEF ReturnsFirst
    <2>2. CASE d >= n
      <3>1. Nth(agenda'[t], d) = Nth(entries, d - n + 1) /\ d - n + 1 \in 1 .. Len(entries)
        BY <1>1, <2>2
      <3>2. Nth(entries, d - n + 1) \in ToSet(entries)
        BY <1>1, <3>1 DEF Nth, ToSet
      <3> QED
        BY <3>1, <3>2
    <2> QED
      BY <1>1, <2>1, <2>2
  <1>3. ReturnsFirst(t)'
    <2> SUFFICES ASSUME NEW d \in 1 .. Len(agenda'[t]) - 1
                 PROVE  Nth(agenda'[t], d)[1] # "return"
      BY DEF ReturnsFirst, Nth
    <2>1. d \in 1 .. Len(agenda'[t])
      BY <1>1
    <2> QED
      BY <1>2, <2>1
  <1>4. ASSUME agenda'[t] # <<>> PROVE Head(agenda'[t])[1] # "return"
    <2>1. Len(agenda'[t]) \in 1 .. Len(agenda'[t])
      BY <1>1, <1>4
    <2>2. Head(agenda'[t]) = Nth(agenda'[t], Len(agenda'[t]))
      BY <1>1, <1>4, <2>1 DEF Nth
    <2> QED
      BY <1>2, <2>1, <2>2
  <1> QED
    BY <1>3, <1>4

\* A result that takes the place of the head.
LEMMA ReturnPosted ==
  ASSUME FutureInv, NEW t \in Threads, agenda[t] # <<>>, ReturnsFirst(t),
         NEW e \in Entries, Proceed(t, <<e>>)
  PROVE  /\ ReturnsFirst(t)' /\ Head(agenda'[t]) = e
         /\ Len(agenda'[t]) = Len(agenda[t]) /\ Nth(agenda'[t], Len(agenda[t])) = e
         /\ \A d \in 1 .. Len(agenda[t]) - 1 : Nth(agenda'[t], d) = Nth(agenda[t], d)
  <1> DEFINE n == Len(agenda[t])
  <1>0. <<e>> \in Seq(Entries) /\ Len(<<e>>) = 1 /\ Nth(<<e>>, 1) = e
    BY DEF Nth
  <1>1. /\ agenda'[t] \in Seq(Entries) /\ n \in Nat \ {0}
        /\ Len(agenda'[t]) = n - 1 + Len(<<e>>)
        /\ \A d \in 1 .. n - 1 : Nth(agenda'[t], d) = Nth(agenda[t], d)
        /\ \A d \in n .. Len(agenda'[t]) : Nth(agenda'[t], d) = Nth(<<e>>, d - n + 1)
    BY <1>0, ProceedFacts DEF FutureInv
  <1>2. Len(agenda'[t]) = n
    BY <1>0, <1>1
  <1> HIDE DEF n
  <1>3. Nth(agenda'[t], n) = e
    <2>1. n \in n .. Len(agenda'[t]) /\ n - n + 1 = 1
      BY <1>1, <1>2
    <2> QED
      BY <1>0, <1>1, <2>1
  <1>4. Head(agenda'[t]) = Nth(agenda'[t], Len(agenda'[t]))
    BY <1>1, <1>2 DEF Nth
  <1>5. ReturnsFirst(t)'
    <2> SUFFICES ASSUME NEW d \in 1 .. Len(agenda'[t]) - 1
                 PROVE  Nth(agenda'[t], d)[1] # "return"
      BY DEF ReturnsFirst, Nth
    <2>1. d \in 1 .. n - 1
      BY <1>2
    <2> QED
      BY <1>1, <2>1 DEF ReturnsFirst, n
  <1> QED
    BY <1>1, <1>2, <1>3, <1>4, <1>5 DEF n

\* The operation of a head tells the step.
LEMMA HeadActs ==
  ASSUME NEW t \in Threads, Moves(t) \/ Spends(t)
  PROVE  /\ Head(agenda[t])[1] = "unlock" => Unlock(t)
         /\ Head(agenda[t])[1] = "release" => Release(t)
         /\ Head(agenda[t])[1] = "reprioritise" => RescheduleTask(t)
         /\ Head(agenda[t])[1] = "return" => Return(t) \/ ReturnIgnored(t)
         /\ Return(t) => Head(agenda[t])[1] = "return"
         /\ Unlock(t) => Head(agenda[t])[1] = "unlock"
         /\ Release(t) => Head(agenda[t])[1] = "release"
         /\ Reprioritise(t) => Head(agenda[t])[1] = "priority"
         /\ AttachReady(t) \/ AttachPending(t) => Head(agenda[t])[1] = "attach"
  BY DEF Moves, Spends, AttachReady, AttachPending, Submit, PushTask, RunCalls, Return, PushFails,
         RunSkipped, RunPropagates, BodyReturns, ReturnIgnored, Release, Unlock, Reprioritise,
         RescheduleTask, Arrive, ArriveLate, Doing

\* Nothing is posted, or a return that lets no pending parent go, or what Reprioritise posts.
SpentOn(t) ==
  \/ Proceed(t, <<>>) /\ (held' = held \/ Unlock(t))
  \/ \E f \in Created, v \in Results :
       /\ Proceed(t, << <<"return", f, v>> >>) /\ held' = held
       /\ ParentReady(f) \/ (Release(t) /\ f = Subject(t) /\ ~Ready(f) /\ ~Held(f))
  \/ \E f \in Created, e \in Queued :
       /\ Reprioritise(t) /\ f = Subject(t)
       /\ Proceed(t, << <<"reprioritise", f, e>>, <<"unlock", f>> >>)
       /\ held' = [held EXCEPT ![t] = @ \cup {f}]

\* What a step that spends a token leaves on its agenda.
LEMMA SpendsPosts ==
  ASSUME FutureInv, MutexesUnlocked, NEW t \in Threads, Spends(t)
  PROVE  SpentOn(t)
  <1>0. PICK f : f = Subject(t)
    OBVIOUS
  <1>1. \A x : MayCall(x) => ParentReady(x)
    BY DEF MayCall, ParentReady
  <1>2. CASE PushFails(t)
    <2>1. /\ agenda[t] # <<>> /\ Head(agenda[t])[1] = "push"
          /\ Proceed(t, << <<"return", f, "unavailable">> >>) /\ held' = held
      BY <1>0, <1>2 DEF PushFails, Doing, Continue
    <2>2. f \in Created /\ MayCall(f) /\ "unavailable" \in Results
      BY <1>0, <2>1, HeadLegal DEF Results, Legal, Subject
    <2> QED
      BY <1>1, <2>1, <2>2 DEF SpentOn
  <1>3. CASE RunSkipped(t) \/ ReturnIgnored(t) \/ RescheduleTask(t) \/ ArriveLate(t)
    BY <1>3 DEF RunSkipped, ReturnIgnored, RescheduleTask, ArriveLate, Continue, SpentOn
  <1>4. CASE RunPropagates(t)
    <2>1. /\ agenda[t] # <<>> /\ Head(agenda[t])[1] = "run" /\ Propagates(f)
          /\ Proceed(t, << <<"return", f, result[ParentOf(f)]>> >>) /\ held' = held
      BY <1>0, <1>4 DEF RunPropagates, Doing, Continue
    <2>2. f \in Created /\ f \in Futures /\ MayCall(f) /\ kind[f] \in Continuations
      BY <1>0, <2>1, HeadLegal DEF Legal, Subject, Propagates
    <2>3. result[ParentOf(f)] \in Results
      <3>1. ParentOf(f) \in Futures
        BY <2>2, ParentFacts DEF FutureInv
      <3> QED
        BY <2>2, <3>1 DEF MayCall, Ready, FutureInv, FutureTypes
    <2> QED
      BY <1>1, <2>1, <2>2, <2>3 DEF SpentOn
  <1>5. CASE BodyReturns(t)
    <2>1. /\ agenda[t] # <<>> /\ Head(agenda[t])[1] = "body" /\ held' = held
          /\ \E v \in Produces(f) : Proceed(t, << <<"return", f, v>> >>)
      BY <1>0, <1>5 DEF BodyReturns, Doing, Continue
    <2>2. f \in Created /\ f \in Futures /\ MayCall(f)
      BY <1>0, <2>1, HeadLegal DEF Legal, Subject
    <2>3. Produces(f) \subseteq Results
      <3>1. CASE kind[f] \in {"status", "merge"}
        <4>1. kind[f] \in Continuations
          BY <3>1 DEF Continuations
        <4>2. ParentOf(f) \in Futures /\ Ready(ParentOf(f))
          BY <2>2, <4>1, ParentFacts DEF FutureInv, MayCall
        <4> QED
          BY <3>1, <4>2 DEF Produces, Ready, FutureInv, FutureTypes
      <3>2. CASE kind[f] \notin {"status", "merge"}
        BY <3>2 DEF Produces, Results
      <3> QED
        BY <3>1, <3>2
    <2>4. PICK v \in Results : Proceed(t, << <<"return", f, v>> >>)
      BY <2>1, <2>3
    <2> QED
      BY <1>1, <2>1, <2>2, <2>4 DEF SpentOn
  <1>6. CASE Release(t)
    <2>1. /\ agenda[t] # <<>> /\ Head(agenda[t])[1] = "release" /\ held' = held
          /\ \/ Proceed(t, <<>>)
             \/ ~Ready(f) /\ ~Held(f) /\ Proceed(t, << <<"return", f, "cancelled">> >>)
      BY <1>0, <1>6 DEF Release, Doing, Continue
    <2>2. f \in Created /\ "cancelled" \in Results
      BY <1>0, <2>1, HeadLegal DEF Results
    <2> QED
      BY <1>0, <1>6, <2>1, <2>2 DEF SpentOn
  <1>7. CASE Unlock(t)
    BY <1>7 DEF Unlock, SpentOn
  <1>8. CASE Reprioritise(t)
    <2>0. PICK e : e = ExecutorOf(t, f)
      OBVIOUS
    <2>1. /\ agenda[t] # <<>> /\ Head(agenda[t])[1] = "priority"
          /\ Proceed(t, IF e = "immediate" THEN <<>>
                        ELSE << <<"reprioritise", f, e>>, <<"unlock", f>> >>)
          /\ held' = [held EXCEPT ![t] = IF e = "immediate" THEN @ ELSE @ \cup {f}]
      BY <1>0, <1>8, <2>0 DEF Reprioritise, Doing
    <2>2. f \in Created /\ f \in Futures
      BY <1>0, <2>1, HeadLegal
    <2>3. e # "immediate" => e \in Queued
      BY <2>0, <2>2 DEF ExecutorOf, Get, FutureInv, FutureTypes, Types
    <2>4. CASE e = "immediate"
      <3>1. Proceed(t, <<>>) /\ held' = held
        BY <2>1, <2>4 DEF MutexesUnlocked
      <3> QED
        BY <3>1 DEF SpentOn
    <2>5. CASE e # "immediate"
      <3>1. /\ Proceed(t, << <<"reprioritise", f, e>>, <<"unlock", f>> >>)
            /\ held' = [held EXCEPT ![t] = @ \cup {f}]
        BY <2>1, <2>5
      <3> QED
        BY <1>0, <1>8, <2>2, <2>3, <2>5, <3>1 DEF SpentOn
    <2> QED
      BY <2>4, <2>5
  <1>9. CASE Arrive(t)
    <2>0. PICK r : r = Argument(t)
      OBVIOUS
    <2> DEFINE after == AfterArrival(shared[r], result[Subject(t)])
    <2>1. /\ agenda[t] # <<>> /\ Doing(t, "arrive") /\ held' = held
          /\ Proceed(t, IF after.done THEN << <<"return", r, after.first_error>> >> ELSE <<>>)
      BY <1>9, <2>0 DEF Arrive, Doing
    <2>2. r \in Created /\ r \in Futures /\ after \in Shares
      BY <2>0, <2>1, ArrivalFacts
    <2> HIDE DEF after
    <2>3. after.first_error \in Results
      BY <2>2 DEF Shares
    <2>4. ParentReady(r)
      <3>1. Legal(Head(agenda[t])) /\ Head(agenda[t])[1] = "arrive"
        BY <2>1, HeadLegal DEF Doing
      <3>2. kind[r] = "combine"
        BY <2>0, <3>1 DEF Legal, Argument
      <3> QED
        BY <3>2 DEF ParentReady, Continuations
    <2> QED
      BY <2>1, <2>2, <2>3, <2>4 DEF SpentOn
  <1> QED
    BY <1>2, <1>3, <1>4, <1>5, <1>6, <1>7, <1>8, <1>9 DEF Spends

\* A step whose head attaches nothing and is about no priority leaves the pending held.
LEMMA HoldersStayAfter ==
  ASSUME FutureInv, CompletionInv, FutureInv', CompletionInv', NEW t \in Threads,
         Moves(t) \/ Spends(t),
         Head(agenda[t])[1] \notin {"attach", "priority", "reprioritise"},
         Return(t) => ParentReady(Subject(t))
  PROVE  HoldersStay
  <1>1. \A p \in Created : ~Ready(p)' => \A child : Kept(p, child) => Kept(p, child)'
    BY StepsKeep
  <1>2. ASSUME NEW g \in Created, on_ready[g] = <<>> PROVE on_ready'[g] = <<>>
    <2>1. CASE Return(t)
      <3>1. PICK f : f = Subject(t)
        OBVIOUS
      <3>2. on_ready'[f] = <<>> /\ \A h \in Futures \ {f} : on_ready'[h] = on_ready[h]
        BY <2>1, <3>1, ReturnPosts
      <3>3. g \in Futures
        BY FutureAssumption DEF Created, Futures, FutureInv, FutureTypes
      <3> QED
        BY <1>2, <3>2, <3>3
    <2>2. CASE ~Return(t)
      <3>1. CASE Spends(t)
        BY <1>2, <3>1, SpendsForm
      <3>2. CASE Moves(t)
        BY <1>2, <2>2, <3>2, HeadActs DEF Moves, Submit, PushTask, RunCalls, Continue
      <3> QED
        BY <3>1, <3>2
    <2> QED
      BY <2>1, <2>2
  <1> QED
    BY <1>1, <1>2 DEF HoldersStay

\* A step of a thread that is no user.
LEMMA PlainAfter ==
  ASSUME FutureInv, Steady, NEW t \in Threads, agenda[t] # <<>>, Unburdened(t),
         NEW entries \in Seq(Entries), Proceed(t, entries), \A e \in ToSet(entries) : Plain(e)',
         held'[t] = held[t]
  PROVE  Unburdened(t)'
  <1>1. /\ ToSet(agenda[t]) = {Head(agenda[t])} \cup ToSet(Tail(agenda[t]))
        /\ ToSet(agenda'[t]) = ToSet(entries) \cup ToSet(Tail(agenda[t]))
    BY ProceedFacts DEF FutureInv
  <1>2. ASSUME NEW e \in ToSet(agenda[t]) PROVE Plain(e)'
    <2>1. e \in Posted /\ Plain(e)
      BY <1>2 DEF Posted, Unburdened
    <2>2. e[2] \in Created
      BY <2>1 DEF FutureInv, AgendasLegal, Legal, Plain
    <2> QED
      BY <2>1, <2>2, ParentReadyKept DEF Plain
  <1>3. \A e \in ToSet(agenda'[t]) : Plain(e)'
    BY <1>1, <1>2
  <1> QED
    BY <1>3 DEF Unburdened

\* The steps of a thread that is no user.
LEMMA OthersSteps ==
  ASSUME FutureInv, MutexesUnlocked, NEW t \in Threads, Unburdened(t), ReturnsFirst(t),
         Moves(t) \/ Spends(t)
  PROVE  /\ Unburdened(t)' /\ ReturnsFirst(t)'
         /\ Head(agenda[t])[1] \notin {"attach", "priority", "reprioritise"}
         /\ Return(t) => ParentReady(Subject(t))
         /\ held' = held
  <1>0. agenda[t] # <<>> /\ Steady
    BY MovesForm, SpendsForm DEF Steady, Bystanders, Created, Ready
  <1>1. /\ Plain(Head(agenda[t])) /\ Head(agenda[t]) \in Entries
        /\ Head(agenda[t])[1] # "unlock" => Subject(t) \in Created /\ Subject(t) \in Futures
    <2>1. <<>> \in Seq(Entries)
      OBVIOUS
    <2>2. Head(agenda[t]) = Nth(agenda[t], Len(agenda[t])) /\ Len(agenda[t]) \in 1 .. Len(agenda[t])
      <3>1. agenda[t] \in Seq(Entries)
        BY DEF FutureInv, FutureTypes
      <3> QED
        BY <1>0, <3>1 DEF Nth
    <2>3. Head(agenda[t]) \in ToSet(agenda[t])
      BY <2>2, NthPosted
    <2> QED
      BY <1>0, <2>3, HeadLegal DEF Unburdened
  <1>2. /\ Head(agenda[t])[1] \in {"arrive", "submit", "push", "run", "body", "return"}
        /\ Head(agenda[t])[1] = "return" => ParentReady(Subject(t))
    BY <1>1 DEF Plain, Subject
  <1>3. /\ ~Unlock(t) /\ ~Release(t) /\ ~Reprioritise(t) /\ ~AttachReady(t) /\ ~AttachPending(t)
        /\ Return(t) => ParentReady(Subject(t))
    BY <1>2, HeadActs
  <1>4. PICK f : f = Subject(t)
    OBVIOUS
  <1>5. f \in Created /\ f \in Futures /\ f \in 0 .. MaxFutures
    BY <1>1, <1>2, <1>4, FutureAssumption DEF Futures
  <1>6. held \in [Threads -> SUBSET Mutexes]
    BY DEF MutexesUnlocked
  <1>7. /\ Created' = Created /\ \A x \in Created : ParentReady(x) => ParentReady(x)'
    <2>1. Created' = Created
      BY MovesForm, SpendsForm DEF Bystanders, Created
    <2> QED
      BY <1>0, <2>1, ParentReadyKept
  <1>8. ASSUME NEW e \in Entries, Proceed(t, <<e>>), e[1] # "return", Plain(e)', held' = held
        PROVE  Unburdened(t)' /\ ReturnsFirst(t)'
    <2>1. <<e>> \in Seq(Entries) /\ ToSet(<<e>>) = {e}
      BY DEF ToSet
    <2> QED
      BY <1>0, <1>8, <2>1, PlainAfter, ReturnsFirstAfter
  <1>9. ASSUME Proceed(t, <<>>), held' = held PROVE Unburdened(t)' /\ ReturnsFirst(t)'
    <2>1. <<>> \in Seq(Entries) /\ ToSet(<<>>) = {}
      BY DEF ToSet
    <2> QED
      BY <1>0, <1>9, <2>1, PlainAfter, ReturnsFirstAfter
  <1>10. CASE Spends(t)
    <2>1. held' = held /\ SpentOn(t)
      BY <1>3, <1>10, SpendsPosts DEF SpentOn
    <2>2. CASE Proceed(t, <<>>)
      BY <1>2, <1>3, <1>9, <2>1, <2>2
    <2>3. CASE ~Proceed(t, <<>>)
      <3>1. PICK x \in Created, v \in Results :
              Proceed(t, << <<"return", x, v>> >>) /\ ParentReady(x)
        BY <1>3, <2>1, <2>3 DEF SpentOn
      <3>2. PICK e : e = <<"return", x, v>>
        OBVIOUS
      <3>3. e \in Entries
        BY <3>2, FutureAssumption DEF Entries, Created, Futures, FutureInv, FutureTypes
      <3>4. Plain(e)'
        BY <1>7, <3>1, <3>2 DEF Plain
      <3>5. <<e>> \in Seq(Entries) /\ ToSet(<<e>>) = {e}
        BY <3>3 DEF ToSet
      <3>6. Proceed(t, <<e>>)
        BY <3>1, <3>2
      <3>7. ReturnsFirst(t)'
        BY <1>0, <3>3, <3>6, ReturnPosted
      <3>8. Unburdened(t)'
        BY <1>0, <2>1, <3>4, <3>5, <3>6, PlainAfter
      <3> QED
        BY <1>2, <1>3, <2>1, <3>7, <3>8
    <2> QED
      BY <2>2, <2>3
  <1>11. CASE Submit(t)
    <2>0. PICK e : e = Get(t, home[f])
      OBVIOUS
    <2>1. /\ held' = held
          /\ Proceed(t, IF e = "immediate" THEN << <<"run", f>> >> ELSE << <<"push", f, e>> >>)
      BY <1>4, <1>11, <2>0 DEF Submit, Continue
    <2>2. e = "immediate" \/ e \in Queued
      BY <1>5, <2>0 DEF Get, FutureInv, FutureTypes, Types
    <2>3. PICK z : z = IF e = "immediate" THEN <<"run", f>> ELSE <<"push", f, e>>
      OBVIOUS
    <2>4. Proceed(t, <<z>>) /\ z[1] # "return" /\ Plain(z)' /\ z \in Entries
      <3>1. CASE e = "immediate"
        BY <1>5, <2>1, <2>3, <3>1 DEF Plain, Entries
      <3>2. CASE e # "immediate"
        BY <1>5, <2>1, <2>2, <2>3, <3>2 DEF Plain, Entries
      <3> QED
        BY <3>1, <3>2
    <2> QED
      BY <1>2, <1>3, <1>8, <2>1, <2>4
  <1>12. CASE PushTask(t)
    BY <1>2, <1>3, <1>9, <1>12 DEF PushTask, Continue
  <1>13. CASE RunCalls(t)
    <2>1. Proceed(t, << <<"body", f>> >>) /\ held' = held
      BY <1>4, <1>13 DEF RunCalls
    <2>2. PICK z : z = <<"body", f>>
      OBVIOUS
    <2>3. Proceed(t, <<z>>) /\ z[1] # "return" /\ Plain(z)' /\ z \in Entries
      BY <1>5, <2>1, <2>2 DEF Plain, Entries
    <2> QED
      BY <1>2, <1>3, <1>8, <2>1, <2>3
  <1>14. CASE Return(t)
    <2>1. /\ on_ready[f] \in Seq(Entries) /\ \A e \in ToSet(on_ready[f]) : Awaited(f, e)
          /\ Proceed(t, on_ready[f]) /\ held' = [held EXCEPT ![t] = @]
      BY <1>2, <1>4, <1>14, HeadActs, ReturnPosts
    <2>2. held' = held
      BY <1>6, <2>1
    <2>3. \A e \in ToSet(on_ready[f]) : e[1] # "return" /\ Plain(e)'
      BY <2>1 DEF Awaited, CallbackOf, Plain
    <2> QED
      BY <1>0, <1>2, <1>3, <2>1, <2>2, <2>3, PlainAfter, ReturnsFirstAfter
  <1> QED
    BY <1>3, <1>10, <1>11, <1>12, <1>13, <1>14 DEF Moves

\* The head of a section is done, and left no entry.
LEMMA SectionPopped ==
  ASSUME FutureInv, Steady, NEW t \in Threads, agenda[t] # <<>>, ReturnsFirst(t),
         NEW m \in Mutexes, NEW k \in Nat, Section(t, m, k), k < Len(agenda[t]),
         Proceed(t, <<>>), held'[t] = held[t], HoldersStay \/ Len(agenda[t]) <= k + 1
  PROVE  Careful(t)' /\ ReturnsFirst(t)'
  <1> DEFINE n == Len(agenda[t])
  <1>0. <<>> \in Seq(Entries) /\ ToSet(<<>>) = {} /\ Len(<<>>) = 0
    BY DEF ToSet
  <1>1. /\ n \in Nat \ {0} /\ Len(agenda'[t]) = n - 1
        /\ \A d \in 1 .. n - 1 : Nth(agenda'[t], d) = Nth(agenda[t], d)
    <2>1. /\ n \in Nat \ {0} /\ Len(agenda'[t]) = n - 1 + Len(<<>>)
          /\ \A d \in 1 .. n - 1 : Nth(agenda'[t], d) = Nth(agenda[t], d)
      BY <1>0, ProceedFacts DEF FutureInv
    <2> HIDE DEF n
    <2> QED
      BY <1>0, <2>1
  <1>2. k \in 1 .. n - 1 /\ (m # ForegroundMutex => n <= k + 1)
    BY <1>1 DEF Section
  <1>3. ASSUME NEW d \in k + 1 .. n - 1 PROVE Harmless(m, Nth(agenda[t], d))'
    <2>1. HoldersStay /\ d \in 1 .. n - 1 /\ d \in 1 .. n /\ d \in k + 1 .. n
      BY <1>1, <1>2, <1>3
    <2>2. PICK e : e = Nth(agenda[t], d)
      OBVIOUS
    <2>3. e \in Posted /\ Harmless(m, e)
      BY <2>1, <2>2, NthPosted DEF Section
    <2>4. Harmless(m, e)'
      BY <2>1, <2>3, HarmlessKept
    <2>5. Nth(agenda[t], d)' = e
      BY <1>1, <2>1, <2>2 DEF Nth
    <2> QED
      BY <2>4, <2>5
  <1>4. Section(t, m, k)'
    <2>1. held'[t] = {m} /\ Nth(agenda'[t], k) = <<"unlock", m>> /\ k \in 1 .. Len(agenda'[t])
      BY <1>1, <1>2 DEF Section
    <2>2. m # ForegroundMutex => Len(agenda'[t]) <= k + 1
      BY <1>1, <1>2
    <2>3. \A d \in k + 1 .. Len(agenda'[t]) : Harmless(m, Nth(agenda[t], d))'
      BY <1>1, <1>3
    <2>4. \A d : Nth(agenda[t], d)' = Nth(agenda'[t], d)
      BY DEF Nth
    <2> QED
      BY <2>1, <2>2, <2>3, <2>4 DEF Section
  <1>5. ReturnsFirst(t)' /\ (agenda'[t] # <<>> => Head(agenda'[t])[1] # "return")
    BY <1>0, ReturnsFirstAfter
  <1> QED
    BY <1>4, <1>5 DEF Careful, InSection, Considerate

\* A user inside a section.
LEMMA SectionSteps ==
  ASSUME FutureInv, CompletionInv, FutureInv', CompletionInv', MutexesUnlocked,
         NEW t \in Threads, ReturnsFirst(t), Moves(t) \/ Spends(t),
         NEW m \in Mutexes, NEW k \in Nat, Section(t, m, k)
  PROVE  Careful(t)' /\ ReturnsFirst(t)'
  <1> DEFINE n == Len(agenda[t])
  <1>0. agenda[t] # <<>> /\ Steady
    BY MovesForm, SpendsForm DEF Steady, Bystanders, Created, Ready
  <1>1. <<>> \in Seq(Entries) /\ ToSet(<<>>) = {}
    BY DEF ToSet
  <1>2. /\ n \in Nat \ {0} /\ n \in 1 .. n /\ Head(agenda[t]) = Nth(agenda[t], n)
        /\ agenda[t] \in Seq(Entries)
    <2>1. agenda[t] \in Seq(Entries)
      BY DEF FutureInv, FutureTypes
    <2> QED
      BY <1>0, <2>1 DEF Nth
  <1>3. PICK f : f = Subject(t)
    OBVIOUS
  <1>4. PICK e : e = Head(agenda[t])
    OBVIOUS
  <1>5. held \in [Threads -> SUBSET Mutexes] /\ held[t] = {m} /\ k \in 1 .. n
    BY DEF MutexesUnlocked, Section
  <1>6. CASE k = n
    <2>1. e = <<"unlock", m>>
      BY <1>2, <1>4, <1>6 DEF Section
    <2>2. Unlock(t) /\ Subject(t) = m
      BY <1>4, <2>1, HeadActs DEF Subject
    <2>3. Proceed(t, <<>>) /\ held'[t] = {}
      BY <1>5, <2>2 DEF Unlock
    <2>4. ReturnsFirst(t)' /\ (agenda'[t] # <<>> => Head(agenda'[t])[1] # "return")
      BY <1>0, <1>1, <2>3, ReturnsFirstAfter
    <2> QED
      BY <2>3, <2>4 DEF Careful, Considerate
  <1>7. CASE k < n
    <2>1. Harmless(m, e) /\ n \in k + 1 .. n
      BY <1>2, <1>4, <1>5, <1>7 DEF Section
    <2>2. CASE e[1] = "reprioritise"
      <3>1. Proceed(t, <<>>) /\ held' = held
        BY <1>4, <2>2, HeadActs DEF RescheduleTask, Continue
      <3>2. n <= k + 1
        BY <2>1, <2>2 DEF Harmless, Section
      <3> QED
        BY <1>0, <1>7, <3>1, <3>2, SectionPopped
    <2>3. CASE e[1] = "return"
      <3>1. m = ForegroundMutex /\ (Ready(f) \/ Childless(f)) /\ (Return(t) \/ ReturnIgnored(t))
        BY <1>3, <1>4, <2>1, <2>3, HeadActs DEF Harmless, Subject
      <3>2. Return(t) => Childless(f) /\ ~Ready(f)
        BY <1>3, <3>1, ReturnPosts
      <3>3. HoldersStay
        BY <1>3, <1>4, <2>3, <3>2, HoldersStayAfter DEF Childless
      <3>4. Proceed(t, <<>>) /\ held'[t] = held[t]
        <4>1. CASE ReturnIgnored(t)
          BY <4>1 DEF ReturnIgnored, Continue
        <4>2. CASE Return(t)
          <5>1. Proceed(t, on_ready[f]) /\ held' = [held EXCEPT ![t] = @]
            BY <1>3, <3>2, <4>2, ReturnPosts DEF Childless
          <5> QED
            BY <1>5, <3>2, <4>2, <5>1 DEF Childless
        <4> QED
          BY <3>1, <4>1, <4>2
      <3> QED
        BY <1>0, <1>7, <3>3, <3>4, SectionPopped
    <2>4. CASE e[1] = "release"
      <3>1. Release(t) /\ f = e[2] /\ ~Return(t)
        BY <1>3, <1>4, <2>4, HeadActs DEF Subject
      <3>2. HoldersStay
        BY <1>4, <2>4, <3>1, HoldersStayAfter
      <3>3. CASE Ready(f) \/ Held(f)
        <4>1. Proceed(t, <<>>) /\ held' = held
          BY <1>3, <3>1, <3>3 DEF Release, Continue
        <4> QED
          BY <1>0, <1>7, <3>2, <4>1, SectionPopped
      <3>4. CASE ~Ready(f) /\ ~Held(f)
        <4>1. PICK z : z = <<"return", f, "cancelled">>
          OBVIOUS
        <4>2. /\ Proceed(t, <<z>>) /\ held' = held
              /\ UNCHANGED <<on_ready, result>>
          BY <1>3, <3>1, <3>4, <4>1 DEF Release, Continue
        <4>3. f \in Created /\ f \in Futures /\ z \in Entries
          <5>1. f \in Created /\ f \in Futures
            BY <1>0, <1>3, <1>4, <2>4, HeadLegal
          <5> QED
            BY <4>1, <5>1 DEF Entries, Results
        <4>4. m = ForegroundMutex /\ Childless(f)
          <5>1. ~Kept(f, 0)
            BY <3>4, KeptForms DEF Held
          <5> QED
            BY <2>1, <2>4, <3>1, <3>4, <5>1 DEF Harmless
        <4>5. /\ ReturnsFirst(t)' /\ Head(agenda'[t]) = z
              /\ Len(agenda'[t]) = n /\ Nth(agenda'[t], n) = z
              /\ \A d \in 1 .. n - 1 : Nth(agenda'[t], d) = Nth(agenda[t], d)
          BY <1>0, <4>2, <4>3, ReturnPosted
        <4>6. Childless(f)'
          BY <1>0, <4>2, <4>3, <4>4, ParentReadyKept DEF Childless
        <4>7. Harmless(m, z)'
          BY <4>1, <4>4, <4>6 DEF Harmless
        <4>8. ASSUME NEW d \in k + 1 .. n PROVE Harmless(m, Nth(agenda[t], d))'
          <5>1. CASE d = n
            <6>1. Nth(agenda[t], d)' = z
              BY <4>5, <5>1 DEF Nth
            <6> QED
              BY <4>7, <6>1
          <5>2. CASE d # n
            <6>1. d \in 1 .. n - 1 /\ d \in 1 .. n
              BY <1>2, <1>5, <4>8, <5>2
            <6>2. PICK y : y = Nth(agenda[t], d)
              OBVIOUS
            <6>3. y \in Posted /\ Harmless(m, y)
              BY <4>8, <6>1, <6>2, NthPosted DEF Section
            <6>4. Harmless(m, y)'
              BY <1>0, <3>2, <6>3, HarmlessKept
            <6>5. Nth(agenda[t], d)' = y
              BY <4>5, <6>1, <6>2 DEF Nth
            <6> QED
              BY <6>4, <6>5
          <5> QED
            BY <5>1, <5>2
        <4>9. Section(t, m, k)'
          <5>1. k \in 1 .. n - 1
            BY <1>2, <1>5, <1>7
          <5>2. held'[t] = {m} /\ Nth(agenda'[t], k) = <<"unlock", m>> /\ k \in 1 .. Len(agenda'[t])
            BY <1>2, <1>5, <4>2, <4>5, <5>1 DEF Section
          <5>3. \A d : Nth(agenda[t], d)' = Nth(agenda'[t], d)
            BY DEF Nth
          <5> QED
            BY <4>4, <4>5, <4>8, <5>2, <5>3 DEF Section
        <4>10. Considerate(t)'
          BY <4>1, <4>5, <4>6 DEF Considerate, Subject, Childless
        <4> QED
          BY <4>5, <4>9, <4>10 DEF Careful, InSection
      <3> QED
        BY <3>3, <3>4
    <2> QED
      BY <2>1, <2>2, <2>3, <2>4 DEF Harmless
  <1> QED
    BY <1>2, <1>5, <1>6, <1>7

\* A section of two entries begins.
LEMMA SectionBegins ==
  ASSUME FutureInv, NEW t \in Threads, agenda[t] # <<>>, ReturnsFirst(t),
         NEW first \in Entries, NEW m \in Mutexes \ {ForegroundMutex}, <<"unlock", m>> \in Entries,
         NEW calls \in Seq(Entries), Proceed(t, << first, <<"unlock", m>> >> \o calls),
         first[1] # "return", \A e \in ToSet(calls) : e[1] # "return",
         Harmless(m, first)', held'[t] = {m}
  PROVE  Careful(t)' /\ ReturnsFirst(t)'
  <1> DEFINE two == << first, <<"unlock", m>> >>
             n == Len(agenda[t])
  <1>1. /\ two \in Seq(Entries) /\ Len(two) = 2 /\ ToSet(two) = {first, <<"unlock", m>>}
        /\ Nth(two, 1) = <<"unlock", m>> /\ Nth(two, 2) = first
    BY DEF ToSet, Nth
  <1> HIDE DEF two
  <1>2. PICK entries : entries = two \o calls
    OBVIOUS
  <1>3. /\ entries \in Seq(Entries) /\ Len(entries) = 2 + Len(calls)
        /\ ToSet(entries) = ToSet(two) \cup ToSet(calls)
        /\ \A d \in Len(calls) + 1 .. 2 + Len(calls) : Nth(entries, d) = Nth(two, d - Len(calls))
        /\ Len(calls) \in Nat
    <2>1. PICK z : z = two
      OBVIOUS
    <2>2. /\ entries \in Seq(Entries) /\ Len(entries) = Len(z) + Len(calls)
          /\ ToSet(entries) = ToSet(z) \cup ToSet(calls)
          /\ \A d \in Len(calls) + 1 .. Len(z) + Len(calls) :
               Nth(entries, d) = Nth(z, d - Len(calls))
      BY <1>1, <1>2, <2>1, JoinFacts
    <2>3. Len(z) = 2 /\ Len(calls) \in Nat
      BY <1>1, <2>1
    <2> QED
      BY <2>1, <2>2, <2>3
  <1>4. Proceed(t, entries)
    BY <1>2 DEF two
  <1>5. \A e \in ToSet(entries) : e[1] # "return"
    BY <1>1, <1>3
  <1>6. ReturnsFirst(t)' /\ (agenda'[t] # <<>> => Head(agenda'[t])[1] # "return")
    BY <1>3, <1>4, <1>5, ReturnsFirstAfter
  <1>7. /\ n \in Nat \ {0} /\ Len(agenda'[t]) = n - 1 + Len(entries)
        /\ \A d \in n .. Len(agenda'[t]) : Nth(agenda'[t], d) = Nth(entries, d - n + 1)
    BY <1>3, <1>4, ProceedFacts DEF FutureInv
  <1> HIDE DEF n
  <1>0. PICK k : k = n + Len(calls)
    OBVIOUS
  <1>8. k \in 1 .. Len(agenda'[t]) /\ Len(agenda'[t]) = k + 1 /\ k \in Nat
    BY <1>3, <1>7, <1>0
  <1>9. Nth(agenda'[t], k) = <<"unlock", m>>
    <2>1. k \in n .. Len(agenda'[t]) /\ k - n + 1 = Len(calls) + 1 /\ Len(calls) + 1 - Len(calls) = 1
      BY <1>3, <1>7, <1>0
    <2>2. Nth(entries, Len(calls) + 1) = Nth(two, 1)
      BY <1>3, <2>1
    <2> QED
      BY <1>1, <1>7, <2>1, <2>2
  <1>10. Nth(agenda'[t], k + 1) = first
    <2>0. PICK d : d = k + 1
      OBVIOUS
    <2>1. d \in n .. Len(agenda'[t]) /\ d - n + 1 = Len(calls) + 2 /\ Len(calls) + 2 - Len(calls) = 2
      BY <1>3, <1>7, <1>0, <2>0
    <2>2. Nth(entries, Len(calls) + 2) = Nth(two, 2)
      BY <1>3, <2>1
    <2>3. Nth(agenda'[t], d) = Nth(entries, d - n + 1)
      BY <1>7, <2>1
    <2> QED
      BY <1>1, <2>0, <2>1, <2>2, <2>3
  <1>11. Section(t, m, k)'
    <2>1. \A d : Nth(agenda[t], d)' = Nth(agenda'[t], d)
      BY DEF Nth
    <2>2. ASSUME NEW d \in k + 1 .. Len(agenda'[t]) PROVE Harmless(m, Nth(agenda[t], d))'
      <3>1. d = k + 1
        BY <1>8, <2>2
      <3>2. Nth(agenda[t], d)' = first
        BY <1>10, <2>1, <3>1
      <3> QED
        BY <3>2
    <2> QED
      BY <1>8, <1>9, <2>1, <2>2 DEF Section
  <1> QED
    BY <1>6, <1>8, <1>11 DEF Careful, InSection, Considerate

\* A user that holds no mutex.
LEMMA FreeSteps ==
  ASSUME FutureInv, CompletionInv, FutureInv', CompletionInv', MutexesUnlocked,
         NEW t \in Threads, ReturnsFirst(t), Moves(t) \/ Spends(t), held[t] = {}, Considerate(t),
         \A f \in dropped : ParentReady(f)
  PROVE  Careful(t)' /\ ReturnsFirst(t)'
  <1>0. agenda[t] # <<>> /\ Steady /\ Created' = Created
    BY MovesForm, SpendsForm DEF Steady, Bystanders, Created, Ready
  <1>1. <<>> \in Seq(Entries) /\ ToSet(<<>>) = {}
    BY DEF ToSet
  <1>2. PICK f : f = Subject(t)
    OBVIOUS
  <1>3. held \in [Threads -> SUBSET Mutexes]
    BY DEF MutexesUnlocked
  <1>4. /\ Head(agenda[t]) \in Entries /\ Legal(Head(agenda[t]))
        /\ Head(agenda[t])[1] # "unlock" => f \in Created /\ f \in Futures
    BY <1>0, <1>2, HeadLegal
  <1>5. ASSUME NEW entries \in Seq(Entries), Proceed(t, entries),
               \A e \in ToSet(entries) : e[1] # "return", held'[t] = {}
        PROVE  Careful(t)' /\ ReturnsFirst(t)'
    <2>1. ReturnsFirst(t)' /\ (agenda'[t] # <<>> => Head(agenda'[t])[1] # "return")
      BY <1>0, <1>5, ReturnsFirstAfter
    <2> QED
      BY <1>5, <2>1 DEF Careful, Considerate
  <1>6. CASE Moves(t) /\ ~Return(t)
    <2>1. held' = held
      BY <1>6 DEF Moves, AttachReady, AttachPending, Submit, PushTask, RunCalls, Continue
    <2>2. PICK entries \in Seq(Entries) :
            Proceed(t, entries) /\ \A e \in ToSet(entries) : e[1] # "return"
      BY <1>6, MovesForm
    <2> QED
      BY <1>5, <2>1, <2>2
  <1>7. CASE Return(t) /\ ParentReady(f)
    <2>1. /\ on_ready[f] \in Seq(Entries) /\ \A e \in ToSet(on_ready[f]) : Awaited(f, e)
          /\ Proceed(t, on_ready[f]) /\ held' = [held EXCEPT ![t] = @]
      BY <1>2, <1>7, ReturnPosts
    <2>2. held'[t] = {} /\ \A e \in ToSet(on_ready[f]) : e[1] # "return"
      BY <1>3, <2>1 DEF Awaited, CallbackOf
    <2> QED
      BY <1>5, <2>1, <2>2
  <1>8. CASE Return(t) /\ ~ParentReady(f)
    <2>0. PICK p : p = ParentOf(f)
      OBVIOUS
    <2>1. /\ Head(agenda[t])[1] = "return" /\ f \in Futures /\ f \in Created
          /\ Ready(f)' /\ \A g \in Futures \ {f} : result'[g] = result[g]
          /\ on_ready'[f] = <<>> /\ \A g \in Futures \ {f} : on_ready'[g] = on_ready[g]
          /\ on_ready[f] \in Seq(Entries) /\ \A e \in ToSet(on_ready[f]) : Awaited(f, e)
          /\ UNCHANGED Bystanders /\ UNCHANGED queue
          /\ Proceed(t, << <<"release", p>>, <<"unlock", f>> >> \o on_ready[f])
          /\ held' = [held EXCEPT ![t] = @ \cup {f}]
      BY <1>2, <1>8, <2>0, ReturnPosts
    <2>2. /\ kind[f] \in Continuations /\ p \in Created /\ p \in Futures /\ p # f
          /\ p \in 0 .. MaxFutures /\ f \in 0 .. MaxFutures /\ f # ForegroundMutex
      BY <1>8, <2>0, <2>1, ParentFacts, FutureAssumption
         DEF ParentReady, Futures, FutureInv, ForegroundMutex
    <2>3. PICK first, last : first = <<"release", p>> /\ last = <<"unlock", f>>
      OBVIOUS
    <2>4. first \in Entries /\ last \in Entries /\ f \in Mutexes
      BY <2>2, <2>3 DEF Entries, Mutexes
    <2>5. Kept(p, f)
      BY <1>0, <1>2, <1>8, <2>0, <2>1 DEF Considerate
    <2>6. PICK entries : entries = <<first, last>> \o on_ready[f]
      OBVIOUS
    <2>7. entries \in Seq(Entries) /\ ToSet(on_ready[f]) \subseteq ToSet(entries)
      <3>1. PICK two : two = <<first, last>>
        OBVIOUS
      <3>2. two \in Seq(Entries) /\ entries = two \o on_ready[f]
        BY <2>4, <2>6, <3>1
      <3>3. entries \in Seq(Entries) /\ ToSet(entries) = ToSet(two) \cup ToSet(on_ready[f])
        BY <2>1, <3>2, JoinFacts
      <3> QED
        BY <3>3
    <2>8. Proceed(t, entries)
      BY <2>1, <2>3, <2>6
    <2>9. Kept(p, f)'
      <3>1. UNCHANGED <<created, kind, sources, handles>> /\ \A e \in Queued : queue[e] \subseteq queue'[e]
        BY <2>1 DEF Bystanders
      <3>2. Created \subseteq Futures
        BY FutureAssumption DEF Created, Futures, FutureInv, FutureTypes
      <3>3. \A c \in Created \ {f} : Ready(c)' => Ready(c)
        BY <2>1, <3>2 DEF Ready
      <3>4. \A g \in Created : ToSet(on_ready[g]) \subseteq ToSet(on_ready'[g]) \cup ToSet(entries)
        BY <2>1, <2>7, <3>2
      <3>5. p \notin Keeps(Head(agenda[t]))
        BY <1>2, <2>1, <2>2 DEF Keeps, Subject
      <3> QED
        BY <1>0, <2>5, <2>7, <2>8, <3>1, <3>3, <3>4, <3>5, KeptAfter
    <2>10. Kept(p, 0)'
      <3>1. Created' \ {f} \subseteq Created' \ {0}
        BY DEF Created
      <3> QED
        BY <2>9, <3>1 DEF Kept
    <2>11. Harmless(f, first)'
      BY <2>2, <2>3, <2>10 DEF Harmless
    <2>12. /\ first[1] # "return" /\ held'[t] = {f}
           /\ \A e \in ToSet(on_ready[f]) : e[1] # "return"
      BY <1>3, <2>1, <2>3 DEF Awaited, CallbackOf
    <2> QED
      BY <1>0, <2>1, <2>2, <2>3, <2>4, <2>6, <2>8, <2>11, <2>12, SectionBegins
  <1>9. CASE Spends(t)
    <2>1. SpentOn(t)
      BY <1>9, SpendsPosts
    <2>2. CASE Proceed(t, <<>>) /\ (held' = held \/ Unlock(t))
      <3>1. Unlock(t) => held' = [held EXCEPT ![t] = @ \ {Subject(t)}]
        BY DEF Unlock
      <3>2. held'[t] = {}
        BY <1>3, <2>2, <3>1
      <3> QED
        BY <1>1, <1>5, <2>2, <3>2
    <2>3. ASSUME NEW x \in Created, NEW v \in Results, Proceed(t, << <<"return", x, v>> >>),
                 held' = held,
                 ParentReady(x) \/ (Release(t) /\ x = Subject(t) /\ ~Ready(x) /\ ~Held(x))
          PROVE  Careful(t)' /\ ReturnsFirst(t)'
      <3>1. ParentReady(x)
        <4> SUFFICES ASSUME ~ParentReady(x), ~Ready(x), ~Held(x) PROVE FALSE
          BY <2>3
        <4>1. kind[x] \in Callables /\ x \notin dropped
          BY DEF ParentReady, Callables
        <4>2. Kept(x, 0)
          BY <4>1, CompletersHold DEF CompletersKeep
        <4> QED
          BY <4>2, KeptForms DEF Held
      <3>2. ParentReady(x)'
        BY <1>0, <3>1, ParentReadyKept
      <3>3. PICK e : e = <<"return", x, v>>
        OBVIOUS
      <3>4. e \in Entries /\ Proceed(t, <<e>>)
        BY <2>3, <3>3, FutureAssumption DEF Entries, Created, Futures, FutureInv, FutureTypes
      <3>5. ReturnsFirst(t)' /\ Head(agenda'[t]) = e
        BY <1>0, <3>4, ReturnPosted
      <3>6. Considerate(t)'
        BY <3>2, <3>3, <3>5 DEF Considerate, Subject
      <3> QED
        BY <2>3, <3>5, <3>6 DEF Careful
    <2>4. ASSUME NEW e \in Queued, Reprioritise(t),
                 Proceed(t, << <<"reprioritise", f, e>>, <<"unlock", f>> >>),
                 held' = [held EXCEPT ![t] = @ \cup {f}]
          PROVE  Careful(t)' /\ ReturnsFirst(t)'
      <3>1. Head(agenda[t])[1] = "priority"
        BY <1>9, <2>4, HeadActs
      <3>2. f \in Futures /\ f \in 0 .. MaxFutures /\ f # ForegroundMutex
        BY <1>4, <3>1, FutureAssumption DEF Futures, ForegroundMutex
      <3>3. PICK first, last : first = <<"reprioritise", f, e>> /\ last = <<"unlock", f>>
        OBVIOUS
      <3>4. first \in Entries /\ last \in Entries /\ f \in Mutexes
        BY <3>2, <3>3 DEF Entries, Mutexes
      <3>5. Proceed(t, <<first, last>> \o <<>>)
        <4>1. <<first, last>> \o <<>> = <<first, last>>
          BY <3>4
        <4> QED
          BY <2>4, <3>3, <4>1
      <3>6. Harmless(f, first)' /\ first[1] # "return" /\ held'[t] = {f}
        BY <1>3, <2>4, <3>2, <3>3 DEF Harmless
      <3> QED
        BY <1>0, <1>1, <3>2, <3>3, <3>4, <3>5, <3>6, SectionBegins
    <2> QED
      BY <1>2, <2>1, <2>2, <2>3, <2>4 DEF SpentOn
  <1> QED
    BY <1>6, <1>7, <1>8, <1>9 DEF Moves

\* A call that begins on an idle thread takes nothing from anybody.
LEMMA KeptOnCall ==
  ASSUME NEW t \in Threads, agenda[t] = <<>>, \A u \in Threads \ {t} : agenda'[u] = agenda[u],
         UNCHANGED <<created, kind, sources, result, on_ready, queue, handles>>,
         NEW p, NEW child, Kept(p, child)
  PROVE  Kept(p, child)'
  <1>1. ToSet(agenda[t]) = {}
    BY DEF ToSet
  <1>2. Posted \subseteq Posted'
    BY <1>1 DEF Posted
  <1>3. Created' = Created /\ \A e : Keeps(e)' = Keeps(e)
    BY DEF Created, Keeps
  <1>4. \A c : Ready(c)' = Ready(c)
    BY DEF Ready
  <1> QED
    BY <1>2, <1>3, <1>4 DEF Kept

\* The task that is taken is kept by the call that runs it.
LEMMA TakeHolds ==
  ASSUME FutureInv, FutureInv', NEW t \in Threads, NEW f \in Created, Take(t, f)
  PROVE  /\ HoldersStay /\ Steady /\ held' = held /\ dropped' = dropped
         /\ agenda[t] = <<>> /\ agenda'[t] = << <<"run", f>> >>
         /\ \A u \in Threads \ {t} : agenda'[u] = agenda[u]
  <1>1. /\ agenda[t] = <<>> /\ agenda' = [agenda EXCEPT ![t] = << <<"run", f>> >>]
        /\ UNCHANGED Bystanders /\ UNCHANGED <<result, on_ready, held>>
        /\ \E e \in Queued : f \in queue[e] /\ queue' = [queue EXCEPT ![e] = @ \ {f}]
    BY DEF Take, Pop, Bystanders, Queued
  <1>2. /\ agenda'[t] = << <<"run", f>> >> /\ \A u \in Threads \ {t} : agenda'[u] = agenda[u]
    BY <1>1 DEF FutureInv, FutureTypes
  <1>3. ToSet(agenda[t]) = {} /\ ToSet(agenda'[t]) = {<<"run", f>>}
    BY <1>1, <1>2 DEF ToSet
  <1>4. Posted \subseteq Posted' /\ <<"run", f>> \in Posted'
    BY <1>2, <1>3 DEF Posted
  <1>5. Created' = Created /\ \A e : Keeps(e)' = Keeps(e)
    BY <1>1 DEF Created, Keeps, Bystanders
  <1>6. \A c : Ready(c)' = Ready(c)
    BY <1>1 DEF Ready
  <1>7. \A e \in Queued : queue[e] \subseteq queue'[e] \cup {f}
    BY <1>1 DEF FutureInv, FutureTypes
  <1>8. f \in Keeps(<<"run", f>>)'
    BY DEF Keeps
  <1>9. ASSUME NEW p, NEW child, Kept(p, child) PROVE Kept(p, child)'
    BY <1>1, <1>4, <1>5, <1>6, <1>7, <1>8, <1>9 DEF Kept, Bystanders
  <1>10. HoldersStay
    BY <1>1, <1>9 DEF HoldersStay
  <1>11. Steady
    BY <1>1, <1>5 DEF Steady, Bystanders
  <1> QED
    BY <1>1, <1>2, <1>10, <1>11 DEF Bystanders

\* An agenda of one entry, or of none.
LEMMA ShortAgenda ==
  ASSUME NEW t \in Threads, NEW e, agenda'[t] = <<>> \/ agenda'[t] = <<e>>
  PROVE  ReturnsFirst(t)' /\ (agenda'[t] # <<>> => agenda'[t] = <<e>> /\ Head(agenda'[t]) = e)
  <1>1. Len(<<>>) = 0 /\ Len(<<e>>) = 1 /\ Head(<<e>>) = e
    OBVIOUS
  <1>2. Len(agenda'[t]) = 0 \/ Len(agenda'[t]) = 1
    BY <1>1
  <1>3. PICK n : n = Len(agenda'[t])
    OBVIOUS
  <1>4. ASSUME NEW d \in 1 .. n - 1 PROVE FALSE
    <2>1. n = 0 \/ n = 1
      BY <1>2, <1>3
    <2> QED
      BY <1>4, <2>1
  <1>5. ReturnsFirst(t)'
    BY <1>3, <1>4 DEF ReturnsFirst
  <1> QED
    BY <1>1, <1>5

\* What a user does between its calls.
LEMMA MakesLocks ==
  ASSUME FutureInv, MutexesUnlocked, NEW t \in Threads, Makes(t)
  PROVE  /\ t \in Users /\ Careful(t)' /\ ReturnsFirst(t)' /\ Steady
         /\ held' = held /\ dropped' = dropped /\ \A u \in Threads \ {t} : agenda'[u] = agenda[u]
  <1>1. /\ Steady /\ agenda[t] = <<>> /\ dropped' = dropped /\ FutureInv'
        /\ \A u \in Threads \ {t} : agenda'[u] = agenda[u]
    BY MakesKeeps DEF MadeRight
  <1>2. t \in Users /\ held' = held
    BY DEF Makes, Promise, Schedule, Then, AsStatusFuture, Combine, CombineWaitForAll,
           CombineStatusFutures, MergeValues, Create, Idle
  <1>3. held[t] = {}
    <2>1. ToSet(agenda[t]) = {}
      BY <1>1 DEF ToSet
    <2> QED
      BY <2>1 DEF MutexesUnlocked
  <1>4. agenda'[t] \in Seq(Entries)
    BY <1>1 DEF FutureInv, FutureTypes
  <1>5. ASSUME NEW d \in 1 .. Len(agenda'[t]), Nth(agenda'[t], d)[1] = "return"
        PROVE  \E e : /\ e = Nth(agenda'[t], d) /\ agenda'[t] = <<e>>
                      /\ ParentReady(e[2])'
    <2>1. PICK e, f : e = Nth(agenda'[t], d) /\ f = created + 1
      OBVIOUS
    <2>2. Len(agenda'[t]) + 1 - d \in DOMAIN agenda'[t]
      BY <1>4
    <2>3. e \in ToSet(agenda'[t])
      BY <2>1, <2>2 DEF Nth, ToSet
    <2>4. e = <<"return", f, "ok">> /\ agenda'[t] = <<e>> /\ kind'[f] = "combine"
      BY <1>5, <2>1, <2>3, MakesPosts
    <2>5. ParentReady(e[2])'
      BY <2>4 DEF ParentReady, Continuations
    <2> QED
      BY <2>1, <2>4, <2>5
  <1>6. ReturnsFirst(t)'
    <2> SUFFICES ASSUME NEW d \in 1 .. Len(agenda'[t]) - 1, Nth(agenda'[t], d)[1] = "return"
                 PROVE  FALSE
      BY DEF ReturnsFirst, Nth
    <2>1. d \in 1 .. Len(agenda'[t])
      BY <1>4
    <2>2. PICK e : agenda'[t] = <<e>>
      BY <1>5, <2>1
    <2>3. Len(agenda'[t]) = 1
      BY <2>2
    <2> QED
      BY <2>3
  <1>7. Considerate(t)'
    <2> SUFFICES ASSUME agenda'[t] # <<>>, Head(agenda'[t])[1] = "return", NEW f,
                        f = Head(agenda'[t])[2]
                 PROVE  ParentReady(f)'
      BY DEF Considerate, Subject
    <2>1. PICK d : d = Len(agenda'[t])
      OBVIOUS
    <2>2. d \in 1 .. Len(agenda'[t]) /\ Head(agenda'[t]) = Nth(agenda'[t], d)
      BY <1>4, <2>1 DEF Nth
    <2>3. PICK e : e = Head(agenda'[t]) /\ ParentReady(e[2])'
      BY <1>5, <2>2
    <2> QED
      BY <2>3
  <1> QED
    BY <1>1, <1>2, <1>3, <1>6, <1>7 DEF Careful

\* What a user does to futures it has handles of.
LEMMA IntervenesLocks ==
  ASSUME LoneUser, FutureInv, MutexesUnlocked, NEW t \in Threads, Intervenes(t)
  PROVE  /\ t \in Users /\ Careful(t)' /\ ReturnsFirst(t)' /\ Steady
         /\ held' = held /\ dropped' = dropped /\ \A u \in Threads \ {t} : agenda'[u] = agenda[u]
  <1>1. /\ t \in Users /\ agenda[t] = <<>> /\ held' = held /\ dropped' = dropped
        /\ UNCHANGED <<created, kind, accepts, sources, result, on_ready, queue>>
    BY DEF Intervenes, Cancel, UpdatePriority, DropHandle, ShutdownBackground, UserCall, Idle,
           StopBackground, executorVars
  <1>2. \A u \in Threads \ {t} : agenda'[u] = agenda[u]
    BY DEF Intervenes, Cancel, UpdatePriority, DropHandle, ShutdownBackground, UserCall,
           FutureInv, FutureTypes
  <1>3. held'[t] = {}
    <2>1. ToSet(agenda[t]) = {}
      BY <1>1 DEF ToSet
    <2> QED
      BY <1>1, <2>1 DEF MutexesUnlocked
  <1>4. Steady
    BY <1>1 DEF Steady, Created
  <1>5. CASE \E f \in Created : Cancel(t, f)
    <2>1. PICK f \in Created : Cancel(t, f)
      BY <1>5
    <2>2. /\ ~LetsGoOfParent(f) /\ handles' = handles
          /\ agenda'[t] = << <<"return", f, "cancelled">> >>
      BY <2>1 DEF LoneUser, Cancel, UserCall, FutureInv, FutureTypes
    <2>3. PICK e : e = <<"return", f, "cancelled">>
      OBVIOUS
    <2>4. ReturnsFirst(t)' /\ Head(agenda'[t]) = e
      <3>1. agenda'[t] = <<e>> /\ <<e>> # <<>>
        BY <2>2, <2>3
      <3> QED
        BY <3>1, ShortAgenda
    <2>5. PICK p : p = ParentOf(f)
      OBVIOUS
    <2>6. ParentReady(f) \/ Kept(p, f)
      BY <2>2, <2>5, KeptForms DEF LetsGoOfParent, ParentReady
    <2>7. ParentReady(f)' \/ Kept(p, f)'
      <3>1. CASE ParentReady(f)
        BY <1>4, <3>1, ParentReadyKept
      <3>2. CASE Kept(p, f)
        BY <1>1, <1>2, <2>2, <3>2, KeptOnCall
      <3> QED
        BY <2>6, <3>1, <3>2
    <2>8. ParentOf(f)' = p
      BY <1>4, <2>5, ParentReadyKept
    <2>9. Considerate(t)'
      BY <2>3, <2>4, <2>7, <2>8 DEF Considerate, Subject
    <2> QED
      BY <1>1, <1>2, <1>3, <1>4, <2>4, <2>9 DEF Careful
  <1>6. CASE ~\E f \in Created : Cancel(t, f)
    <2>1. \E e : e[1] # "return" /\ (agenda'[t] = <<>> \/ agenda'[t] = <<e>>)
      <3>1. ASSUME NEW f \in Created, UpdatePriority(t, f) \/ DropHandle(t, f)
            PROVE  \E e : e[1] # "return" /\ agenda'[t] = <<e>>
        <4>1. agenda'[t] = << <<"priority", f>> >> \/ agenda'[t] = << <<"release", f>> >>
          BY <3>1 DEF UpdatePriority, DropHandle, UserCall, FutureInv, FutureTypes
        <4>2. <<"priority", f>>[1] # "return" /\ <<"release", f>>[1] # "return"
          OBVIOUS
        <4> QED
          BY <4>1, <4>2
      <3>2. ASSUME ShutdownBackground(t) PROVE agenda'[t] = <<>>
        BY <3>2 DEF ShutdownBackground, UserCall, FutureInv, FutureTypes
      <3>3. <<"release", 0>>[1] # "return"
        OBVIOUS
      <3> QED
        BY <1>6, <3>1, <3>2, <3>3 DEF Intervenes
    <2>2. PICK e : e[1] # "return" /\ (agenda'[t] = <<>> \/ agenda'[t] = <<e>>)
      BY <2>1
    <2>3. ReturnsFirst(t)' /\ (agenda'[t] # <<>> => Head(agenda'[t]) = e)
      BY <2>2, ShortAgenda
    <2>4. Considerate(t)'
      BY <2>2, <2>3 DEF Considerate
    <2> QED
      BY <1>1, <1>2, <1>3, <1>4, <2>3, <2>4 DEF Careful
  <1> QED
    BY <1>5, <1>6

\* An entry at the end of a sequence.
LEMMA EndsWith ==
  ASSUME NEW S, NEW r \in Seq(S), NEW x \in S
  PROVE  /\ Len(r \o <<x>>) = Len(r) + 1 /\ (r \o <<x>>)[Len(r) + 1] = x
         /\ \A i \in 1 .. Len(r) : (r \o <<x>>)[i] = r[i]
  <1>1. Len(<<x>>) = 1 /\ <<x>> \in Seq(S) /\ <<x>>[1] = x
    OBVIOUS
  <1>2. PICK l : l = <<x>>
    OBVIOUS
  <1>3. Len(r \o l) = Len(r) + 1
    BY <1>1, <1>2
  <1>4. ASSUME NEW i \in 1 .. Len(r) PROVE (r \o l)[i] = r[i]
    BY <1>1, <1>2, <1>4
  <1>5. (r \o l)[Len(r) + 1] = x
    BY <1>1, <1>2
  <1> QED
    BY <1>2, <1>3, <1>4, <1>5

\* The tasks that are cleared have somebody who holds them, or nobody who waits for them.
LEMMA ShutdownLocks ==
  ASSUME LoneUser, FutureInv, MutexesUnlocked, NEW t \in Threads, ShutdownForeground(t)
  PROVE  /\ t \in Users /\ Careful(t)' /\ ReturnsFirst(t)' /\ Steady
         /\ dropped' \subseteq dropped \cup {f \in Created : ParentReady(f)}
         /\ \A u \in Threads \ {t} : agenda'[u] = agenda[u] /\ held'[u] = held[u]
  <1> DEFINE tasks == queue["foreground"]
             order == SetToSeq(tasks)
             releases == [i \in DOMAIN order |-> <<"release", order[i]>>]
             last == << <<"unlock", ForegroundMutex>> >>
             entries == releases \o last
  <1>1. /\ t \in Users /\ agenda[t] = <<>> /\ agenda' = [agenda EXCEPT ![t] = entries]
        /\ UNCHANGED <<created, kind, accepts, sources, result, on_ready, handles>>
        /\ dropped' = dropped \cup tasks
        /\ held' = [held EXCEPT ![t] = @ \cup {ForegroundMutex}]
        /\ \A f \in tasks : HeldWithout(f, 0) \/ on_ready[f] = <<>>
    BY DEF ShutdownForeground, Idle, StopForeground, LoneUser
  <1>2. tasks \subseteq Created /\ tasks \subseteq 0 .. MaxFutures /\ IsFiniteSet(tasks)
    <2>1. tasks \subseteq Created /\ Created \subseteq 0 .. MaxFutures
      BY FutureAssumption DEF FutureInv, FutureTypes, Created, Futures, Queued
    <2>2. IsFiniteSet(0 .. MaxFutures)
      BY FutureAssumption, FS_Interval
    <2> QED
      BY <2>1, <2>2, FS_Subset
  <1>3. \A f \in tasks : ParentReady(f)
    BY DEF FutureInv, QueuesLegal, MayCall, ParentReady, Queued
  <1>4. \A u \in Threads \ {t} : agenda'[u] = agenda[u] /\ held'[u] = held[u]
    BY <1>1 DEF FutureInv, FutureTypes, MutexesUnlocked
  <1>5. Steady /\ Created' = Created
    BY <1>1 DEF Steady, Created
  <1>6. held'[t] = {ForegroundMutex}
    <2>1. ToSet(agenda[t]) = {}
      BY <1>1 DEF ToSet
    <2>2. held[t] = {}
      BY <2>1 DEF MutexesUnlocked
    <2> QED
      BY <1>1, <2>2 DEF MutexesUnlocked
  <1>7. ASSUME NEW f \in tasks PROVE Harmless(ForegroundMutex, <<"release", f>>)'
    <2>1. f # ForegroundMutex
      BY <1>2 DEF Created, ForegroundMutex
    <2>2. ParentReady(f)'
      BY <1>2, <1>3, <1>5, ParentReadyKept
    <2>3. CASE on_ready[f] = <<>>
      BY <1>1, <2>1, <2>2, <2>3 DEF Harmless, Childless
    <2>4. CASE HeldWithout(f, 0)
      <3>1. \/ f \in handles
            \/ \E c \in Created \ {0} : kind[c] \in Continuations /\ ~Ready(c) /\ f \in sources[c]
            \/ \E g \in Created : \E e \in ToSet(on_ready[g]) : f \in Keeps(e)
            \/ \E e \in Posted : f \in Keeps(e)
        BY <2>4 DEF HeldWithout, Posted, ToSet
      <3>2. Posted \subseteq Posted'
        <4>1. ToSet(agenda[t]) = {}
          BY <1>1 DEF ToSet
        <4> QED
          BY <1>4, <4>1 DEF Posted
      <3>3. (\A e : Keeps(e)' = Keeps(e)) /\ \A c : Ready(c)' = Ready(c)
        BY <1>1 DEF Keeps, Ready
      <3>4. Kept(f, 0)'
        BY <1>1, <1>5, <3>1, <3>2, <3>3 DEF Kept
      <3> QED
        BY <2>1, <3>4 DEF Harmless
    <2> QED
      BY <1>1, <2>3, <2>4
  <1> HIDE DEF tasks
  <1>8. order \in Seq(tasks) /\ DOMAIN order = 1 .. Len(order) /\ Len(order) \in Nat
    BY <1>2, SeqOfSet
  <1> HIDE DEF order
  <1>9. /\ releases \in Seq({"release"} \X tasks) /\ Len(releases) = Len(order)
        /\ \A i \in 1 .. Len(order) : order[i] \in tasks /\ releases[i] = <<"release", order[i]>>
    <2>1. \A i \in 1 .. Len(order) : order[i] \in tasks
      BY <1>8
    <2> QED
      BY <1>8, <2>1
  <1>10. PICK z : z = entries
    OBVIOUS
  <1>11. /\ Len(z) = Len(order) + 1 /\ z[Len(z)] = <<"unlock", ForegroundMutex>>
         /\ \A i \in 1 .. Len(z) - 1 : \E f \in tasks : z[i] = <<"release", f>>
    <2>1. PICK r, x, S : /\ r = releases /\ x = <<"unlock", ForegroundMutex>>
                         /\ S = ({"release"} \X tasks) \cup {<<"unlock", ForegroundMutex>>}
      OBVIOUS
    <2>2. r \in Seq(S) /\ x \in S /\ z = r \o <<x>>
      BY <1>9, <1>10, <2>1
    <2>3. Len(r) = Len(order) /\ \A i \in 1 .. Len(r) : \E f \in tasks : r[i] = <<"release", f>>
      BY <1>9, <2>1
    <2> HIDE DEF releases, last, entries
    <2>4. /\ Len(z) = Len(r) + 1 /\ z[Len(r) + 1] = x
          /\ \A i \in 1 .. Len(r) : z[i] = r[i]
      BY <2>2, EndsWith
    <2>5. Len(r) \in Nat /\ Len(z) - 1 = Len(r)
      BY <1>8, <2>3, <2>4
    <2> QED
      BY <2>1, <2>3, <2>4, <2>5
  <1> HIDE DEF releases, last, entries
  <1>12. agenda'[t] = z
    BY <1>1, <1>10 DEF FutureInv, FutureTypes
  <1>13. Nth(agenda'[t], 1) = <<"unlock", ForegroundMutex>>
    <2>1. Len(z) + 1 - 1 = Len(z)
      BY <1>8, <1>11
    <2> QED
      BY <1>11, <1>12, <2>1 DEF Nth
  <1>14. ASSUME NEW d \in 2 .. Len(z)
         PROVE  \E f \in tasks : Nth(agenda'[t], d) = <<"release", f>>
    <2>1. Len(z) + 1 - d \in 1 .. Len(z) - 1
      BY <1>8, <1>11
    <2> QED
      BY <1>11, <1>12, <2>1 DEF Nth
  <1>15. Section(t, ForegroundMutex, 1)'
    <2>1. \A d : Nth(agenda[t], d)' = Nth(agenda'[t], d)
      BY DEF Nth
    <2>2. ASSUME NEW d \in 1 + 1 .. Len(agenda'[t])
          PROVE  Harmless(ForegroundMutex, Nth(agenda[t], d))'
      <3>1. PICK f \in tasks : Nth(agenda'[t], d) = <<"release", f>>
        BY <1>12, <1>14, <2>2
      <3>2. PICK e : e = <<"release", f>>
        OBVIOUS
      <3>3. Harmless(ForegroundMutex, e)' /\ Nth(agenda[t], d)' = e
        BY <1>7, <2>1, <3>1, <3>2
      <3> QED
        BY <3>3
    <2>3. 1 \in 1 .. Len(agenda'[t])
      BY <1>8, <1>11, <1>12
    <2> QED
      BY <1>6, <1>13, <2>1, <2>2, <2>3 DEF Section
  <1>16. \A d \in 1 .. Len(z) : Nth(agenda'[t], d)[1] # "return"
    <2> TAKE d \in 1 .. Len(z)
    <2>1. CASE d = 1
      BY <1>13, <2>1
    <2>2. CASE d # 1
      <3>1. d \in 2 .. Len(z)
        BY <1>8, <1>11, <2>2
      <3> QED
        BY <1>14, <3>1
    <2> QED
      BY <2>1, <2>2
  <1>17. ReturnsFirst(t)'
    <2> SUFFICES ASSUME NEW d \in 1 .. Len(agenda'[t]) - 1 PROVE Nth(agenda'[t], d)[1] # "return"
      BY DEF ReturnsFirst, Nth
    <2>1. d \in 1 .. Len(z)
      BY <1>8, <1>11, <1>12
    <2> QED
      BY <1>16, <2>1
  <1>18. Considerate(t)'
    <2>1. Len(z) \in 1 .. Len(z) /\ Len(z) + 1 - Len(z) = 1
      BY <1>8, <1>11
    <2>2. Nth(agenda'[t], Len(z)) = Head(agenda'[t])
      BY <1>12, <2>1 DEF Nth
    <2> QED
      BY <1>16, <2>1, <2>2 DEF Considerate
  <1>19. ForegroundMutex \in Mutexes
    BY FutureAssumption DEF Mutexes, ForegroundMutex
  <1> QED
    BY <1>1, <1>2, <1>3, <1>4, <1>5, <1>15, <1>17, <1>18, <1>19 DEF Careful, InSection

\* Every step keeps the locks apart.
LEMMA NextLocksInv ==
  ASSUME LoneUser, FutureInv, CompletionInv, MutexesUnlocked, LocksInv, [Next]_vars
  PROVE  LocksInv'
  <1>0. FutureInv' /\ CompletionInv'
    BY NextFutureInv, NextCompletionInv
  <1>1. \A f \in dropped : ParentReady(f)
    BY DEF LocksInv
  <1>2. dropped \subseteq Created
    BY DEF FutureInv, FutureTypes
  \* A step that only one thread is about.
  <1>3. ASSUME NEW t \in Threads, Steady, ReturnsFirst(t)',
               \A u \in Threads \ {t} : agenda'[u] = agenda[u] /\ held'[u] = held[u],
               dropped' \subseteq dropped \cup {f \in Created : ParentReady(f)},
               IF t \in Users THEN Careful(t)' ELSE Unburdened(t)' /\ HoldersStay
        PROVE  LocksInv'
    <2>1. \A f \in dropped' : ParentReady(f)'
      BY <1>1, <1>2, <1>3, ParentReadyKept
    <2>2. ASSUME NEW u \in Threads \ {t} PROVE ReturnsFirst(u)'
      BY <1>3, <2>2 DEF LocksInv, ReturnsFirst, Nth
    <2>3. ASSUME NEW u \in Threads \ Users, u # t PROVE Unburdened(u)'
      BY <1>3, <2>3, UnburdenedStays DEF LocksInv
    <2>4. ASSUME NEW u \in Users, u # t PROVE Careful(u)'
      <3>1. u \in Threads /\ t \notin Users
        BY <2>4, FutureAssumption DEF LoneUser
      <3> QED
        BY <1>3, <2>4, <3>1, CarefulStays DEF LocksInv
    <2> QED
      BY <1>3, <2>1, <2>2, <2>3, <2>4 DEF LocksInv
  <1>4. ASSUME NEW t \in Threads, Moves(t) \/ Spends(t) PROVE LocksInv'
    <2>1. Steady /\ dropped' = dropped /\ agenda[t] # <<>>
      BY <1>4, MovesForm, SpendsForm DEF Steady, Bystanders, Created, Ready
    <2>2. \A u \in Threads \ {t} : agenda'[u] = agenda[u] /\ held'[u] = held[u]
      <3>1. \E entries \in Seq(Entries) : Proceed(t, entries)
        BY <1>4, MovesForm, SpendsForm
      <3>2. \A u \in Threads \ {t} : agenda'[u] = agenda[u]
        BY <2>1, <3>1, ProceedFacts DEF FutureInv
      <3>3. \/ held' = held \/ \E S : held' = [held EXCEPT ![t] = S]
        BY <1>4 DEF Moves, Spends, AttachReady, AttachPending, Submit, PushTask, RunCalls, Return,
                    PushFails, RunSkipped, RunPropagates, BodyReturns, ReturnIgnored, Release,
                    Unlock, Reprioritise, RescheduleTask, Arrive, ArriveLate, Continue
      <3> QED
        BY <3>2, <3>3 DEF MutexesUnlocked
    <2>3. ReturnsFirst(t)
      BY DEF LocksInv
    <2>4. CASE t \in Users
      <3>1. Careful(t)
        BY <2>4 DEF LocksInv
      <3>2. CASE held[t] = {}
        BY <1>0, <1>1, <1>3, <1>4, <2>1, <2>2, <2>3, <2>4, <3>1, <3>2, FreeSteps DEF Careful
      <3>3. CASE InSection(t)
        BY <1>0, <1>3, <1>4, <2>1, <2>2, <2>3, <2>4, <3>3, SectionSteps DEF InSection
      <3> QED
        BY <3>1, <3>2, <3>3 DEF Careful
    <2>5. CASE t \notin Users
      <3>1. /\ Unburdened(t)' /\ ReturnsFirst(t)'
            /\ Head(agenda[t])[1] \notin {"attach", "priority", "reprioritise"}
            /\ Return(t) => ParentReady(Subject(t))
        BY <1>4, <2>3, <2>5, OthersSteps DEF LocksInv
      <3>2. HoldersStay
        BY <1>0, <1>4, <3>1, HoldersStayAfter
      <3> QED
        BY <1>3, <2>1, <2>2, <2>5, <3>1, <3>2
    <2> QED
      BY <2>4, <2>5
  <1>5. ASSUME NEW t \in Threads, NEW f \in Created, Take(t, f) PROVE LocksInv'
    <2>1. /\ HoldersStay /\ Steady /\ held' = held /\ dropped' = dropped
          /\ agenda[t] = <<>> /\ agenda'[t] = << <<"run", f>> >>
          /\ \A u \in Threads \ {t} : agenda'[u] = agenda[u]
      BY <1>0, <1>5, TakeHolds
    <2>2. PICK e : e = <<"run", f>>
      OBVIOUS
    <2>3. agenda'[t] = <<e>> /\ <<e>> # <<>>
      BY <2>1, <2>2
    <2>4. ReturnsFirst(t)' /\ Head(agenda'[t]) = e
      BY <2>3, ShortAgenda
    <2>5. held'[t] = {}
      <3>1. ToSet(agenda[t]) = {}
        BY <2>1 DEF ToSet
      <3> QED
        BY <2>1, <3>1 DEF MutexesUnlocked
    <2>6. Careful(t)'
      BY <2>2, <2>4, <2>5 DEF Careful, Considerate
    <2>7. Unburdened(t)'
      <3>1. ToSet(agenda'[t]) = {e}
        BY <2>3 DEF ToSet
      <3>2. Plain(e)'
        BY <2>2 DEF Plain
      <3> QED
        BY <2>5, <3>1, <3>2 DEF Unburdened
    <2> QED
      BY <1>3, <2>1, <2>4, <2>6, <2>7
  <1>6. ASSUME NEW t \in Threads, Makes(t) \/ Intervenes(t) \/ ShutdownForeground(t) PROVE LocksInv'
    BY <1>3, <1>6, MakesLocks, IntervenesLocks, ShutdownLocks
  <1>7. CASE UNCHANGED vars
    <2>1. UNCHANGED <<created, kind, accepts, sources, result, on_ready, queue, handles, agenda,
                      held, dropped>>
      BY <1>7 DEF vars, futureVars, executorVars
    <2>2. \A p, child : Kept(p, child) => Kept(p, child)'
      BY <2>1 DEF Kept, Keeps, Posted, Created, Ready
    <2>3. Steady /\ HoldersStay
      BY <2>1, <2>2 DEF Steady, HoldersStay, Created
    <2>4. \A f \in dropped' : ParentReady(f)'
      BY <1>1, <1>2, <2>1, <2>3, ParentReadyKept
    <2>5. \A t \in Threads : ReturnsFirst(t)'
      BY <2>1 DEF LocksInv, ReturnsFirst, Nth
    <2>6. \A t \in Threads \ Users : Unburdened(t)'
      BY <2>1, <2>3, UnburdenedStays DEF LocksInv
    <2>7. \A u \in Users : Careful(u)'
      BY <2>1, <2>3, CarefulStays, FutureAssumption DEF LocksInv
    <2> QED
      BY <2>4, <2>5, <2>6, <2>7 DEF LocksInv
  <1> QED
    BY <1>4, <1>5, <1>6, <1>7, NextForms DEF Moves

\* Apart locks make no cycle: only the user holds any, and needs none of them.
LEMMA LocksInvImplies ==
  ASSUME LoneUser, FutureInv, MutexesUnlocked, LocksInv
  PROVE  NoLockCycle
  <1>1. ASSUME NEW u \in Users PROVE held[u] \cap Needs(u) = {}
    <2>0. u \in Threads /\ agenda[u] \in Seq(Entries)
      BY FutureAssumption DEF FutureInv, FutureTypes
    <2> SUFFICES ASSUME InSection(u) PROVE held[u] \cap Needs(u) = {}
      BY DEF LocksInv, Careful
    <2>1. PICK m \in Mutexes, k \in Nat : Section(u, m, k)
      BY DEF InSection
    <2>2. PICK e : e = Head(agenda[u])
      OBVIOUS
    <2>3. agenda[u] # <<>> /\ (e = <<"unlock", m>> \/ Harmless(m, e))
      <3>1. PICK n : n = Len(agenda[u])
        OBVIOUS
      <3>2. n \in Nat /\ k \in 1 .. n
        BY <2>0, <2>1, <3>1 DEF Section
      <3>3. agenda[u] # <<>> /\ e = Nth(agenda[u], n)
        BY <2>0, <2>2, <3>1, <3>2 DEF Nth
      <3>4. n = k \/ n \in k + 1 .. n
        BY <3>2
      <3> QED
        BY <2>1, <3>1, <3>3, <3>4 DEF Section
    <2>4. m \notin Needs(u)
      <3>1. CASE e[1] = "unlock"
        BY <2>2, <2>3, <3>1 DEF Needs, Doing
      <3>2. CASE e[1] = "release" /\ e[2] # m
        BY <2>2, <2>3, <3>2 DEF Needs, Doing, Subject
      <3>3. CASE e[1] = "return" /\ m = ForegroundMutex
        <4>1. Subject(u) \in Created
          BY <2>0, <2>2, <2>3, <3>3, HeadLegal
        <4>2. Subject(u) # m
          BY <3>3, <4>1 DEF Created, ForegroundMutex
        <4> QED
          BY <2>2, <2>3, <3>3, <4>2 DEF Needs, Doing
      <3>4. CASE e[1] = "reprioritise" /\ m # ForegroundMutex
        BY <2>2, <2>3, <3>4 DEF Needs, Doing
      <3> QED
        BY <2>3, <3>1, <3>2, <3>3, <3>4 DEF Harmless
    <2> QED
      BY <2>1, <2>4 DEF Section
  <1>2. \A t \in Threads \ Users : held[t] = {}
    BY DEF LocksInv, Unburdened
  <1> SUFFICES ASSUME NEW T \in (SUBSET Threads) \ {{}}
               PROVE  \E t \in T : \A u \in T : held[u] \cap Needs(t) = {}
    BY DEF NoLockCycle
  <1>3. CASE \E t \in T : t \in Users
    <2>1. PICK t \in T : t \in Users
      BY <1>3
    <2>2. \A u \in T : u = t \/ held[u] = {}
      BY <1>2, <2>1 DEF LoneUser
    <2> QED
      BY <1>1, <2>1, <2>2
  <1>4. CASE \A t \in T : t \notin Users
    <2>1. PICK t \in T : TRUE
      OBVIOUS
    <2>2. ASSUME NEW u \in T PROVE held[u] = {}
      BY <1>2, <1>4
    <2>3. \A u \in T : held[u] \cap Needs(t) = {}
      BY <2>2
    <2> QED
      BY <2>1, <2>3
  <1> QED
    BY <1>3, <1>4

\* No thread waits for a mutex that it holds, nor several for each other.  Return releases the
\* parent and UpdatePriority calls the executor with the future's own mutex held, and the
\* executor's Shutdown destroys tasks under its mutex; callbacks and destructors then bring
\* calls of other futures onto the same thread.
THEOREM NoThreadsDeadlock ==
  ASSUME LoneUser
  PROVE  Spec => []NoLockCycle
  <1>1. Init => MutexesUnlocked
    BY DEF Init, MutexesUnlocked
  <1>2. FutureInv /\ MutexesUnlocked /\ [Next]_vars => MutexesUnlocked'
    BY MutexesNext
  <1>3. Init => LocksInv
    <2> SUFFICES ASSUME Init PROVE LocksInv
      OBVIOUS
    <2>1. /\ dropped = {}
          /\ \A t \in Threads : agenda[t] = <<>> /\ held[t] = {} /\ ToSet(agenda[t]) = {}
      BY DEF Init, ToSet
    <2>2. ASSUME NEW t \in Threads, NEW d \in 1 .. Len(agenda[t]) - 1 PROVE FALSE
      <3>1. Len(agenda[t]) = 0
        BY <2>1
      <3> QED
        BY <2>2, <3>1
    <2> QED
      BY <2>1, <2>2, FutureAssumption
         DEF LocksInv, ReturnsFirst, Unburdened, Careful, Considerate
  <1>4. FutureInv /\ CompletionInv /\ MutexesUnlocked /\ LocksInv /\ [Next]_vars => LocksInv'
    BY NextLocksInv
  <1>5. FutureInv /\ MutexesUnlocked /\ LocksInv => NoLockCycle
    BY LocksInvImplies
  <1> QED
    BY <1>1, <1>2, <1>3, <1>4, <1>5, FutureInvariant, CompletionInvariant, PTL DEF Spec
=============================================================================
