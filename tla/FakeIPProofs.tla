---------------------------- MODULE FakeIPProofs ----------------------------
(***************************************************************************)
(* The safety properties of the FakeIP store, from the invariant and the   *)
(* lemmas of FakeIPLemmas; and that the closed forms of the model are what *)
(* the loops of the code compute.                                          *)
(***************************************************************************)
EXTENDS FakeIPLemmas, FiniteSetTheorems

\* The addresses are finitely many, so that the sets of them are counted.
LEMMA AddrsCounted == IsFiniteSet(Addrs) /\ Counting
<1>1. IsFiniteSet(Addrs) /\ Cardinality(Addrs) = N
  BY Apart, FS_Interval DEF Addrs
<1>2. ASSUME NEW S \in SUBSET Addrs
      PROVE  /\ IsFiniteSet(S) /\ Cardinality(S) \in 0..N /\ (Cardinality(S) = 0 <=> S = {})
  <2>1. IsFiniteSet(S) /\ Cardinality(S) <= N
    BY <1>1, FS_Subset, Zenon
  <2>2. Cardinality(S) \in Nat /\ (Cardinality(S) = 0 <=> S = {})
    BY <2>1, FS_CardinalityType, FS_EmptySet, Zenon
  <2>3. N \in Nat
    BY Apart
  <2> QED
    BY <2>1, <2>2, <2>3
<1>3. ASSUME NEW a \in Addrs PROVE Cardinality({a}) = 1
  BY FS_Singleton, Zenon
<1>4. ASSUME NEW S \in SUBSET Addrs, NEW T \in SUBSET Addrs, S \cap T = {}
      PROVE  Cardinality(S \cup T) = Cardinality(S) + Cardinality(T)
  <2>1. Cardinality(S \cap T) = 0
    BY <1>4, FS_EmptySet, Zenon
  <2>2. /\ Cardinality(S \cup T) = Cardinality(S) + Cardinality(T) - Cardinality(S \cap T)
        /\ Cardinality(S) \in 0..N /\ Cardinality(T) \in 0..N
    BY <1>2, FS_Union, Zenon
  <2> QED
    BY <2>1, <2>2, Apart
<1> QED
  BY <1>1, <1>2, <1>3, <1>4, Zenon DEF Counting

-----------------------------------------------------------------------------
(***************************************************************************)
(* The loops of writePending, restorePendingLocked and Create, which the   *)
(* model states in closed form: an empty loop does nothing, and one more   *)
(* iteration takes the closed form to the closed form.                     *)
(***************************************************************************)

\* putFakeIP: one record, in both directions.
putFakeIP(db, a, d) ==
    LET was == db.domain[a]
        cleaned == IF was # NoDomain /\ db.addr[was] = a
                   THEN [db.addr EXCEPT ![was] = Unset] ELSE db.addr
    IN  [domain |-> [db.domain EXCEPT ![a] = d], addr |-> [cleaned EXCEPT ![d] = a], meta |-> db.meta]

\* One record of restorePendingLocked.
restoreFakeIP(batch, a) ==
    LET d == writing.domain[a]
    IN  IF batch.domain[a] # NoDomain \/ batch.addr[d] # Unset THEN batch
        ELSE [domain |-> [batch.domain EXCEPT ![a] = d], addr |-> [batch.addr EXCEPT ![d] = a],
              meta |-> batch.meta, count |-> batch.count + 1]

\* A pick that goes on to one more address.
Picked(f, d, a) == [x \in DOMAIN f \cup {d} |-> IF x = d THEN a ELSE f[x]]

\* The loop of writePending over no records leaves the database alone.
THEOREM FakeIPPutNone ==
    ASSUME NEW db \in Disks, NEW batch \in Batches, NEW last \in Picks(batch, {})
    PROVE  putRecords(db, batch, {}, last) = db
<1>1. DOMAIN last = {}
  BY Zenon DEF Picks
<1>2. /\ db.domain \in [Addrs -> Domains \cup {NoDomain}]
      /\ db.addr \in [Domains -> Addrs \cup {Unset}]
      /\ db = [domain |-> db.domain, addr |-> db.addr, meta |-> db.meta]
  BY Zenon DEF Disks
<1>3. [a \in Addrs |-> IF a \in {} THEN batch.domain[a] ELSE db.domain[a]] = db.domain
  BY <1>2, Zenon
<1>4. [d \in Domains |->
        IF d \in DOMAIN last THEN last[d]
        ELSE IF db.addr[d] \in {} /\ db.domain[db.addr[d]] = d THEN Unset ELSE db.addr[d]] = db.addr
  BY <1>1, <1>2, Zenon
<1> QED
  BY <1>2, <1>3, <1>4, Zenon DEF putRecords

\* One more putFakeIP in the loop of writePending, for a record not yet written.
THEOREM FakeIPPutOneMore ==
    ASSUME NEW db \in Disks, NEW batch \in Batches, NEW S \in SUBSET Recorded(batch),
           NEW last \in Picks(batch, S), NEW a \in Recorded(batch), a \notin S
    PROVE  /\ Picked(last, batch.domain[a], a) \in Picks(batch, S \cup {a})
           /\ putFakeIP(putRecords(db, batch, S, last), a, batch.domain[a]) =
                putRecords(db, batch, S \cup {a}, Picked(last, batch.domain[a], a))
<1> DEFINE D == batch.domain[a]
           more == Picked(last, D, a)
           dm == [b \in Addrs |-> IF b \in S THEN batch.domain[b] ELSE db.domain[b]]
           ad == [d \in Domains |->
                    IF d \in DOMAIN last THEN last[d]
                    ELSE IF db.addr[d] \in S /\ db.domain[db.addr[d]] = d THEN Unset ELSE db.addr[d]]
           dm2 == [b \in Addrs |-> IF b \in S \cup {a} THEN batch.domain[b] ELSE db.domain[b]]
           ad2 == [d \in Domains |->
                    IF d \in DOMAIN more THEN more[d]
                    ELSE IF db.addr[d] \in S \cup {a} /\ db.domain[db.addr[d]] = d THEN Unset
                    ELSE db.addr[d]]
           was == dm[a]
           cleaned == IF was # NoDomain /\ ad[was] = a THEN [ad EXCEPT ![was] = Unset] ELSE ad
<1>1. /\ a \in Addrs /\ D \in Domains /\ S \subseteq Addrs
      /\ db.domain \in [Addrs -> Domains \cup {NoDomain}]
      /\ db.addr \in [Domains -> Addrs \cup {Unset}]
  BY Fields DEF Recorded, Disks
<1>2. /\ last \in [{batch.domain[b] : b \in S} -> S]
      /\ \A d \in DOMAIN last : batch.domain[last[d]] = d
  BY Zenon DEF Picks
<1>3. /\ DOMAIN more = DOMAIN last \cup {D} /\ more[D] = a
      /\ \A d \in DOMAIN last : d # D => more[d] = last[d]
  BY Zenon DEF Picked
<1>4. more \in Picks(batch, S \cup {a})
  <2>1. DOMAIN more = {batch.domain[b] : b \in S \cup {a}}
    BY <1>2, <1>3
  <2>2. \A d \in DOMAIN more : more[d] \in S \cup {a} /\ batch.domain[more[d]] = d
    BY <1>2, <1>3, Zenon
  <2>3. more = [d \in DOMAIN more |-> more[d]]
    BY Zenon DEF Picked
  <2> HIDE DEF more
  <2>4. more \in [{batch.domain[b] : b \in S \cup {a}} -> S \cup {a}]
    BY <2>1, <2>2, <2>3, Zenon
  <2> QED
    BY <2>2, <2>4, Zenon DEF Picks
<1>5. was = db.domain[a]
  BY <1>1, Zenon
<1>6. [dm EXCEPT ![a] = D] = dm2
  BY <1>1, Zenon
<1>7. [cleaned EXCEPT ![D] = a] = ad2
  <2>1. cleaned = [d \in Domains |-> IF d = was /\ ad[d] = a THEN Unset ELSE ad[d]]
    <3>1. ad = [d \in Domains |-> ad[d]] /\ NoDomain \notin Domains
      BY Apart, Zenon
    <3>2. was \in Domains \cup {NoDomain}
      BY <1>1, <1>5, Zenon
    <3> HIDE DEF ad, was
    <3> QED
      BY <3>1, <3>2, Zenon
  <2>2. ASSUME NEW d \in Domains
        PROVE  (IF d = D THEN a ELSE IF d = was /\ ad[d] = a THEN Unset ELSE ad[d]) = ad2[d]
    <3>1. CASE d = D
      BY <1>3, <3>1, Zenon
    <3>2. CASE d # D /\ d \in DOMAIN last
      <4>1. ad[d] = last[d] /\ last[d] # a
        BY <1>2, <3>2, Zenon
      <4>2. ad2[d] = last[d]
        BY <1>3, <3>2, Zenon
      <4> QED
        BY <3>2, <4>1, <4>2, Zenon
    <3>3. CASE d # D /\ d \notin DOMAIN last
      <4>1. d \notin DOMAIN more
        BY <1>3, <3>3, Zenon
      <4>2. ad[d] = IF db.addr[d] \in S /\ db.domain[db.addr[d]] = d THEN Unset ELSE db.addr[d]
        BY <3>3, Zenon
      <4>3. ad2[d] = IF db.addr[d] \in S \cup {a} /\ db.domain[db.addr[d]] = d THEN Unset ELSE db.addr[d]
        BY <4>1, Zenon
      <4> HIDE DEF ad, ad2, was
      <4> QED
        BY <1>1, <1>5, <3>3, <4>2, <4>3, Apart, Zenon
    <3> QED
      BY <3>1, <3>2, <3>3, Zenon
  <2> HIDE DEF cleaned, was
  <2>3. [cleaned EXCEPT ![D] = a] =
          [d \in Domains |-> IF d = D THEN a ELSE IF d = was /\ ad[d] = a THEN Unset ELSE ad[d]]
    BY <1>1, <2>1, Zenon
  <2> QED
    BY <2>2, <2>3, Zenon
<1>8. putRecords(db, batch, S, last) = [domain |-> dm, addr |-> ad, meta |-> db.meta]
  BY Zenon DEF putRecords
<1>9. putRecords(db, batch, S \cup {a}, more) = [domain |-> dm2, addr |-> ad2, meta |-> db.meta]
  BY Zenon DEF putRecords
<1>10. putFakeIP([domain |-> dm, addr |-> ad, meta |-> db.meta], a, D) =
         [domain |-> [dm EXCEPT ![a] = D], addr |-> [cleaned EXCEPT ![D] = a], meta |-> db.meta]
  <2> DEFINE X == [domain |-> dm, addr |-> ad, meta |-> db.meta]
  <2> HIDE DEF dm, ad
  <2>1. X.domain = dm /\ X.addr = ad /\ X.meta = db.meta
    OBVIOUS
  <2> HIDE DEF X
  <2>2. putFakeIP(X, a, D) =
          [domain |-> [dm EXCEPT ![a] = D], addr |-> [cleaned EXCEPT ![D] = a], meta |-> db.meta]
    BY <2>1, Zenon DEF putFakeIP
  <2> QED
    BY <2>2, Zenon DEF X
<1> QED
  BY <1>4, <1>6, <1>7, <1>8, <1>9, <1>10, Zenon

\* The loop of restorePendingLocked over no records leaves the batch alone.
THEOREM FakeIPRestoreNone ==
    ASSUME NEW batch \in Batches, NEW first \in Picks(writing, Restorable(batch, {}))
    PROVE  restoreRecords(batch, first) = batch
<1> DEFINE kept == {first[d] : d \in DOMAIN first}
<1>1. DOMAIN first = {}
  BY Zenon DEF Picks, Restorable
<1>2. kept = {} /\ Cardinality(kept) = 0
  <2>1. kept = {}
    BY <1>1, Zenon
  <2> QED
    BY <2>1, FS_EmptySet, Zenon
<1>3. /\ batch.domain \in [Addrs -> Domains \cup {NoDomain}]
      /\ batch.addr \in [Domains -> Addrs \cup {Unset, Invalid}] /\ batch.count \in Nat
      /\ batch = [domain |-> batch.domain, addr |-> batch.addr, meta |-> batch.meta, count |-> batch.count]
  BY Fields, Apart
<1>4. [a \in Addrs |-> IF a \in kept THEN writing.domain[a] ELSE batch.domain[a]] = batch.domain
  BY <1>2, <1>3, Zenon
<1>5. [d \in Domains |-> IF d \in DOMAIN first THEN first[d] ELSE batch.addr[d]] = batch.addr
  BY <1>1, <1>3, Zenon
<1>6. batch.count + Cardinality(kept) = batch.count
  BY <1>2, <1>3
<1> QED
  BY <1>3, <1>4, <1>5, <1>6, Zenon DEF restoreRecords

\* One more record in the loop of restorePendingLocked: the pick goes on to it
\* if the batch has neither direction of it, and else stays.
THEOREM FakeIPRestoreOneMore ==
    ASSUME NEW batch \in Batches, writing \in Batches, NEW S \in SUBSET Recorded(writing),
           NEW first \in Picks(writing, Restorable(batch, S)),
           NEW a \in Recorded(writing), a \notin S
    PROVE  \E more \in Picks(writing, Restorable(batch, S \cup {a})) :
              restoreFakeIP(restoreRecords(batch, first), a) = restoreRecords(batch, more)
<1> DEFINE D == writing.domain[a]
           R == Restorable(batch, S)
           R2 == Restorable(batch, S \cup {a})
           kept == {first[d] : d \in DOMAIN first}
           dm == [b \in Addrs |-> IF b \in kept THEN writing.domain[b] ELSE batch.domain[b]]
           ad == [d \in Domains |-> IF d \in DOMAIN first THEN first[d] ELSE batch.addr[d]]
           n == batch.count + Cardinality(kept)
           X == restoreRecords(batch, first)
<1>1. /\ a \in Addrs /\ D \in Domains /\ S \subseteq Addrs
      /\ \A b \in S : writing.domain[b] \in Domains
  BY Fields, Zenon DEF Recorded
<1>2. /\ first \in [{writing.domain[b] : b \in R} -> R]
      /\ \A d \in DOMAIN first : writing.domain[first[d]] = d
  BY Zenon DEF Picks
<1>3. R \subseteq S /\ R2 = R \cup (IF batch.domain[a] = NoDomain /\ batch.addr[D] = Unset THEN {a} ELSE {})
  BY Zenon DEF Restorable
<1>4. kept \subseteq R /\ a \notin kept /\ DOMAIN first \subseteq Domains
  BY <1>1, <1>2, <1>3
<1>5. X = [domain |-> dm, addr |-> ad, meta |-> batch.meta, count |-> n]
  BY Zenon DEF restoreRecords
<1>6. X.domain = dm /\ X.addr = ad /\ X.meta = batch.meta /\ X.count = n
  <2> HIDE DEF dm, ad, n, X
  <2> QED
    BY <1>5, Zenon
<1>7. /\ X.domain[a] = batch.domain[a]
      /\ X.addr[D] = IF D \in DOMAIN first THEN first[D] ELSE batch.addr[D]
  <2>1. dm[a] = batch.domain[a]
    BY <1>1, <1>4, Zenon
  <2>2. ad[D] = IF D \in DOMAIN first THEN first[D] ELSE batch.addr[D]
    BY <1>1, Zenon
  <2> HIDE DEF dm, ad, X
  <2> QED
    BY <1>6, <2>1, <2>2, Zenon
<1>8. CASE batch.domain[a] # NoDomain \/ batch.addr[D] # Unset \/ D \in DOMAIN first
  <2>1. X.domain[a] # NoDomain \/ X.addr[D] # Unset
    <3>1. D \in DOMAIN first => first[D] \in Addrs
      BY <1>1, <1>2, <1>3, Zenon
    <3> HIDE DEF X, D
    <3> QED
      BY <1>7, <1>8, <3>1, Apart, Zenon
  <2>2. restoreFakeIP(X, a) = X
    <3> HIDE DEF X
    <3> QED
      BY <2>1, Zenon DEF restoreFakeIP
  <2>3. {writing.domain[b] : b \in R2} = {writing.domain[b] : b \in R}
    <3>1. CASE R2 = R
      BY <3>1, Zenon
    <3>2. CASE R2 # R
      <4>1. R2 = R \cup {a} /\ D \in DOMAIN first
        BY <1>3, <1>8, <3>2, Zenon
      <4>2. D \in {writing.domain[b] : b \in R}
        BY <1>2, <4>1, Zenon
      <4> QED
        BY <4>1, <4>2, Zenon
    <3> QED
      BY <3>1, <3>2, Zenon
  <2>4. first \in Picks(writing, R2)
    <3>1. R \subseteq R2
      BY <1>3, Zenon
    <3> HIDE DEF R, R2
    <3>2. first \in [{writing.domain[b] : b \in R2} -> R2]
      BY <1>2, <2>3, <3>1, Zenon
    <3> QED
      BY <1>2, <3>2, Zenon DEF Picks
  <2> QED
    BY <2>2, <2>4, Zenon
<1>9. CASE batch.domain[a] = NoDomain /\ batch.addr[D] = Unset /\ D \notin DOMAIN first
  <2> DEFINE more == Picked(first, D, a)
             kept2 == {more[d] : d \in DOMAIN more}
             dm2 == [b \in Addrs |-> IF b \in kept2 THEN writing.domain[b] ELSE batch.domain[b]]
             ad2 == [d \in Domains |-> IF d \in DOMAIN more THEN more[d] ELSE batch.addr[d]]
  <2>1. /\ DOMAIN more = DOMAIN first \cup {D} /\ more[D] = a
        /\ \A d \in DOMAIN first : more[d] = first[d]
        /\ more = [d \in DOMAIN more |-> more[d]]
    BY <1>9, Zenon DEF Picked
  <2> HIDE DEF more
  <2>2. R2 = R \cup {a}
    BY <1>3, <1>9, Zenon
  <2>3. more \in Picks(writing, R2)
    <3>1. DOMAIN more = {writing.domain[b] : b \in R2}
      BY <1>2, <2>1, <2>2
    <3>2. \A d \in DOMAIN more : more[d] \in R2 /\ writing.domain[more[d]] = d
      BY <1>2, <2>1, <2>2, Zenon
    <3> HIDE DEF R2
    <3>3. more \in [{writing.domain[b] : b \in R2} -> R2]
      BY <2>1, <3>1, <3>2, Zenon
    <3> QED
      BY <3>2, <3>3, Zenon DEF Picks
  <2>4. kept2 = kept \cup {a}
    BY <2>1
  <2>5. Cardinality(kept2) = Cardinality(kept) + 1 /\ Cardinality(kept) \in Nat
    <3>1. IsFiniteSet(kept)
      BY <1>1, <1>3, <1>4, AddrsCounted, FS_Subset, Zenon
    <3> HIDE DEF kept, kept2
    <3> QED
      BY <1>4, <2>4, <3>1, FS_AddElement, FS_CardinalityType, Zenon
  <2>6. [dm EXCEPT ![a] = D] = dm2
    BY <1>1, <2>4, Zenon
  <2>7. [ad EXCEPT ![D] = a] = ad2
    BY <1>1, <2>1, Zenon
  <2>8. n + 1 = batch.count + Cardinality(kept2)
    <3>1. batch.count \in Nat
      BY Fields, Apart
    <3> HIDE DEF kept, kept2
    <3> QED
      BY <2>5, <3>1
  <2>9. X.domain[a] = NoDomain /\ X.addr[D] = Unset
    <3> HIDE DEF X, D
    <3> QED
      BY <1>7, <1>9, Zenon
  <2>10. restoreFakeIP(X, a) = [domain |-> [dm EXCEPT ![a] = D], addr |-> [ad EXCEPT ![D] = a],
                                meta |-> batch.meta, count |-> n + 1]
    <3> HIDE DEF X, dm, ad, n
    <3> QED
      BY <1>6, <2>9, Zenon DEF restoreFakeIP
  <2>11. restoreRecords(batch, more) = [domain |-> dm2, addr |-> ad2, meta |-> batch.meta,
                                        count |-> batch.count + Cardinality(kept2)]
    BY Zenon DEF restoreRecords
  <2>12. restoreFakeIP(X, a) = restoreRecords(batch, more)
    BY <2>6, <2>7, <2>8, <2>10, <2>11, Zenon
  <2> QED
    BY <2>3, <2>12, Zenon
<1> QED
  BY <1>8, <1>9, Zenon

\* N times as much keeps the order.
LEMMA TimesMonotonic ==
    ASSUME NEW p \in Int, NEW q \in Int, p <= q
    PROVE  N * p <= N * q
<1>1. \A k \in Nat, n \in Nat : n * k >= 0
  OBVIOUS
<1>2. q - p \in Nat /\ N \in Nat
  BY Apart
<1>3. N * (q - p) >= 0
  BY <1>1, <1>2, Zenon
<1>4. N * (q - p) = N * q - N * p /\ N * q \in Int /\ N * p \in Int
  BY Apart
<1> QED
  BY <1>3, <1>4

\* A remainder is unique.
LEMMA RemainderUnique ==
    ASSUME NEW q \in Int, NEW r \in 0..N - 1, NEW p \in Int, NEW s \in 0..N - 1,
           N * q + r = N * p + s
    PROVE  r = s
<1>1. N \in Int /\ N > 0 /\ N * q \in Int /\ N * p \in Int
  BY Apart
<1>2. CASE q >= p + 1
  <2>1. N * q >= N * (p + 1)
    BY <1>2, TimesMonotonic
  <2>2. N * (p + 1) = N * p + N
    BY <1>1
  <2> QED
    BY <1>1, <2>1, <2>2, SMTT(30)
<1>3. CASE p >= q + 1
  <2>1. N * p >= N * (q + 1)
    BY <1>3, TimesMonotonic
  <2>2. N * (q + 1) = N * q + N
    BY <1>1
  <2> QED
    BY <1>1, <2>1, <2>2
<1>4. CASE p = q
  BY <1>1, <1>4
<1> QED
  BY <1>2, <1>3, <1>4

\* The remainder of the next number.
LEMMA RemainderNext ==
    ASSUME NEW x \in Nat
    PROVE  (x + 1) % N = IF (x % N) + 1 = N THEN 0 ELSE (x % N) + 1
<1> DEFINE q == x \div N
           r == x % N
           p == (x + 1) \div N
           s == (x + 1) % N
<1>1. r \in 0..N - 1 /\ x = N * q + r /\ q \in Nat
  BY Apart
<1>2. s \in 0..N - 1 /\ x + 1 = N * p + s /\ p \in Nat
  BY Apart
<1> HIDE DEF q, r, p, s
<1>3. N \in Int /\ N > 0 /\ N * q \in Int /\ N * p \in Int
  BY <1>1, <1>2, Apart
<1>4. CASE r + 1 = N
  <2>1. N * (q + 1) = N * q + N
    BY <1>1, <1>3
  <2>2. N * (q + 1) + 0 = N * p + s
    BY <1>1, <1>2, <1>3, <1>4, <2>1, SMTT(30)
  <2>3. 0 \in 0..N - 1 /\ q + 1 \in Int /\ p \in Int
    BY <1>1, <1>2, <1>3
  <2>4. s = 0
    BY <1>2, <2>2, <2>3, RemainderUnique, Zenon
  <2> QED
    BY <1>4, <2>4, Zenon DEF r, s
<1>5. CASE r + 1 # N
  <2>1. N * q + (r + 1) = N * p + s
    BY <1>1, <1>2, <1>3
  <2>2. r + 1 \in 0..N - 1 /\ q \in Int /\ p \in Int
    BY <1>1, <1>2, <1>3, <1>5
  <2>3. r + 1 = s
    BY <1>2, <2>1, <2>2, RemainderUnique, Zenon
  <2> QED
    BY <1>5, <2>3, Zenon DEF r, s
<1> QED
  BY <1>4, <1>5, Zenon

\* The address n allocations ahead.
Ahead(a, n) == ((a + n - 1) % N) + 1

\* One more nextAddress in the loop of Create that looks for the address up to
\* which addresses are reserved: the first and every further one lead where
\* ReservedAhead, the closed form of Reserved of them, says.
THEOREM FakeIPReserveOneMore ==
    ASSUME NEW a \in 0..N
    PROVE  /\ Ahead(a, 1) = nextAddress(a)
           /\ \A n \in Nat \ {0} : Ahead(a, n + 1) = nextAddress(Ahead(a, n))
           /\ ReservedAhead(a) = Ahead(a, Reserved)
<1>1. N \in Nat /\ N > 0 /\ a \in Nat
  BY Apart
<1>2. Ahead(a, 1) = nextAddress(a)
  <2>1. Ahead(a, 1) = (a % N) + 1
    BY <1>1 DEF Ahead
  <2>2. CASE a < N
    <3>1. a % N = a
      BY <1>1, <2>2
    <3> QED
      BY <1>1, <2>1, <2>2, <3>1 DEF nextAddress, Addrs
  <2>3. CASE a = N
    <3>1. N = N * 1 + 0 /\ N = N * (N \div N) + (N % N) /\ N % N \in 0..N - 1 /\ N \div N \in Int
      BY <1>1
    <3>2. 0 \in 0..N - 1 /\ N * 1 + 0 = N * (N \div N) + (N % N)
      BY <1>1, <3>1
    <3>3. N % N = 0
      BY <3>1, <3>2, RemainderUnique
    <3> QED
      BY <1>1, <2>1, <2>3, <3>3 DEF nextAddress, Addrs
  <2> QED
    BY <1>1, <2>2, <2>3
<1>3. ASSUME NEW n \in Nat \ {0} PROVE Ahead(a, n + 1) = nextAddress(Ahead(a, n))
  <2> DEFINE x == a + n - 1
  <2>1. x \in Nat /\ x + 1 = a + (n + 1) - 1
    BY <1>1
  <2>2. Ahead(a, n) = (x % N) + 1 /\ Ahead(a, n + 1) = ((x + 1) % N) + 1
    BY <2>1, Zenon DEF Ahead
  <2> HIDE DEF x
  <2>3. x % N \in 0..N - 1
    BY <1>1, <2>1
  <2>4. (x + 1) % N = IF (x % N) + 1 = N THEN 0 ELSE (x % N) + 1
    BY <2>1, RemainderNext, Zenon
  <2> QED
    BY <1>1, <2>2, <2>3, <2>4, SMTT(30) DEF nextAddress, Addrs
<1>4. ReservedAhead(a) = Ahead(a, Reserved)
  BY Zenon DEF ReservedAhead, Ahead
<1> QED
  BY <1>2, <1>3, <1>4, Zenon

-----------------------------------------------------------------------------
(***************************************************************************)
(* The theorems.                                                           *)
(***************************************************************************)

\* The inductive invariant, whatever order the callers, the flushes with their
\* failures, Reset, Close and crashes come in: the locks, the locals of Create,
\* the counts and the metadata are right, and the batches and the database agree
\* with one another and with what every Create has found.
THEOREM FakeIPInvariant == Spec => []Inv
<1>1. Init => Inv
  BY ShapeInit, ContentInit, AddrsCounted, Zenon DEF Inv
<1>2. Inv /\ [Next]_vars => Inv'
  <2> SUFFICES ASSUME Inv, [Next]_vars PROVE Inv'
    OBVIOUS
  <2>1. Base /\ (failures = 0 => flush # "failed")
    BY Zenon DEF Inv, Shape, CloseShape
  <2> QED
    BY <2>1, ShapeNext, ContentNext, AddrsCounted, Zenon DEF Inv
<1> QED
  BY <1>1, <1>2, PTL DEF Spec

\* The variables keep their types: enqueueLocked, restorePendingLocked and
\* FakeIPReset count at most one entry per address and one for the metadata, and
\* never less than none.
THEOREM FakeIPTypeCorrect == Spec => []TypeOK
<1>1. Inv => TypeOK
  BY Zenon DEF Inv, Shape, Base
<1> QED
  BY <1>1, FakeIPInvariant, PTL

\* The count of a batch is right, and with a flush_interval no write is forgotten
\* before CacheFile.Close: a batch with something in it has its timer armed or a
\* loopFlush that is about to flush it.
THEOREM FakeIPPendingIsFlushed == Spec => []PendingIsFlushed
<1>1. Inv => PendingIsFlushed
  BY Zenon DEF Inv, Shape, Base
<1> QED
  BY <1>1, FakeIPInvariant, PTL

\* What Create allocated stays visible in both directions while it moves from
\* the pending batch to the one being written, to disk, or back after a failure.
THEOREM FakeIPAllocatedIsVisible == Spec => []AllocatedIsVisible
<1>1. Inv => AllocatedIsVisible
  <2> SUFFICES ASSUME Inv, NEW d \in Domains, given[d] # Unset, ~torn
               PROVE  FakeIPLoadDomain(d) = given[d] /\ FakeIPLoad(given[d]) = d
    BY Zenon DEF AllocatedIsVisible
  <2>1. Base /\ Content
    BY Zenon DEF Inv, Shape
  <2>2. given[d] \in Addrs /\ FakeIPLoad(given[d]) = d
    BY <2>1, LoadTypes, Zenon DEF Content, LayerInv, GivenIsLoaded
  <2> QED
    BY <2>1, <2>2, LoadIsKnown, Zenon
<1> QED
  BY <1>1, FakeIPInvariant, PTL

\* The two buckets agree after every transaction of writePending, in whichever
\* order it goes through the batch, and after every crash.
THEOREM FakeIPDiskAgrees == Spec => []DiskAgrees
<1>1. Inv => DiskAgrees
  BY Zenon DEF Inv, Shape, Content
<1> QED
  BY <1>1, FakeIPInvariant, PTL

\* An address that was given to another domain is not returned for the old one,
\* unless a write failed or a Reset was torn.
THEOREM FakeIPOldDomainInvalidated == Spec => []OldDomainInvalidatedIfWritten
<1>1. Inv => OldDomainInvalidatedIfWritten
  <2> SUFFICES ASSUME Inv, failures = 0, ~torn, NEW d \in Domains, FakeIPLoadDomain(d) \in Addrs
               PROVE  FakeIPLoad(FakeIPLoadDomain(d)) = d
    BY Zenon DEF OldDomainInvalidatedIfWritten, OldDomainInvalidated
  <2> DEFINE a == FakeIPLoadDomain(d)
  <2>1. /\ Paired(pending) /\ Paired(writing) /\ Marked /\ DiskAgrees
    BY Zenon DEF Inv, Shape, Content, LayerInv
  <2>2. a \in Addrs
    OBVIOUS
  <2>3. CASE pending.addr[d] # Unset
    <3>1. pending.addr[d] = a
      BY <2>3, Zenon DEF FakeIPLoadDomain, CachedAddress
    <3> HIDE DEF a
    <3>2. pending.domain[a] = d
      BY <2>1, <2>2, <3>1 DEF Paired
    <3> QED
      BY <3>2, Apart, Zenon DEF FakeIPLoad, CachedDomain, a
  <2>4. CASE pending.addr[d] = Unset /\ writing.addr[d] # Unset
    <3>1. writing.addr[d] = a
      BY <2>4, Zenon DEF FakeIPLoadDomain, CachedAddress
    <3> HIDE DEF a
    <3>2. writing.domain[a] = d
      BY <2>1, <2>2, <3>1, Zenon DEF Paired
    <3>3. pending.domain[a] = NoDomain
      BY <2>1, <2>2, <2>4, <3>2, Apart, Zenon DEF Marked, Beneath
    <3> QED
      BY <3>2, <3>3, Apart, Zenon DEF FakeIPLoad, CachedDomain, a
  <2>5. CASE pending.addr[d] = Unset /\ writing.addr[d] = Unset
    <3>1. disk.addr[d] = a
      BY <2>5, Zenon DEF FakeIPLoadDomain, CachedAddress
    <3> HIDE DEF a
    <3>2. disk.domain[a] = d
      BY <2>1, <2>2, <3>1, Zenon DEF DiskAgrees
    <3>3. writing.domain[a] = NoDomain
      BY <2>1, <2>2, <2>5, <3>2, Zenon DEF Marked
    <3>4. pending.domain[a] = NoDomain
      BY <2>1, <2>2, <2>5, <3>2, <3>3, Zenon DEF Marked, Beneath
    <3> QED
      BY <3>2, <3>3, <3>4, Zenon DEF FakeIPLoad, CachedDomain, a
  <2> QED
    BY <2>3, <2>4, <2>5, Zenon
<1> QED
  BY <1>1, FakeIPInvariant, PTL

\* What CacheFile.Close leaves on disk, whichever Creates and Resets ran beside
\* Store.Close and whichever Flush wrote it: every allocation, and the address
\* that the next Start goes on from, unless a write failed or a Create had the
\* lock after the last Flush began.
THEOREM FakeIPCloseSavesAll == Spec => []CloseSavesAll
<1>1. Inv => CloseSavesAll
  <2> SUFFICES ASSUME Inv, closing = "closed", failures = 0, sealed
               PROVE  /\ pending.count = 0
                      /\ \A d \in Domains : given[d] # Unset /\ ~torn => disk.addr[d] = given[d]
                      /\ \/ disk.meta \in {current, snapshot}
                         \/ disk.meta = Unset /\ \A d \in Domains : given[d] = Unset
    BY Zenon DEF CloseSavesAll
  <2>1. Base /\ Content /\ CloseShape
    BY Zenon DEF Inv, Shape
  <2>2. pending.count = 0 /\ flush \in {"none", "written"}
    <3>1. flush \in {"none", "writing", "written", "failed", "deleting"}
      BY <2>1, Zenon DEF Base, TypeOK
    <3> QED
      BY <2>1, <3>1, Zenon DEF CloseShape
  <2>3. pending \in Batches /\ pending.count = Entries(pending)
    BY <2>1, Zenon DEF Base, TypeOK, PendingIsFlushed, Entries
  <2>4. pending.meta = Unset /\ \A a \in Addrs : pending.domain[a] = NoDomain
    BY <2>2, <2>3, AddrsCounted, CountsNothing, Zenon
  <2>5. flush = "none" => writing.meta = Unset /\ \A a \in Addrs : writing.domain[a] = NoDomain
    BY <2>1, EmptyBatch, Zenon DEF Base, LockShape
  <2>6. Metadata = disk.meta
    BY <2>1, <2>2, <2>4, <2>5, Zenon DEF Metadata, CloseShape
  <2>7. MetadataKnown
    <3>1. \A p \in Procs : pc[p] \notin Locked
      BY <2>1, FakeIPAssumption, Zenon DEF Base, LockShape, Nobody
    <3>2. \A p \in Procs : pc[p] \notin Allocating
      BY <3>1, Zenon DEF Locked, Allocating
    <3> QED
      BY <2>1, <3>2, Zenon DEF CloseShape, MetadataSaved
  <2>8. ASSUME NEW d \in Domains, given[d] # Unset, ~torn PROVE disk.addr[d] = given[d]
    <3>1. given[d] \in Addrs /\ FakeIPLoad(given[d]) = d /\ WrittenOnDisk
      BY <2>1, <2>8, LoadTypes, Zenon DEF Content, LayerInv, GivenIsLoaded
    <3>2. disk.domain[given[d]] = d
      BY <2>2, <2>4, <2>5, <3>1, Zenon DEF FakeIPLoad, CachedDomain, WrittenOnDisk
    <3> QED
      BY <2>1, <2>8, <3>1, <3>2, Zenon DEF Content, DiskAgrees
  <2> QED
    BY <2>2, <2>6, <2>7, <2>8, Zenon DEF MetadataKnown
<1> QED
  BY <1>1, FakeIPInvariant, PTL
=============================================================================
