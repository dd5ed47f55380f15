------------------------ MODULE AccountLedgerProofs -------------------------
(***************************************************************************)
(* The wallets of users who are merged hold what the ledger says, for any  *)
(* number of users, purchases, calls, jobs and merges at one time, as long *)
(* as nobody's money moved while that user was being merged away.          *)
(*                                                                         *)
(* RowsWritten is what holds in any case: the rows a job needs are there,  *)
(* no two merges hold one row, no two requests work on one job.            *)
(* Undisturbed is what the merges rely on without looking: the rows they   *)
(* hold are all the rows of their user, the wallet they have read is still *)
(* the user's, and a user with a row has a wallet.                         *)
(***************************************************************************)
EXTENDS AccountProofs

allRows == {k \in EntryKey : hasEntry(k)}

RowsWritten ==
  /\ IsFiniteSet(allRows)
  /\ \A j \in Job : jobUser[j] # NoUser \/ settled(j) => hasEntry(reserveKey(j))
  /\ \A h \in Handler :
       /\ call[h].at \in {"insertJob", "settle"} => hasEntry(reserveKey(call[h].about))
       /\ \A j \in Job : jobRow(j) \in call[h].entries => hasEntry(reserveKey(j))
  /\ \A h \in Handler : at(h, "settle") => ~ settled(call[h].about)
  /\ \A h, g \in Handler : g # h => call[h].entries \cap call[g].entries = {}
  /\ \A h, g \in Handler : g # h /\ call[h].at \in jobSteps /\ call[g].at \in jobSteps
        => call[h].about # call[g].about

Matches(u) ==
  ensured(u).available = ledgerAvailable(u) /\ ensured(u).reserved = ledgerReserved(u)

(* What a request that moves money, or merges, takes for granted.           *)
Unaware(h) ==
  LET u == call[h].user  x == call[h].about IN
  /\ at(h, "insertJob") => entry[reserveKey(x)].user = u
  /\ at(h, "settle") => jobUser[x] = u
  /\ call[h].at \in {"llm", "refund"} => wallet[u] # None
  /\ call[h].at \in {"copyWallet", "dropWallet"} => call[h].entries = ownedBy(u)
  /\ at(h, "dropWallet") => \/ call[h].copied = wallet[u]
                            \/ wallet[u] = None /\ call[h].copied = EmptyWallet

Undisturbed ==
  /\ \A u \in User : Matches(u)
  /\ \A k \in allRows : wallet[entry[k].user] # None
  /\ \A j \in Job : jobUser[j] # NoUser => entry[reserveKey(j)].user = jobUser[j]
  /\ \A h \in Handler : Unaware(h)

LedgerInv == RowsWritten /\ (overtaken = {} => Undisturbed)

-----------------------------------------------------------------------------
(* What rows are worth.                                                     *)
LEMMA WorthOfMore ==
  ASSUME NEW S, IsFiniteSet(S), NEW k, k \notin S
  PROVE  /\ IsFiniteSet(S \cup {k}) /\ worth(S \cup {k}) = worth(S) + Price
         /\ worth(S) \in Nat /\ worth(S \cup {k}) \in Nat
<1>1. /\ IsFiniteSet(S \cup {k})
      /\ Cardinality(S \cup {k}) = Cardinality(S) + 1 /\ Cardinality(S) \in Nat
  BY FS_AddElement, FS_CardinalityType
<1>2. \A n \in Nat : Price * (n + 1) = Price * n + Price /\ Price * n \in Nat
  BY PriceAssumption
<1> QED
  BY <1>1, <1>2, PriceAssumption DEF worth

LEMMA WorthOfBoth ==
  ASSUME NEW S, IsFiniteSet(S), NEW T, IsFiniteSet(T), S \cap T = {}
  PROVE  /\ IsFiniteSet(S \cup T) /\ worth(S \cup T) = worth(S) + worth(T)
         /\ worth(S) \in Nat /\ worth(T) \in Nat
<1>1. Cardinality(S \cap T) = 0
  BY FS_EmptySet
<1>2. /\ IsFiniteSet(S \cup T) /\ Cardinality(S) \in Nat /\ Cardinality(T) \in Nat
      /\ Cardinality(S \cup T) = Cardinality(S) + Cardinality(T)
  <2>1. /\ IsFiniteSet(S \cup T)
        /\ Cardinality(S \cup T) = Cardinality(S) + Cardinality(T) - Cardinality(S \cap T)
    BY FS_Union
  <2>2. Cardinality(S) \in Nat /\ Cardinality(T) \in Nat
    BY FS_CardinalityType
  <2> QED
    BY <1>1, <2>1, <2>2
<1>3. \A m, n \in Nat : Price * (m + n) = Price * m + Price * n /\ Price * n \in Nat
  BY PriceAssumption
<1> QED
  BY <1>2, <1>3 DEF worth

LEMMA WorthOfNone == worth({}) = 0
BY FS_EmptySet, PriceAssumption DEF worth

LEMMA RowsOfUserFinite ==
  ASSUME RowsWritten, NEW u
  PROVE  /\ IsFiniteSet(rowsOf(u)) /\ IsFiniteSet(credits(u)) /\ IsFiniteSet(debits(u))
         /\ IsFiniteSet(holds(u))
         /\ worth(credits(u)) \in Nat /\ worth(debits(u)) \in Nat /\ worth(holds(u)) \in Nat
<1>1. rowsOf(u) \subseteq allRows /\ IsFiniteSet(allRows)
  BY DEF RowsWritten, rowsOf, allRows
<1>2. credits(u) \subseteq rowsOf(u) /\ debits(u) \subseteq rowsOf(u) /\ holds(u) \subseteq rowsOf(u)
  BY DEF credits, debits, holds
<1>3. /\ IsFiniteSet(rowsOf(u)) /\ IsFiniteSet(credits(u)) /\ IsFiniteSet(debits(u))
      /\ IsFiniteSet(holds(u))
  BY <1>1, <1>2, FS_Subset
<1>4. \A n \in Nat : Price * n \in Nat
  BY PriceAssumption
<1> QED
  BY <1>3, <1>4, FS_CardinalityType DEF worth

-----------------------------------------------------------------------------
(* What a new row does to what the ledger says.                             *)
LEMMA RowAppended ==
  ASSUME CoinTypes, NEW k \in EntryKey, NEW u \in User, NEW n \in {Price, -Price}, append(k, u, n)
  PROVE  /\ ~ hasEntry(k)
         /\ entry'[k].user = u /\ entry'[k].amount = n /\ entry'[k] # None
         /\ \A i \in EntryKey : i # k => entry'[i] = entry[i]
         /\ allRows' = allRows \cup {k}
         /\ \A v : rowsOf(v)' = IF v = u THEN rowsOf(v) \cup {k} ELSE rowsOf(v)
<1>1. ~ hasEntry(k) /\ entry' = [entry EXCEPT ![k] = [user |-> u, amount |-> n]]
  BY DEF append
<1>2. /\ entry'[k] = [user |-> u, amount |-> n]
      /\ \A i \in EntryKey : i # k => entry'[i] = entry[i]
  BY <1>1 DEF CoinTypes
<1>3. entry'[k].user = u /\ entry'[k].amount = n
  BY <1>2
<1>4. entry'[k] # None
  BY AppendedIsRow
<1>5. allRows' = allRows \cup {k}
  BY <1>2, <1>4 DEF allRows, hasEntry
<1>6. \A v : rowsOf(v)' = IF v = u THEN rowsOf(v) \cup {k} ELSE rowsOf(v)
  BY <1>1, <1>2, <1>3, <1>4 DEF rowsOf, hasEntry
<1> QED
  BY <1>1, <1>2, <1>3, <1>4, <1>5, <1>6

LEMMA AvailableAppended ==
  ASSUME CoinTypes, RowsWritten, NEW k \in EntryKey, NEW u \in User, NEW n \in {Price, -Price},
         append(k, u, n)
  PROVE  \A v \in User : ledgerAvailable(v)' =
           ledgerAvailable(v) + IF v # u \/ (n = -Price /\ k[1] = "capture") THEN 0 ELSE n
<1> SUFFICES ASSUME NEW v \in User
             PROVE  ledgerAvailable(v)' =
                      ledgerAvailable(v) + IF v # u \/ (n = -Price /\ k[1] = "capture") THEN 0 ELSE n
  OBVIOUS
<1>1. /\ entry'[k].amount = n /\ k \notin rowsOf(v)
      /\ \A i \in rowsOf(v) : entry'[i] = entry[i]
      /\ rowsOf(v)' = IF v = u THEN rowsOf(v) \cup {k} ELSE rowsOf(v)
  BY RowAppended DEF rowsOf
<1>2. Price # -Price /\ Price \in Nat /\ n \in Int
  BY PriceAssumption
<1>3. /\ IsFiniteSet(credits(v)) /\ IsFiniteSet(debits(v))
      /\ worth(credits(v)) \in Nat /\ worth(debits(v)) \in Nat
  BY RowsOfUserFinite
<1>4. k \notin credits(v) /\ k \notin debits(v)
  BY <1>1 DEF credits, debits
<1>5. CASE v # u
  <2>1. credits(v)' = credits(v) /\ debits(v)' = debits(v)
    BY <1>1, <1>5 DEF credits, debits
  <2> QED
    BY <1>3, <1>5, <2>1 DEF ledgerAvailable, worth
<1>6. CASE v = u /\ n = Price
  <2>1. credits(v)' = credits(v) \cup {k} /\ debits(v)' = debits(v)
    BY <1>1, <1>2, <1>6 DEF credits, debits
  <2>2. worth(credits(v))' = worth(credits(v)) + Price
    BY <1>3, <1>4, <2>1, WorthOfMore DEF worth
  <2>3. worth(debits(v))' = worth(debits(v))
    BY <2>1 DEF worth
  <2> QED
    BY <1>2, <1>3, <1>6, <2>2, <2>3 DEF ledgerAvailable
<1>7. CASE v = u /\ n = -Price /\ k[1] # "capture"
  <2>1. credits(v)' = credits(v) /\ debits(v)' = debits(v) \cup {k}
    BY <1>1, <1>2, <1>7 DEF credits, debits
  <2>2. worth(debits(v))' = worth(debits(v)) + Price
    BY <1>3, <1>4, <2>1, WorthOfMore DEF worth
  <2>3. worth(credits(v))' = worth(credits(v))
    BY <2>1 DEF worth
  <2> QED
    BY <1>2, <1>3, <1>7, <2>2, <2>3 DEF ledgerAvailable
<1>8. CASE v = u /\ n = -Price /\ k[1] = "capture"
  <2>1. credits(v)' = credits(v) /\ debits(v)' = debits(v)
    BY <1>1, <1>2, <1>8 DEF credits, debits
  <2> QED
    BY <1>3, <1>8, <2>1 DEF ledgerAvailable, worth
<1> QED
  BY <1>5, <1>6, <1>7, <1>8

(* A key of no job, or the key that opens the hold of a job.                *)
LEMMA ReservedAppended ==
  ASSUME CoinTypes, RowsWritten, NEW k \in EntryKey, NEW u \in User, NEW n \in {Price, -Price},
         append(k, u, n), k[1] \notin {"release", "capture"}
  PROVE  /\ \A j \in Job : settled(j)' <=> settled(j)
         /\ \A v \in User : ledgerReserved(v)' =
              ledgerReserved(v) + IF v = u /\ k[1] = "reserve" THEN Price ELSE 0
<1>1. \A j \in Job : settled(j)' <=> settled(j)
  <2>1. \A j : releaseKey(j)[1] = "release" /\ captureKey(j)[1] = "capture"
    BY DEF releaseKey, captureKey
  <2>2. \A j \in Job : /\ releaseKey(j) \in EntryKey /\ releaseKey(j) # k
                       /\ captureKey(j) \in EntryKey /\ captureKey(j) # k
    BY <2>1, KeysAreKeys
  <2> QED
    BY <2>2, RowAppended DEF settled, hasEntry
<1>2. ASSUME NEW v \in User
      PROVE  ledgerReserved(v)' =
               ledgerReserved(v) + IF v = u /\ k[1] = "reserve" THEN Price ELSE 0
  <2>1. /\ k \notin rowsOf(v)
        /\ rowsOf(v)' = IF v = u THEN rowsOf(v) \cup {k} ELSE rowsOf(v)
    BY RowAppended DEF rowsOf
  <2>2. \A i \in EntryKey : i[1] = "reserve" => i[2] \in Job /\ i = reserveKey(i[2])
    BY DEF EntryKey, reserveKey
  <2>3. rowsOf(v) \subseteq EntryKey
    BY DEF rowsOf
  <2>4. IsFiniteSet(holds(v)) /\ worth(holds(v)) \in Nat /\ k \notin holds(v)
    BY <2>1, RowsOfUserFinite DEF holds
  <2>5. CASE v # u \/ k[1] # "reserve"
    <3>1. holds(v)' = holds(v)
      BY <1>1, <2>1, <2>2, <2>3, <2>5 DEF holds
    <3> QED
      BY <2>4, <2>5, <3>1 DEF ledgerReserved, worth
  <2>6. CASE v = u /\ k[1] = "reserve"
    <3>1. ~ settled(k[2])
      BY <2>2, <2>6, RowAppended DEF RowsWritten
    <3>2. holds(v)' = holds(v) \cup {k}
      BY <1>1, <2>1, <2>2, <2>3, <2>6, <3>1 DEF holds
    <3>3. worth(holds(v))' = worth(holds(v)) + Price
      BY <2>4, <3>2, WorthOfMore DEF worth
    <3> QED
      BY <2>6, <3>3 DEF ledgerReserved
  <2> QED
    BY <2>5, <2>6
<1> QED
  BY <1>1, <1>2

LEMMA JobSettled ==
  ASSUME CoinTypes, NEW j \in Job, NEW k \in {releaseKey(j), captureKey(j)},
         NEW u \in User, NEW n \in {Price, -Price}, append(k, u, n)
  PROVE  /\ k \in EntryKey /\ k[1] # "reserve"
         /\ \A i \in Job : settled(i)' <=> settled(i) \/ i = j
<1>1. k \in EntryKey /\ k[1] # "reserve"
  <2>1. \A x : releaseKey(x)[1] = "release" /\ captureKey(x)[1] = "capture"
    BY DEF releaseKey, captureKey
  <2> QED
    BY <2>1, KeysAreKeys
<1>2. \A i \in Job : settled(i)' <=> settled(i) \/ i = j
  BY <1>1, RowAppended, KeysAreKeys, KeysApart DEF settled, hasEntry
<1> QED
  BY <1>1, <1>2

(* A key that settles a job with an open hold of w.                         *)
LEMMA HoldClosed ==
  ASSUME CoinTypes, RowsWritten, NEW j \in Job, NEW k \in {releaseKey(j), captureKey(j)},
         NEW u \in User, NEW n \in {Price, -Price}, append(k, u, n),
         ~ settled(j), NEW w \in User, reserveKey(j) \in rowsOf(w)
  PROVE  /\ \A i \in Job : settled(i)' <=> settled(i) \/ i = j
         /\ ledgerReserved(w) >= Price
         /\ \A v \in User : ledgerReserved(v)' = ledgerReserved(v) - IF v = w THEN Price ELSE 0
<1>0. k \in EntryKey /\ k[1] # "reserve"
  BY JobSettled
<1>1. \A i \in Job : settled(i)' <=> settled(i) \/ i = j
  BY JobSettled
<1>2. \A i \in EntryKey : i[1] = "reserve" => i[2] \in Job /\ i = reserveKey(i[2])
  BY DEF EntryKey, reserveKey
<1>3. reserveKey(j)[1] = "reserve" /\ reserveKey(j)[2] = j
  BY DEF reserveKey
<1>4. ASSUME NEW v \in User PROVE holds(v)' = holds(v) \ {reserveKey(j)}
  <2>1. rowsOf(v)' = IF v = u THEN rowsOf(v) \cup {k} ELSE rowsOf(v)
    BY <1>0, RowAppended
  <2>2. rowsOf(v) \subseteq EntryKey
    BY DEF rowsOf
  <2>3. ASSUME NEW i PROVE i \in holds(v)' <=> i \in holds(v) \ {reserveKey(j)}
    <3>1. i \in rowsOf(v) /\ i[1] = "reserve" => (i[2] = j <=> i = reserveKey(j)) /\ i[2] \in Job
      BY <1>2, <1>3, <2>2
    <3>2. i \in holds(v) <=> i \in rowsOf(v) /\ i[1] = "reserve" /\ ~ settled(i[2])
      BY DEF holds
    <3>3. i \in holds(v)' <=> i \in rowsOf(v)' /\ i[1] = "reserve" /\ ~ settled(i[2])'
      BY DEF holds
    <3> QED
      BY <1>0, <1>1, <2>1, <3>1, <3>2, <3>3
  <2> QED
    BY <2>3
<1>5. reserveKey(j) \in holds(w)
  BY <1>3 DEF holds
<1>6. \A v \in User : v # w => reserveKey(j) \notin holds(v)
  BY DEF holds, rowsOf
<1>7. \A v \in User : v # w => ledgerReserved(v)' = ledgerReserved(v) /\ ledgerReserved(v) \in Nat
  BY <1>4, <1>6, RowsOfUserFinite DEF ledgerReserved, worth
<1>8. ledgerReserved(w)' + Price = ledgerReserved(w) /\ ledgerReserved(w)' \in Nat
  <2> DEFINE rest == holds(w) \ {reserveKey(j)}
  <2>1. IsFiniteSet(rest) /\ reserveKey(j) \notin rest /\ holds(w) = rest \cup {reserveKey(j)}
    BY <1>5, RowsOfUserFinite, FS_Subset
  <2> HIDE DEF rest
  <2>2. worth(rest \cup {reserveKey(j)}) = worth(rest) + Price /\ worth(rest) \in Nat
    BY <2>1, WorthOfMore
  <2>3. ledgerReserved(w)' = worth(rest)
    BY <1>4 DEF ledgerReserved, worth, rest
  <2> QED
    BY <2>1, <2>2, <2>3 DEF ledgerReserved
<1> QED
  BY <1>1, <1>7, <1>8, PriceAssumption

-----------------------------------------------------------------------------
(* The rows jobs need.                                                      *)

(* A step that takes the request h on to r.                                 *)
LEMMA RowsGoOn ==
  ASSUME IdentityInv, RowsWritten, NEW h \in Handler, NEW r \in Request,
         call' = [call EXCEPT ![h] = r],
         IsFiniteSet(allRows)',
         \A k \in EntryKey : hasEntry(k) => entry'[k] # None,
         \A j \in Job : settled(j)' => settled(j) \/ (at(h, "settle") /\ call[h].about = j),
         \A j \in Job : jobUser'[j] # NoUser => entry'[reserveKey(j)] # None,
         \/ r.entries \subseteq call[h].entries
         \/ /\ r.entries = ownedBy(call[h].user) /\ call[h].user \in User
            /\ \A g \in Handler \ {h} : call[g].entries \cap r.entries = {},
         r.at \in {"insertJob", "settle"} => entry'[reserveKey(r.about)] # None,
         r.at = "settle" => ~ settled(r.about) /\ ~ at(h, "settle"),
         r.at \in jobSteps => r.about \in Job,
         r.at \in jobSteps => \/ call[h].at \in jobSteps /\ r.about = call[h].about
                              \/ \A g \in Handler : call[g].about # r.about
  PROVE  RowsWritten'
<1>1. \A g \in Handler : call'[g] = IF g = h THEN r ELSE call[g]
  BY DEF IdentityInv, IdentityTypes
<1>2. \A g \in Handler : call[g].at \in jobSteps => call[g].about \in Job
  BY DEF IdentityInv, RequestsFit, Fits
<1>3. \A j \in Job : reserveKey(j) \in EntryKey
  BY KeysAreKeys
<1>4. ASSUME NEW j \in Job, jobUser'[j] # NoUser \/ settled(j)' PROVE entry'[reserveKey(j)] # None
  BY <1>3, <1>4 DEF RowsWritten, at
<1>5. ASSUME NEW g \in Handler, call'[g].at \in {"insertJob", "settle"}
      PROVE  entry'[reserveKey(call'[g].about)] # None
  <2>1. CASE g = h
    BY <1>1, <1>5, <2>1
  <2>2. CASE g # h
    <3>1. call'[g] = call[g] /\ call[g].about \in Job /\ hasEntry(reserveKey(call[g].about))
      BY <1>1, <1>2, <1>5, <2>2 DEF RowsWritten, jobSteps
    <3> QED
      BY <1>3, <3>1
  <2> QED
    BY <2>1, <2>2
<1>6. ASSUME NEW g \in Handler, NEW j \in Job, jobRow(j) \in call'[g].entries
      PROVE  entry'[reserveKey(j)] # None
  <2>1. \A f \in Handler : jobRow(j) \in call[f].entries => hasEntry(reserveKey(j))
    BY DEF RowsWritten
  <2>2. jobRow(j) \in ownedBy(call[h].user) /\ call[h].user \in User => hasEntry(reserveKey(j))
    <3>1. jobRow(j) \notin EntryKey
      BY DEF jobRow, EntryKey
    <3>2. \A i : jobRow(i) = jobRow(j) => i = j
      BY DEF jobRow
    <3>3. jobRow(j) \in ownedBy(call[h].user) => jobUser[j] = call[h].user
      BY <3>1, <3>2 DEF ownedBy, rowsOf
    <3> QED
      BY <3>3, NobodyIsNoRow DEF RowsWritten
  <2> QED
    BY <1>1, <1>3, <1>6, <2>1, <2>2
<1>7. ASSUME NEW g \in Handler, call'[g].at = "settle" PROVE ~ settled(call[g].about)'
  <2>1. CASE g = h
    <3>1. r.about \in Job
      BY <1>1, <1>2, <1>7, <2>1 DEF jobSteps
    <3> QED
      BY <1>1, <1>7, <2>1, <3>1
  <2>2. CASE g # h
    <3>1. call'[g] = call[g] /\ at(g, "settle") /\ ~ settled(call[g].about) /\ call[g].about \in Job
      BY <1>1, <1>2, <1>7, <2>2 DEF RowsWritten, jobSteps, at
    <3>2. at(h, "settle") => call[h].about # call[g].about
      BY <2>2, <3>1 DEF RowsWritten, jobSteps, at
    <3> QED
      BY <3>1, <3>2
  <2> QED
    BY <2>1, <2>2
<1>8. ASSUME NEW f \in Handler, NEW g \in Handler, g # f
      PROVE  call'[f].entries \cap call'[g].entries = {}
  <2>1. call[f].entries \cap call[g].entries = {}
    BY <1>8 DEF RowsWritten
  <2> QED
    BY <1>1, <1>8, <2>1
<1>9. ASSUME NEW f \in Handler, NEW g \in Handler, g # f, call'[f].at \in jobSteps,
             call'[g].at \in jobSteps
      PROVE  call'[f].about # call'[g].about
  <2>1. call[f].at \in jobSteps /\ call[g].at \in jobSteps => call[f].about # call[g].about
    BY <1>9 DEF RowsWritten
  <2> QED
    BY <1>1, <1>9, <2>1
<1>10. IsFiniteSet(allRows)'
  OBVIOUS
<1> QED
  BY <1>4, <1>5, <1>6, <1>7, <1>8, <1>9, <1>10 DEF RowsWritten, hasEntry, at

-----------------------------------------------------------------------------
(* Steps that write no money and no job.                                    *)
LEMMA LedgerGoesOn ==
  ASSUME IdentityInv, LedgerInv, NEW h \in Handler, NEW r \in Request,
         call' = [call EXCEPT ![h] = r], CoinsKept, UNCHANGED jobUser,
         overtaken' = {} => overtaken = {},
         \/ r.entries \subseteq call[h].entries
         \/ /\ r.entries = ownedBy(call[h].user) /\ call[h].user \in User
            /\ \A g \in Handler \ {h} : call[g].entries \cap r.entries = {},
         r.at \in jobSteps =>
           /\ r.about \in Job /\ r.at # "insertJob"
           /\ \A g \in Handler : call[g].about # r.about,
         r.at = "settle" =>
           /\ ~ at(h, "settle") /\ ~ settled(r.about)
           /\ jobUser[r.about] = r.user /\ r.user # NoUser,
         r.at \in {"llm", "refund"} => at(h, "llm") /\ r.user = call[h].user,
         r.at = "copyWallet" => r.entries = ownedBy(r.user),
         r.at = "dropWallet" =>
           /\ at(h, "copyWallet") /\ r.user = call[h].user
           /\ r.entries = call[h].entries /\ r.copied = wallet[r.user]
  PROVE  LedgerInv'
<1> USE DEF CoinsKept
<1>1. \A g \in Handler : call'[g] = IF g = h THEN r ELSE call[g]
  BY DEF IdentityInv, IdentityTypes
<1>2. RowsWritten'
  <2>1. allRows' = allRows
    BY DEF allRows, hasEntry
  <2>2. IsFiniteSet(allRows)'
    BY <2>1 DEF LedgerInv, RowsWritten
  <2>3. \A j : settled(j)' <=> settled(j)
    BY DEF settled, hasEntry
  <2>4. \A j \in Job : jobUser[j] # NoUser => entry[reserveKey(j)] # None
    BY DEF LedgerInv, RowsWritten, hasEntry
  <2>5. r.at = "settle" => entry[reserveKey(r.about)] # None
    BY <2>4 DEF jobSteps
  <2>6. /\ \A k \in EntryKey : hasEntry(k) => entry'[k] # None
        /\ \A j \in Job : jobUser'[j] # NoUser => entry'[reserveKey(j)] # None
        /\ r.at \in {"insertJob", "settle"} => entry'[reserveKey(r.about)] # None
    BY <2>4, <2>5 DEF hasEntry, jobSteps
  <2> QED
    BY <2>2, <2>3, <2>6, RowsGoOn DEF LedgerInv
<1>3. ASSUME overtaken' = {} PROVE Undisturbed'
  <2>1. Undisturbed
    BY <1>3 DEF LedgerInv
  <2>2. /\ \A u : ownedBy(u)' = ownedBy(u)
        /\ allRows' = allRows
        /\ \A u : Matches(u)' <=> Matches(u)
    BY DEF ownedBy, rowsOf, allRows, hasEntry, Matches, ensured, ledgerAvailable, ledgerReserved,
           worth, credits, debits, holds, settled
  <2>3. ASSUME NEW g \in Handler PROVE Unaware(g)'
    <3>1. Unaware(g) /\ Unaware(h)
      BY <2>1 DEF Undisturbed
    <3>2. CASE g # h
      BY <1>1, <2>2, <3>1, <3>2 DEF Unaware, at
    <3>3. CASE g = h
      <4>1. call'[g] = r
        BY <1>1, <3>3
      <4>2. r.at \in {"llm", "refund"} => wallet[r.user] # None
        BY <3>1 DEF Unaware, at
      <4>3. r.at \in {"copyWallet", "dropWallet"} => r.entries = ownedBy(r.user)
        BY <3>1 DEF Unaware, at
      <4> QED
        BY <2>2, <4>1, <4>2, <4>3 DEF Unaware, at, jobSteps
    <3> QED
      BY <3>2, <3>3
  <2> QED
    BY <2>1, <2>2, <2>3 DEF Undisturbed
<1> QED
  BY <1>2, <1>3 DEF LedgerInv

LEMMA LedgerRequestEnds ==
  ASSUME IdentityInv, LedgerInv, NEW h \in Handler, ends(h), CoinsKept, UNCHANGED jobUser,
         overtaken' = {} => overtaken = {}
  PROVE  LedgerInv'
<1>1. Idle \in Request /\ Idle.entries = {} /\ Idle.at = "idle"
  BY IdleFits DEF Idle
<1>2. "idle" \notin jobSteps
  BY DEF jobSteps
<1> QED
  BY <1>1, <1>2, LedgerGoesOn DEF ends

(* A request that begins, or goes on, outside of jobs and merges.           *)
LEMMA LedgerUninvolved ==
  ASSUME IdentityInv, LedgerInv, NEW h \in Handler, CoinsKept, UNCHANGED <<jobUser, overtaken>>,
         NEW r \in Request, call' = [call EXCEPT ![h] = r], r.entries \subseteq call[h].entries,
         r.at \in {"claim", "reread", "findApple", "promote", "charge", "moveSessions", "moveRows"}
  PROVE  LedgerInv'
<1>1. r.at \notin jobSteps /\ r.at \notin {"settle", "llm", "refund", "copyWallet", "dropWallet"}
  BY DEF jobSteps
<1> QED
  BY <1>1, LedgerGoesOn

LEMMA LedgerRequestOpens ==
  ASSUME IdentityInv, LedgerInv, NEW h \in Handler, CoinsKept, UNCHANGED <<jobUser, overtaken>>,
         NEW x \in {"claim", "findApple", "charge", "reserve", "settle"},
         NEW u \in User \cup {NoUser}, NEW a \in Device \cup AppleId \cup Op \cup Job,
         begin(h, x, u, a),
         x \in {"reserve", "settle"} => a \in Job /\ \A g \in Handler : call[g].about # a,
         x = "settle" => ~ at(h, "settle") /\ ~ settled(a) /\ jobUser[a] = u /\ u # NoUser
  PROVE  LedgerInv'
<1> DEFINE r == [Idle EXCEPT !.at = x, !.user = u, !.about = a]
<1>1. Idle \in Request
  BY IdleFits
<1>2. r \in Request
  BY <1>1 DEF Request, identitySteps, guestSteps, moneySteps
<1>3. r.at = x /\ r.user = u /\ r.about = a /\ r.entries = {}
  BY DEF Idle
<1>4. call' = [call EXCEPT ![h] = r]
  BY Zenon DEF begin
<1> HIDE DEF r
<1>5. x \notin {"insertJob", "llm", "refund", "copyWallet", "dropWallet"}
  OBVIOUS
<1>6. x \in jobSteps => x \in {"reserve", "settle"}
  BY <1>5 DEF jobSteps
<1> QED
  BY <1>2, <1>3, <1>4, <1>5, <1>6, LedgerGoesOn

(* The steps of AuthService and their requests.                             *)
LEMMA LedgerSignIn ==
  ASSUME IdentityInv, LedgerInv, NEW h \in Handler, UNCHANGED coinVars,
         \/ \E d \in Device \cup {None} : create_guest(h, d)
         \/ \E t \in Token \cup {None}, s \in AppleId : sign_in_with_apple(h, t, s)
         \/ \E t \in Token : logout(h, t)
         \/ claim(h) \/ reread(h) \/ findApple(h) \/ promote(h)
  PROVE  LedgerInv'
<1>1. CoinsKept /\ UNCHANGED <<jobUser, overtaken>> /\ call[h] \in Request
  BY DEF coinVars, CoinsKept, IdentityInv, IdentityTypes
<1>2. CASE UNCHANGED call
  <2>1. UNCHANGED <<wallet, entry, jobUser, overtaken, call>>
    BY <1>1, <1>2 DEF CoinsKept
  <2>2. /\ allRows' = allRows
        /\ \A j : settled(j)' <=> settled(j)
        /\ \A u : ownedBy(u)' = ownedBy(u)
        /\ \A u : Matches(u)' <=> Matches(u)
    BY <2>1 DEF ownedBy, rowsOf, allRows, hasEntry, Matches, ensured, ledgerAvailable,
                ledgerReserved, worth, credits, debits, holds, settled
  <2>3. RowsWritten' <=> RowsWritten
    BY <2>1, <2>2 DEF RowsWritten, hasEntry, at
  <2>4. Undisturbed' <=> Undisturbed
    BY <2>1, <2>2 DEF Undisturbed, Unaware, at
  <2> QED
    BY <2>1, <2>3, <2>4 DEF LedgerInv
<1>3. CASE ends(h)
  BY <1>1, <1>3, LedgerRequestEnds
<1>4. ASSUME NEW x \in {"claim", "findApple"}, NEW u \in User \cup {NoUser},
             NEW a \in Device \cup AppleId, begin(h, x, u, a)
      PROVE  LedgerInv'
  BY <1>1, <1>4, LedgerRequestOpens
<1>5. ASSUME NEW x \in {"reread", "promote"}, next(h, x) PROVE LedgerInv'
  <2>1. PICK r \in Request :
          /\ call' = [call EXCEPT ![h] = r]
          /\ r.at = x /\ r.user = call[h].user /\ r.about = call[h].about
          /\ r.target = call[h].target /\ r.moved = call[h].moved
          /\ r.entries = call[h].entries /\ r.copied = call[h].copied
    BY <1>5, RequestNext
  <2> QED
    BY <1>1, <2>1, LedgerUninvolved
<1>6. CASE findApple(h)
  <2>1. CASE /\ appleOf[call[h].about] # NoUser
             /\ call' = [call EXCEPT ![h].at = "moveSessions", ![h].target = appleOf[call[h].about]]
    <3> DEFINE owner == appleOf[call[h].about]
               r == [call[h] EXCEPT !.at = "moveSessions", !.target = owner]
    <3>1. owner \in User
      BY <1>6, <2>1 DEF findApple, at, IdentityInv, IdentityTypes, RequestsFit, Fits, identitySteps
    <3>2. r \in Request /\ r.at = "moveSessions" /\ r.entries = call[h].entries
      BY <1>1, <3>1 DEF Request, mergeSteps
    <3>3. call' = [call EXCEPT ![h] = r]
      BY <1>1, <2>1 DEF Request
    <3> HIDE DEF r
    <3> QED
      BY <1>1, <3>2, <3>3, LedgerUninvolved
  <2>2. ASSUME NEW v \in User, call' = [call EXCEPT ![h].at = "promote", ![h].user = v]
        PROVE  LedgerInv'
    <3> DEFINE r == [call[h] EXCEPT !.at = "promote", !.user = v]
    <3>1. r \in Request /\ r.at = "promote" /\ r.entries = call[h].entries
      BY <1>1 DEF Request, identitySteps
    <3>2. call' = [call EXCEPT ![h] = r]
      BY <1>1, <2>2 DEF Request
    <3> HIDE DEF r
    <3> QED
      BY <1>1, <3>1, <3>2, LedgerUninvolved
  <2> QED
    BY <1>3, <1>5, <1>6, <2>1, <2>2 DEF findApple
<1>7. ASSUME NEW d \in Device \cup {None}, create_guest(h, d) PROVE LedgerInv'
  <2>1. CASE d # None /\ \E u \in User : begin(h, "claim", u, d)
    BY <1>4, <2>1
  <2> QED
    BY <1>2, <1>7, <2>1 DEF create_guest
<1>8. ASSUME NEW t \in Token \cup {None}, NEW s \in AppleId, sign_in_with_apple(h, t, s)
      PROVE  LedgerInv'
  BY <1>4, <1>8, TokenUser DEF sign_in_with_apple
<1>9. ASSUME NEW t \in Token, logout(h, t) PROVE LedgerInv'
  BY <1>2, <1>9 DEF logout
<1>10. CASE claim(h) \/ reread(h) \/ promote(h)
  BY <1>3, <1>5, <1>10 DEF claim, reread, promote
<1> QED
  BY <1>6, <1>7, <1>8, <1>9, <1>10

(* The requests for money that have not written yet, and the answer of the  *)
(* LLM.                                                                     *)
LEMMA LedgerAsked ==
  ASSUME IdentityInv, LedgerInv, NEW h \in Handler,
         \/ \E t \in Token, o \in Op : askLyrics(h, t, o)
         \/ \E t \in Token, j \in Job : askJob(h, t, j)
         \/ \E j \in Job : readJob(h, j)
         \/ llm(h) \/ abort(h)
  PROVE  LedgerInv'
<1>1. CoinsKept /\ UNCHANGED <<jobUser, overtaken>>
  BY DEF askLyrics, askJob, readJob, llm, abort, coinVars, CoinsKept
<1>2. CASE abort(h) \/ (llm(h) /\ ends(h))
  BY <1>1, <1>2, LedgerRequestEnds DEF abort
<1>3. CASE llm(h) /\ next(h, "refund")
  <2>1. PICK r \in Request :
          /\ call' = [call EXCEPT ![h] = r]
          /\ r.at = "refund" /\ r.user = call[h].user /\ r.about = call[h].about
          /\ r.target = call[h].target /\ r.moved = call[h].moved
          /\ r.entries = call[h].entries /\ r.copied = call[h].copied
    BY <1>3, RequestNext
  <2>2. at(h, "llm") /\ r.at \notin jobSteps
    BY <1>3, <2>1 DEF llm, jobSteps
  <2> QED
    BY <1>1, <2>1, <2>2, LedgerGoesOn
<1>4. ASSUME NEW t \in Token, NEW o \in Op, askLyrics(h, t, o) PROVE LedgerInv'
  <2>1. begin(h, "charge", userOf(t), o) /\ userOf(t) \in User \cup {NoUser}
    BY <1>4, TokenUser DEF askLyrics
  <2> QED
    BY <1>1, <2>1, LedgerRequestOpens
<1>5. ASSUME NEW t \in Token, NEW j \in Job, askJob(h, t, j) PROVE LedgerInv'
  <2>1. /\ begin(h, "reserve", userOf(t), j) /\ userOf(t) \in User \cup {NoUser}
        /\ \A g \in Handler : call[g].about # j
    BY <1>5, TokenUser DEF askJob
  <2> QED
    BY <1>1, <2>1, LedgerRequestOpens
<1>6. ASSUME NEW j \in Job, readJob(h, j) PROVE LedgerInv'
  <2>1. /\ begin(h, "settle", jobUser[j], j) /\ jobUser[j] \in User \cup {NoUser}
        /\ jobUser[j] # NoUser /\ ~ settled(j) /\ at(h, "idle")
        /\ \A g \in Handler : call[g].about # j
    BY <1>6 DEF readJob, settled, IdentityInv, IdentityTypes
  <2>2. ~ at(h, "settle")
    BY <2>1 DEF at
  <2> QED
    BY <1>1, <2>1, <2>2, LedgerRequestOpens
<1> QED
  BY <1>2, <1>3, <1>4, <1>5, <1>6 DEF llm

(* The merge, up to its commit.                                             *)
LEMMA LedgerMerge ==
  ASSUME IdentityInv, CoinTypes, LedgerInv, NEW h \in Handler,
         moveSessions(h) \/ moveRows(h) \/ copyWallet(h)
  PROVE  LedgerInv'
<1> DEFINE q == call[h]
<1>1. q \in Request /\ call \in [Handler -> Request] /\ CoinsKept /\ UNCHANGED <<jobUser, overtaken>>
  BY DEF IdentityInv, IdentityTypes, moveSessions, moveRows, copyWallet, coinVars, CoinsKept
<1>2. q.user \in User
  BY DEF moveSessions, moveRows, copyWallet, at, mergeSteps, IdentityInv, RequestsFit, Fits, exists
<1>3. CASE moveSessions(h)
  <2> DEFINE mine == {t \in Token : session[t].user = q.user}
             r == [q EXCEPT !.at = "moveRows", !.moved = mine]
  <2>1. call' = [call EXCEPT ![h].at = "moveRows", ![h].moved = mine] /\ mine \in SUBSET Token
    BY <1>3 DEF moveSessions
  <2> HIDE DEF mine
  <2>2. call' = [call EXCEPT ![h] = r] /\ r \in Request
    BY <1>1, <2>1 DEF Request, mergeSteps
  <2>3. r.at = "moveRows" /\ r.entries = q.entries
    BY <1>1 DEF Request
  <2> HIDE DEF r
  <2> QED
    BY <1>1, <2>2, <2>3, LedgerUninvolved
<1>4. CASE moveRows(h)
  <2> DEFINE rows == ownedBy(q.user)
             r == [q EXCEPT !.at = "copyWallet", !.entries = rows]
  <2>1. /\ call' = [call EXCEPT ![h].at = "copyWallet", ![h].entries = rows]
        /\ \A g \in Handler \ {h} : call[g].entries \cap rows = {}
    BY <1>4 DEF moveRows
  <2>2. rows \in SUBSET (EntryKey \cup ({"job"} \X Job))
    BY DEF ownedBy, rowsOf, jobRow
  <2> HIDE DEF rows
  <2>3. call' = [call EXCEPT ![h] = r] /\ r \in Request
    BY <1>1, <2>1, <2>2 DEF Request, mergeSteps
  <2>4. r.at = "copyWallet" /\ r.entries = rows /\ r.user = q.user
    BY <1>1 DEF Request
  <2> HIDE DEF r
  <2>5. r.at \notin jobSteps /\ r.entries = ownedBy(r.user)
    BY <2>4 DEF jobSteps, rows
  <2> QED
    BY <1>1, <1>2, <2>1, <2>3, <2>4, <2>5, LedgerGoesOn
<1>5. CASE copyWallet(h)
  <2> DEFINE row == wallet[q.user]
             r == [q EXCEPT !.at = "dropWallet", !.copied = row]
  <2>1. call' = [call EXCEPT ![h].at = "dropWallet", ![h].copied = row] /\ at(h, "copyWallet")
    BY <1>5 DEF copyWallet
  <2>2. row \in Wallet \cup {None}
    BY <1>2 DEF CoinTypes
  <2> HIDE DEF row
  <2>3. call' = [call EXCEPT ![h] = r] /\ r \in Request
    BY <1>1, <2>1, <2>2 DEF Request, mergeSteps
  <2>4. r.at = "dropWallet" /\ r.entries = q.entries /\ r.user = q.user /\ r.copied = row
    BY <1>1 DEF Request
  <2> HIDE DEF r
  <2>5. r.at \notin jobSteps /\ r.copied = wallet[r.user]
    BY <2>4 DEF jobSteps, row
  <2> QED
    BY <1>1, <2>1, <2>3, <2>4, <2>5, LedgerGoesOn
<1> QED
  BY <1>3, <1>4, <1>5

-----------------------------------------------------------------------------
(* Steps that move the money of a user no open merge is taking away.        *)
LEMMA NotOvertaken ==
  ASSUME NEW u, noteOvertaken(u), overtaken' = {}
  PROVE  overtaken = {} /\ \A g \in Handler : merging(g) => call[g].user # u
BY DEF noteOvertaken

LEMMA LedgerInsertsJob ==
  ASSUME IdentityInv, LedgerInv, NEW h \in Handler, insertJob(h)
  PROVE  LedgerInv'
<1> DEFINE u == call[h].user
           x == call[h].about
<1>1. /\ at(h, "insertJob") /\ call[h].at \in jobSteps /\ x \in Job /\ u \in User
      /\ UNCHANGED <<wallet, entry>> /\ noteOvertaken(u)
      /\ jobUser' = [jobUser EXCEPT ![x] = u] /\ jobUser \in [Job -> User \cup {NoUser}]
      /\ call' = [call EXCEPT ![h] = Idle] /\ call \in [Handler -> Request]
  BY DEF insertJob, at, ends, IdentityInv, IdentityTypes, RequestsFit, Fits, exists, jobSteps,
         moneySteps
<1>2. /\ Idle \in Request /\ Idle.entries = {} /\ Idle.at = "idle" /\ "idle" \notin jobSteps
      /\ \A g \in Handler : call'[g] = IF g = h THEN Idle ELSE call[g]
      /\ \A j \in Job : jobUser'[j] = IF j = x THEN u ELSE jobUser[j]
  BY <1>1, IdleFits DEF Idle, jobSteps
<1>3. RowsWritten'
  <2>1. allRows' = allRows /\ \A j : settled(j)' <=> settled(j)
    BY <1>1 DEF allRows, hasEntry, settled
  <2>2. IsFiniteSet(allRows)'
    BY <2>1 DEF LedgerInv, RowsWritten
  <2>3. hasEntry(reserveKey(x)) /\ \A j \in Job : jobUser[j] # NoUser => hasEntry(reserveKey(j))
    BY <1>1 DEF LedgerInv, RowsWritten, at
  <2>4. /\ \A k \in EntryKey : hasEntry(k) => entry'[k] # None
        /\ \A j \in Job : jobUser'[j] # NoUser => entry'[reserveKey(j)] # None
    BY <1>1, <1>2, <2>3 DEF hasEntry
  <2> QED
    BY <1>1, <1>2, <2>1, <2>2, <2>4, RowsGoOn DEF LedgerInv
<1>4. ASSUME overtaken' = {} PROVE Undisturbed'
  <2>1. Undisturbed /\ \A g \in Handler : merging(g) => call[g].user # u
    BY <1>1, <1>4, NotOvertaken DEF LedgerInv
  <2>2. /\ allRows' = allRows /\ \A v : rowsOf(v)' = rowsOf(v)
        /\ \A v : Matches(v)' <=> Matches(v)
    BY <1>1 DEF rowsOf, allRows, hasEntry, Matches, ensured, ledgerAvailable, ledgerReserved,
                worth, credits, debits, holds, settled
  <2>3. entry[reserveKey(x)].user = u /\ jobUser[x] \in {NoUser, u}
    <3>1. entry[reserveKey(x)].user = u
      BY <1>1, <2>1 DEF Undisturbed, Unaware
    <3> QED
      BY <1>1, <2>1, <3>1 DEF Undisturbed
  <2>4. \A v \in User : v # u => ownedBy(v)' = ownedBy(v)
    <3> SUFFICES ASSUME NEW v \in User, v # u PROVE ownedBy(v)' = ownedBy(v)
      OBVIOUS
    <3>1. \A j \in Job : jobUser'[j] = v <=> jobUser[j] = v
      BY <1>2, <2>3, NobodyIsNoRow
    <3> QED
      BY <2>2, <3>1 DEF ownedBy
  <2>5. ASSUME NEW g \in Handler PROVE Unaware(g)'
    <3>1. Unaware(g)
      BY <2>1 DEF Undisturbed
    <3>2. CASE g # h
      <4>1. call'[g] = call[g]
        BY <1>2, <3>2
      <4>2. at(g, "settle") => call[g].about \in Job /\ call[g].about # x
        BY <1>1, <3>2 DEF LedgerInv, RowsWritten, jobSteps, at, IdentityInv, RequestsFit, Fits
      <4>3. call[g].at \in {"copyWallet", "dropWallet"} => call[g].user \in User /\ call[g].user # u
        BY <2>1 DEF merging, IdentityInv, RequestsFit, Fits, mergeSteps, exists
      <4> QED
        BY <1>1, <1>2, <2>4, <3>1, <4>1, <4>2, <4>3 DEF Unaware, at
    <3>3. CASE g = h
      BY <1>2, <3>3 DEF Unaware, at
    <3> QED
      BY <3>2, <3>3
  <2>6. \A j \in Job : jobUser'[j] # NoUser => entry'[reserveKey(j)].user = jobUser'[j]
    BY <1>1, <1>2, <2>1, <2>3 DEF Undisturbed
  <2> QED
    BY <1>1, <2>1, <2>2, <2>5, <2>6 DEF Undisturbed
<1> QED
  BY <1>3, <1>4 DEF LedgerInv

(* A row for u, or none, and the wallet of u changed to match.              *)
LEMMA MoneyMatches ==
  ASSUME IdentityInv, CoinTypes, RowsWritten, Undisturbed, NEW h \in Handler, NEW u \in User,
         \A g \in Handler \ {h} : call'[g] = call[g], Unaware(h)', UNCHANGED jobUser,
         \A g \in Handler : merging(g) => call[g].user # u,
         UNCHANGED entry \/ \E k \in EntryKey, n \in {Price, -Price} : append(k, u, n),
         NEW a \in Int, NEW d \in Int,
         \A v \in User : ledgerAvailable(v)' = ledgerAvailable(v) + IF v = u THEN a ELSE 0,
         \A v \in User : ledgerReserved(v)' = ledgerReserved(v) + IF v = u THEN d ELSE 0,
         \A v \in User \ {u} : wallet'[v] = wallet[v],
         wallet'[u] # None,
         wallet'[u].available = ensured(u).available + a,
         wallet'[u].reserved = ensured(u).reserved + d
  PROVE  Undisturbed'
<1>1. \A v \in User : ledgerAvailable(v) \in Int /\ ledgerReserved(v) \in Int
  BY RowsOfUserFinite DEF ledgerAvailable, ledgerReserved
<1>2. ASSUME NEW v \in User PROVE Matches(v)'
  <2>1. Matches(v) /\ Matches(u)
    BY DEF Undisturbed
  <2>2. CASE v = u
    <3>1. ensured(u)' = wallet'[u]
      BY DEF ensured
    <3> QED
      BY <1>1, <2>1, <2>2, <3>1 DEF Matches
  <2>3. CASE v # u
    <3>1. ensured(v)' = ensured(v)
      BY <2>3 DEF ensured
    <3> QED
      BY <1>1, <2>1, <2>3, <3>1 DEF Matches
  <2> QED
    BY <2>2, <2>3
<1>3. \A k \in EntryKey : /\ hasEntry(k) => entry'[k] = entry[k]
                          /\ entry'[k] # None /\ ~ hasEntry(k) => entry'[k].user = u
  BY RowAppended DEF hasEntry
<1>4. \A k \in allRows' : wallet'[entry'[k].user] # None
  <2> SUFFICES ASSUME NEW k \in allRows' PROVE wallet'[entry'[k].user] # None
    OBVIOUS
  <2>1. k \in EntryKey /\ entry'[k] # None
    BY DEF allRows, hasEntry
  <2>2. CASE hasEntry(k)
    <3>1. entry'[k] = entry[k] /\ entry[k].user \in User /\ wallet[entry[k].user] # None
      BY <1>3, <2>1, <2>2 DEF allRows, Undisturbed, CoinTypes, hasEntry, Entry
    <3> QED
      BY <3>1
  <2>3. CASE ~ hasEntry(k)
    BY <1>3, <2>1, <2>3
  <2> QED
    BY <2>2, <2>3
<1>5. \A j \in Job : jobUser'[j] # NoUser => entry'[reserveKey(j)].user = jobUser'[j]
  BY <1>3, KeysAreKeys DEF Undisturbed, RowsWritten
<1>6. \A v \in User : v # u => ownedBy(v)' = ownedBy(v)
  <2> SUFFICES ASSUME NEW v \in User, v # u PROVE ownedBy(v)' = ownedBy(v)
    OBVIOUS
  <2>1. rowsOf(v)' = rowsOf(v)
    BY <1>3 DEF rowsOf, hasEntry
  <2> QED
    BY <2>1 DEF ownedBy
<1>7. ASSUME NEW g \in Handler PROVE Unaware(g)'
  <2>1. CASE g # h
    <3>1. Unaware(g) /\ call'[g] = call[g]
      BY <2>1 DEF Undisturbed
    <3>2. at(g, "insertJob") =>
            hasEntry(reserveKey(call[g].about)) /\ reserveKey(call[g].about) \in EntryKey
      BY KeysAreKeys DEF RowsWritten, at, IdentityInv, RequestsFit, Fits, jobSteps
    <3>3. call[g].at \in {"copyWallet", "dropWallet"} => call[g].user \in User /\ call[g].user # u
      BY DEF merging, IdentityInv, RequestsFit, Fits, mergeSteps, exists
    <3>4. call[g].at \in {"llm", "refund"} => call[g].user \in User
      BY DEF IdentityInv, RequestsFit, Fits, moneySteps, exists
    <3> QED
      BY <1>3, <1>6, <3>1, <3>2, <3>3, <3>4 DEF Unaware, at
  <2> QED
    BY <2>1
<1> QED
  BY <1>2, <1>4, <1>5, <1>7 DEF Undisturbed

-----------------------------------------------------------------------------
(* The operations on coins.                                                 *)
LEMMA KeyNames ==
  \A x : /\ chargeKey(x)[1] = "charge" /\ refundKey(x)[1] = "refund"
         /\ reserveKey(x)[1] = "reserve" /\ releaseKey(x)[1] = "release"
         /\ captureKey(x)[1] = "capture" /\ grantKey(x)[1] = "grant"
BY DEF chargeKey, refundKey, reserveKey, releaseKey, captureKey, grantKey

(* The rows of jobs, after a row that settles none of them.                 *)
LEMMA RowsGrow ==
  ASSUME IdentityInv, CoinTypes, RowsWritten, NEW h \in Handler, NEW r \in Request,
         call' = [call EXCEPT ![h] = r], UNCHANGED jobUser,
         NEW k \in EntryKey, NEW u \in User, NEW n \in {Price, -Price}, append(k, u, n),
         \A j \in Job : settled(j)' => settled(j) \/ (at(h, "settle") /\ call[h].about = j),
         r.entries \subseteq call[h].entries,
         \/ r.at \notin jobSteps
         \/ /\ r.at = "insertJob" /\ call[h].at \in jobSteps /\ r.about = call[h].about
            /\ r.about \in Job /\ k = reserveKey(r.about)
  PROVE  RowsWritten'
<1>1. /\ entry'[k] # None /\ allRows' = allRows \cup {k}
      /\ \A i \in EntryKey : hasEntry(i) => entry'[i] # None
  BY RowAppended DEF hasEntry
<1>2. IsFiniteSet(allRows)'
  BY <1>1, FS_AddElement DEF RowsWritten
<1>3. \A j \in Job : jobUser'[j] # NoUser => entry'[reserveKey(j)] # None
  BY <1>1, KeysAreKeys DEF RowsWritten
<1>4. /\ r.at \in {"insertJob", "settle"} => entry'[reserveKey(r.about)] # None
      /\ r.at # "settle"
  BY <1>1 DEF jobSteps
<1> QED
  BY <1>1, <1>2, <1>3, <1>4, RowsGoOn

(* What one row of u changes when it opens or closes no hold.               *)
LEMMA PlainRow ==
  ASSUME CoinTypes, RowsWritten, NEW k \in EntryKey, NEW u \in User, NEW n \in {Price, -Price},
         append(k, u, n), k[1] \notin {"reserve", "release", "capture"}
  PROVE  /\ \A v \in User : ledgerAvailable(v)' = ledgerAvailable(v) + IF v = u THEN n ELSE 0
         /\ \A v \in User : ledgerReserved(v)' = ledgerReserved(v) + IF v = u THEN 0 ELSE 0
         /\ \A j \in Job : settled(j)' <=> settled(j)
BY AvailableAppended, ReservedAppended

LEMMA LedgerGrant ==
  ASSUME IdentityInv, CoinTypes, LedgerInv, NEW h \in Handler, NEW t \in Token,
         NEW p \in Purchase, grant(h, t, p)
  PROVE  LedgerInv'
<1> DEFINE u == userOf(t)
           k == grantKey(p)
<1>1. /\ u \in User /\ k \in EntryKey /\ append(k, u, Price) /\ noteOvertaken(u)
      /\ k[1] \notin {"reserve", "release", "capture"} /\ UNCHANGED <<jobUser, call>>
  BY TokenUser, KeysAreKeys, KeyNames DEF grant
<1>2. /\ call[h] = Idle /\ call' = [call EXCEPT ![h] = Idle] /\ Idle \in Request
      /\ Idle.entries = {} /\ Idle.at \notin jobSteps /\ Idle.at = "idle"
  <2>1. call[h] = Idle /\ call \in [Handler -> Request]
    BY DEF grant, at, IdentityInv, IdentityTypes, RequestsFit, Fits
  <2> QED
    BY <1>1, <2>1, IdleFits DEF Idle, jobSteps
<1>3. /\ \A v \in User : ledgerAvailable(v)' = ledgerAvailable(v) + IF v = u THEN Price ELSE 0
      /\ \A v \in User : ledgerReserved(v)' = ledgerReserved(v) + IF v = u THEN 0 ELSE 0
      /\ \A j \in Job : settled(j)' <=> settled(j)
  BY <1>1, PlainRow DEF LedgerInv
<1>4. RowsWritten'
  BY <1>1, <1>2, <1>3, RowsGrow DEF LedgerInv
<1>5. /\ \A v \in User \ {u} : wallet'[v] = wallet[v]
      /\ wallet'[u] # None
      /\ wallet'[u].available = ensured(u).available + Price
      /\ wallet'[u].reserved = ensured(u).reserved + 0
  <2>1. ensured(u) \in Wallet
    BY <1>1, EnsuredIsWallet
  <2>2. [ensured(u) EXCEPT !.available = @ + Price] \in Wallet
    BY <2>1, PriceAssumption DEF Wallet
  <2>3. wallet' = [wallet EXCEPT ![u] = [ensured(u) EXCEPT !.available = @ + Price]]
    BY DEF grant
  <2> QED
    BY <1>1, <2>1, <2>2, <2>3, RowAssumption DEF CoinTypes, Wallet
<1>6. ASSUME overtaken' = {} PROVE Undisturbed'
  <2>1. Undisturbed /\ \A g \in Handler : merging(g) => call[g].user # u
    BY <1>1, <1>6, NotOvertaken DEF LedgerInv
  <2>2. Unaware(h)'
    BY <1>1, <1>2 DEF Unaware, at
  <2>3. 0 \in Int /\ Price \in Int /\ \A g \in Handler \ {h} : call'[g] = call[g]
    BY <1>1, PriceAssumption
  <2> QED
    BY <1>1, <1>3, <1>5, <2>1, <2>2, <2>3, MoneyMatches DEF LedgerInv
<1> QED
  BY <1>4, <1>6 DEF LedgerInv

LEMMA LedgerCharge ==
  ASSUME IdentityInv, CoinTypes, LedgerInv, NEW h \in Handler, charge(h)
  PROVE  LedgerInv'
<1> DEFINE u == call[h].user
           k == chargeKey(call[h].about)
           w == ensured(u)
<1>1. /\ u \in User /\ k \in EntryKey /\ at(h, "charge") /\ noteOvertaken(u)
      /\ k[1] \notin {"reserve", "release", "capture"} /\ UNCHANGED jobUser
      /\ w \in Wallet
  BY KeysAreKeys, KeyNames, EnsuredIsWallet DEF charge, at, IdentityInv, RequestsFit, Fits, exists,
     lyricsSteps, moneySteps
<1>2. CASE ends(h) /\ UNCHANGED <<wallet, entry>>
  BY <1>1, <1>2, NotOvertaken, LedgerRequestEnds DEF CoinsKept
<1>3. ASSUME next(h, "llm"), NEW a \in {0, -Price}, w.available + a \in Nat,
             wallet' = [wallet EXCEPT ![u] = [w EXCEPT !.available = @ + a]],
             \/ a = -Price /\ append(k, u, -Price)
             \/ a = 0 /\ UNCHANGED entry
      PROVE  LedgerInv'
  <2>1. PICK r \in Request :
          /\ call' = [call EXCEPT ![h] = r]
          /\ r.at = "llm" /\ r.user = call[h].user /\ r.about = call[h].about
          /\ r.target = call[h].target /\ r.moved = call[h].moved
          /\ r.entries = call[h].entries /\ r.copied = call[h].copied
    BY <1>3, RequestNext
  <2>2. r.at \notin jobSteps /\ \A g \in Handler : call'[g] = IF g = h THEN r ELSE call[g]
    BY <2>1 DEF jobSteps, IdentityInv, IdentityTypes
  <2>3. /\ \A v \in User : ledgerAvailable(v)' = ledgerAvailable(v) + IF v = u THEN a ELSE 0
        /\ \A v \in User : ledgerReserved(v)' = ledgerReserved(v) + IF v = u THEN 0 ELSE 0
        /\ RowsWritten'
    <3>1. CASE a = -Price /\ append(k, u, -Price)
      <4>1. /\ \A v \in User : ledgerAvailable(v)' = ledgerAvailable(v) + IF v = u THEN a ELSE 0
            /\ \A v \in User : ledgerReserved(v)' = ledgerReserved(v) + IF v = u THEN 0 ELSE 0
            /\ \A j \in Job : settled(j)' <=> settled(j)
        BY <1>1, <3>1, PlainRow DEF LedgerInv
      <4>2. RowsWritten'
        BY <1>1, <2>1, <2>2, <3>1, <4>1, RowsGrow DEF LedgerInv
      <4> QED
        BY <4>1, <4>2
    <3>2. CASE a = 0 /\ UNCHANGED entry
      <4>1. /\ \A v : ledgerAvailable(v)' = ledgerAvailable(v)
            /\ \A v : ledgerReserved(v)' = ledgerReserved(v)
            /\ allRows' = allRows /\ \A j : settled(j)' <=> settled(j)
        BY <3>2 DEF ledgerAvailable, ledgerReserved, worth, credits, debits, holds, settled,
                    hasEntry, rowsOf, allRows
      <4>2. \A v \in User : ledgerAvailable(v) \in Int /\ ledgerReserved(v) \in Int
        BY RowsOfUserFinite DEF LedgerInv, ledgerAvailable, ledgerReserved
      <4>3. IsFiniteSet(allRows)' /\ r.at \notin {"insertJob", "settle"}
        BY <2>1, <4>1 DEF LedgerInv, RowsWritten
      <4>4. /\ \A i \in EntryKey : hasEntry(i) => entry'[i] # None
            /\ \A j \in Job : jobUser'[j] # NoUser => entry'[reserveKey(j)] # None
        BY <1>1, <3>2 DEF hasEntry, LedgerInv, RowsWritten
      <4>5. RowsWritten'
        BY <2>1, <2>2, <4>1, <4>3, <4>4, RowsGoOn DEF LedgerInv
      <4> QED
        BY <3>2, <4>1, <4>2, <4>5
    <3> QED
      BY <1>3, <3>1, <3>2
  <2>4. /\ \A v \in User \ {u} : wallet'[v] = wallet[v]
        /\ wallet'[u] # None
        /\ wallet'[u].available = w.available + a
        /\ wallet'[u].reserved = w.reserved + 0
    <3>1. [w EXCEPT !.available = @ + a] \in Wallet
      BY <1>1, <1>3 DEF Wallet
    <3> QED
      BY <1>1, <1>3, <3>1, RowAssumption DEF CoinTypes, Wallet
  <2>5. ASSUME overtaken' = {} PROVE Undisturbed'
    <3>1. Undisturbed /\ \A g \in Handler : merging(g) => call[g].user # u
      BY <1>1, <2>5, NotOvertaken DEF LedgerInv
    <3>2. Unaware(h)'
      BY <2>1, <2>2, <2>4 DEF Unaware, at
    <3>3. 0 \in Int /\ a \in Int /\ \A g \in Handler \ {h} : call'[g] = call[g]
      BY <1>3, <2>2, PriceAssumption
    <3>4. UNCHANGED entry \/ \E i \in EntryKey, n \in {Price, -Price} : append(i, u, n)
      BY <1>1, <1>3
    <3> QED
      BY <1>1, <2>3, <2>4, <3>1, <3>2, <3>3, <3>4, MoneyMatches DEF LedgerInv
  <2> QED
    BY <2>3, <2>5 DEF LedgerInv
<1>4. CASE /\ w.available >= Price /\ append(k, u, -Price) /\ next(h, "llm")
           /\ wallet' = [wallet EXCEPT ![u] = [w EXCEPT !.available = @ - Price]]
  <2>1. /\ w.available + (-Price) \in Nat
        /\ [w EXCEPT !.available = @ - Price] = [w EXCEPT !.available = @ + (-Price)]
    BY <1>1, <1>4, PriceAssumption DEF Wallet
  <2> QED
    BY <1>3, <1>4, <2>1
<1>5. CASE wallet' = [wallet EXCEPT ![u] = w] /\ next(h, "llm") /\ UNCHANGED entry
  <2>1. w.available + 0 \in Nat /\ w = [w EXCEPT !.available = @ + 0]
    BY <1>1 DEF Wallet
  <2> QED
    BY <1>3, <1>5, <2>1
<1> QED
  BY <1>2, <1>4, <1>5 DEF charge

LEMMA LedgerRefund ==
  ASSUME IdentityInv, CoinTypes, LedgerInv, NEW h \in Handler, refund(h)
  PROVE  LedgerInv'
<1> DEFINE u == call[h].user
           k == refundKey(call[h].about)
<1>1. /\ u \in User /\ k \in EntryKey /\ at(h, "refund") /\ noteOvertaken(u)
      /\ k[1] \notin {"reserve", "release", "capture"} /\ UNCHANGED jobUser
      /\ ends(h) /\ call' = [call EXCEPT ![h] = Idle] /\ call \in [Handler -> Request]
  BY KeysAreKeys, KeyNames DEF refund, at, ends, IdentityInv, IdentityTypes, RequestsFit, Fits,
     exists, lyricsSteps, moneySteps
<1>2. CASE UNCHANGED <<wallet, entry>>
  BY <1>1, <1>2, NotOvertaken, LedgerRequestEnds DEF CoinsKept
<1>3. CASE append(k, u, Price) /\ wallet' = changed(u, Price, 0)
  <2>1. /\ Idle \in Request /\ Idle.entries = {} /\ Idle.at = "idle" /\ Idle.at \notin jobSteps
        /\ \A g \in Handler : call'[g] = IF g = h THEN Idle ELSE call[g]
    BY <1>1, IdleFits DEF Idle, jobSteps
  <2>2. /\ \A v \in User : ledgerAvailable(v)' = ledgerAvailable(v) + IF v = u THEN Price ELSE 0
        /\ \A v \in User : ledgerReserved(v)' = ledgerReserved(v) + IF v = u THEN 0 ELSE 0
        /\ \A j \in Job : settled(j)' <=> settled(j)
    BY <1>1, <1>3, PlainRow DEF LedgerInv
  <2>3. RowsWritten'
    BY <1>1, <1>3, <2>1, <2>2, RowsGrow DEF LedgerInv
  <2>4. ASSUME overtaken' = {} PROVE Undisturbed'
    <3>1. Undisturbed /\ \A g \in Handler : merging(g) => call[g].user # u
      BY <1>1, <2>4, NotOvertaken DEF LedgerInv
    <3>2. wallet[u] # None /\ wallet[u] \in Wallet
      BY <1>1, <3>1 DEF Undisturbed, Unaware, at, CoinTypes
    <3>3. Max({0, wallet[u].reserved + 0}) = wallet[u].reserved + 0
      BY <3>2, LargerOfTwo DEF Wallet
    <3>4. /\ \A v \in User \ {u} : wallet'[v] = wallet[v]
          /\ wallet'[u] = [available |-> wallet[u].available + Price,
                           reserved |-> wallet[u].reserved + 0]
      BY <1>1, <1>3, <3>2, <3>3 DEF changed, CoinTypes
    <3>5. wallet'[u] \in Wallet /\ ensured(u) = wallet[u]
      BY <3>2, <3>4, PriceAssumption DEF Wallet, ensured
    <3>6. /\ wallet'[u] # None
          /\ wallet'[u].available = ensured(u).available + Price
          /\ wallet'[u].reserved = ensured(u).reserved + 0
      BY <3>4, <3>5, RowAssumption
    <3>7. Unaware(h)'
      BY <2>1 DEF Unaware, at
    <3>8. 0 \in Int /\ Price \in Int /\ \A g \in Handler \ {h} : call'[g] = call[g]
      BY <2>1, PriceAssumption
    <3> QED
      BY <1>1, <1>3, <2>2, <3>1, <3>4, <3>6, <3>7, <3>8, MoneyMatches DEF LedgerInv
  <2> QED
    BY <2>3, <2>4 DEF LedgerInv
<1> QED
  BY <1>2, <1>3 DEF refund

LEMMA LedgerReserve ==
  ASSUME IdentityInv, CoinTypes, LedgerInv, NEW h \in Handler, reserve(h)
  PROVE  LedgerInv'
<1> DEFINE u == call[h].user
           x == call[h].about
           k == reserveKey(x)
           w == ensured(u)
<1>1. /\ u \in User /\ x \in Job /\ k \in EntryKey /\ at(h, "reserve") /\ noteOvertaken(u)
      /\ call[h].at \in jobSteps /\ k[1] = "reserve" /\ UNCHANGED jobUser /\ w \in Wallet
  BY KeysAreKeys, KeyNames, EnsuredIsWallet DEF reserve, at, IdentityInv, RequestsFit, Fits, exists,
     jobSteps, moneySteps
<1>2. CASE ends(h) /\ UNCHANGED <<wallet, entry>>
  BY <1>1, <1>2, NotOvertaken, LedgerRequestEnds DEF CoinsKept
<1>3. CASE /\ w.available >= Price /\ append(k, u, -Price) /\ next(h, "insertJob")
           /\ wallet' = [wallet EXCEPT ![u] = [available |-> w.available - Price,
                                               reserved |-> w.reserved + Price]]
  <2>1. PICK r \in Request :
          /\ call' = [call EXCEPT ![h] = r]
          /\ r.at = "insertJob" /\ r.user = call[h].user /\ r.about = call[h].about
          /\ r.target = call[h].target /\ r.moved = call[h].moved
          /\ r.entries = call[h].entries /\ r.copied = call[h].copied
    BY <1>3, RequestNext
  <2>2. \A g \in Handler : call'[g] = IF g = h THEN r ELSE call[g]
    BY <2>1 DEF IdentityInv, IdentityTypes
  <2>3. /\ \A v \in User : ledgerAvailable(v)' = ledgerAvailable(v) + IF v = u THEN -Price ELSE 0
        /\ \A v \in User : ledgerReserved(v)' = ledgerReserved(v) + IF v = u THEN Price ELSE 0
        /\ \A j \in Job : settled(j)' <=> settled(j)
    BY <1>1, <1>3, AvailableAppended, ReservedAppended DEF LedgerInv
  <2>4. RowsWritten'
    <3>1. \A j \in Job : settled(j)' => settled(j) \/ (at(h, "settle") /\ call[h].about = j)
      BY <2>3
    <3> QED
      BY <1>1, <1>3, <2>1, <3>1, RowsGrow DEF LedgerInv
  <2>5. /\ \A v \in User \ {u} : wallet'[v] = wallet[v]
        /\ wallet'[u] # None
        /\ wallet'[u].available = w.available + (-Price)
        /\ wallet'[u].reserved = w.reserved + Price
    <3>1. [available |-> w.available - Price, reserved |-> w.reserved + Price] \in Wallet
      BY <1>1, <1>3, PriceAssumption DEF Wallet
    <3> QED
      BY <1>1, <1>3, <3>1, RowAssumption, PriceAssumption DEF CoinTypes, Wallet
  <2>6. ASSUME overtaken' = {} PROVE Undisturbed'
    <3>1. Undisturbed /\ \A g \in Handler : merging(g) => call[g].user # u
      BY <1>1, <2>6, NotOvertaken DEF LedgerInv
    <3>2. entry'[k].user = u
      BY <1>1, <1>3, RowAppended
    <3>3. Unaware(h)'
      BY <2>1, <2>2, <3>2 DEF Unaware, at
    <3>4. -Price \in Int /\ Price \in Int /\ \A g \in Handler \ {h} : call'[g] = call[g]
      BY <2>2, PriceAssumption
    <3> QED
      BY <1>1, <1>3, <2>3, <2>5, <3>1, <3>3, <3>4, MoneyMatches DEF LedgerInv
  <2> QED
    BY <2>4, <2>6 DEF LedgerInv
<1> QED
  BY <1>2, <1>3 DEF reserve

LEMMA LedgerSettle ==
  ASSUME IdentityInv, CoinTypes, LedgerInv, NEW h \in Handler, settle(h)
  PROVE  LedgerInv'
<1> DEFINE u == call[h].user
           x == call[h].about
<1>1. /\ u \in User /\ x \in Job /\ at(h, "settle") /\ noteOvertaken(u) /\ UNCHANGED jobUser
      /\ ends(h) /\ call' = [call EXCEPT ![h] = Idle] /\ call \in [Handler -> Request]
      /\ ~ settled(x) /\ hasEntry(reserveKey(x))
  BY DEF settle, at, ends, IdentityInv, IdentityTypes, RequestsFit, Fits, exists, jobSteps,
         moneySteps, LedgerInv, RowsWritten
<1>2. ASSUME NEW k \in {releaseKey(x), captureKey(x)}, NEW n \in {Price, -Price},
             append(k, u, n), NEW a \in Nat, wallet' = changed(u, a, -Price),
             k[1] = "capture" => n = -Price /\ a = 0,
             k[1] # "capture" => n = Price /\ a = Price
      PROVE  LedgerInv'
  <2>1. /\ Idle \in Request /\ Idle.entries = {} /\ Idle.at = "idle" /\ Idle.at \notin jobSteps
        /\ \A g \in Handler : call'[g] = IF g = h THEN Idle ELSE call[g]
    BY <1>1, IdleFits DEF Idle, jobSteps
  <2>2. k \in EntryKey /\ \A i \in Job : settled(i)' <=> settled(i) \/ i = x
    BY <1>1, <1>2, JobSettled
  <2>3. RowsWritten'
    <3>1. \A j \in Job : settled(j)' => settled(j) \/ (at(h, "settle") /\ call[h].about = j)
      BY <1>1, <2>2
    <3> DEFINE r == Idle
    <3>2. /\ append(k, u, n) /\ k \in EntryKey /\ u \in User /\ UNCHANGED jobUser /\ RowsWritten
          /\ call' = [call EXCEPT ![h] = r] /\ r \in Request /\ r.at \notin jobSteps
          /\ r.entries \subseteq call[h].entries
      BY <1>1, <1>2, <2>1, <2>2 DEF LedgerInv
    <3> HIDE DEF r
    <3> QED
      BY <3>1, <3>2, RowsGrow
  <2>4. ASSUME overtaken' = {} PROVE Undisturbed'
    <3>1. Undisturbed /\ \A g \in Handler : merging(g) => call[g].user # u
      BY <1>1, <2>4, NotOvertaken DEF LedgerInv
    <3>2. entry[reserveKey(x)].user = u
      BY <1>1, <3>1, NobodyIsNoRow DEF Undisturbed, Unaware
    <3>3. reserveKey(x) \in rowsOf(u) /\ reserveKey(x) \in allRows
      BY <1>1, <3>2, KeysAreKeys DEF rowsOf, allRows
    <3>4. wallet[u] # None /\ wallet[u] \in Wallet
      BY <1>1, <3>1, <3>2, <3>3 DEF Undisturbed, CoinTypes
    <3>5. /\ ledgerReserved(u) >= Price
          /\ \A v \in User : ledgerReserved(v)' = ledgerReserved(v) - IF v = u THEN Price ELSE 0
      BY <1>1, <1>2, <3>3, HoldClosed DEF LedgerInv
    <3>6. \A v \in User : ledgerReserved(v) \in Int
      BY RowsOfUserFinite DEF LedgerInv, ledgerReserved
    <3>7. \A v \in User : ledgerReserved(v)' = ledgerReserved(v) + IF v = u THEN -Price ELSE 0
      BY <3>5, <3>6, PriceAssumption
    <3>8. \A v \in User : ledgerAvailable(v)' = ledgerAvailable(v) + IF v = u THEN a ELSE 0
      <4>1. \A v \in User : ledgerAvailable(v)' = ledgerAvailable(v)
                              + IF v # u \/ (n = -Price /\ k[1] = "capture") THEN 0 ELSE n
        BY <1>1, <1>2, <2>2, AvailableAppended DEF LedgerInv
      <4> QED
        BY <1>2, <4>1
    <3>9. ensured(u) = wallet[u] /\ wallet[u].reserved >= Price
      BY <1>1, <3>1, <3>4, <3>5 DEF ensured, Undisturbed, Matches
    <3>10. Max({0, wallet[u].reserved + (-Price)}) = wallet[u].reserved + (-Price)
      <4>1. wallet[u].reserved + (-Price) \in Int /\ wallet[u].reserved + (-Price) >= 0
        BY <3>4, <3>9, PriceAssumption DEF Wallet
      <4> QED
        BY <4>1, LargerOfTwo
    <3>11. /\ \A v \in User \ {u} : wallet'[v] = wallet[v]
           /\ wallet'[u] = [available |-> wallet[u].available + a,
                            reserved |-> wallet[u].reserved + (-Price)]
      BY <1>1, <1>2, <3>4, <3>10 DEF changed, CoinTypes
    <3>12. wallet'[u] \in Wallet
      BY <1>2, <3>4, <3>9, <3>11, PriceAssumption DEF Wallet
    <3>13. /\ wallet'[u] # None
           /\ wallet'[u].available = ensured(u).available + a
           /\ wallet'[u].reserved = ensured(u).reserved + (-Price)
      BY <3>9, <3>11, <3>12, RowAssumption
    <3>14. Unaware(h)'
      BY <2>1 DEF Unaware, at
    <3>15. a \in Int /\ -Price \in Int /\ \A g \in Handler \ {h} : call'[g] = call[g]
      BY <2>1, PriceAssumption
    <3>16. \E i \in EntryKey, m \in {Price, -Price} : append(i, u, m)
      BY <1>2, <2>2
    <3> QED
      BY <1>1, <3>1, <3>7, <3>8, <3>11, <3>13, <3>14, <3>15, <3>16, MoneyMatches DEF LedgerInv
  <2> QED
    BY <2>3, <2>4 DEF LedgerInv
<1>3. CASE append(captureKey(x), u, -Price) /\ wallet' = changed(u, 0, -Price)
  BY <1>2, <1>3, KeyNames
<1>4. CASE append(releaseKey(x), u, Price) /\ wallet' = changed(u, Price, -Price)
  <2>1. releaseKey(x)[1] # "capture" /\ Price \in Nat
    BY KeyNames, PriceAssumption
  <2> QED
    BY <1>2, <1>4, <2>1
<1> QED
  BY <1>3, <1>4 DEF settle

-----------------------------------------------------------------------------
(* The commit of a merge.                                                   *)

(* Every row of u becomes a row of its target, and no other row moves.      *)
LEMMA RowsHandedOver ==
  ASSUME IdentityInv, CoinTypes, NEW h \in Handler, dropWallet(h),
         NEW u, u = call[h].user, NEW to, to = call[h].target, call[h].entries = ownedBy(u)
  PROVE  /\ rowsOf(u)' = {}
         /\ rowsOf(to)' = rowsOf(to) \cup rowsOf(u)
         /\ \A v : v \notin {u, to} => rowsOf(v)' = rowsOf(v)
         /\ \A j \in Job : jobUser'[j] = IF jobUser[j] = u THEN to ELSE jobUser[j]
<1>1. u \in User /\ to \in User /\ u # to
  BY DEF dropWallet, at, mergeSteps, IdentityInv, RequestsFit, Fits, exists
<1>2. \A k \in EntryKey : \A j : jobRow(j) # k
  BY DEF jobRow, EntryKey
<1>3. \A k \in EntryKey : k \in call[h].entries <=> k \in rowsOf(u)
  BY <1>2 DEF ownedBy
<1>4. \A k \in EntryKey : /\ hasEntry(k) <=> entry'[k] # None
                          /\ k \notin rowsOf(u) => entry'[k] = entry[k]
                          /\ k \in rowsOf(u) => entry'[k].user = to
  BY <1>3, DropWalletTypes
<1>5. ASSUME NEW v, NEW k \in EntryKey
      PROVE  k \in rowsOf(v)' <=> \/ k \in rowsOf(v) /\ v # u
                                  \/ k \in rowsOf(u) /\ v = to
  <2>1. k \in rowsOf(v)' <=> entry'[k] # None /\ entry'[k].user = v
    BY DEF rowsOf, hasEntry
  <2>2. \A w : k \in rowsOf(w) <=> hasEntry(k) /\ entry[k].user = w
    BY DEF rowsOf
  <2>3. CASE k \in rowsOf(u)
    <3>1. entry'[k] # None /\ entry'[k].user = to /\ entry[k].user = u
      BY <1>4, <2>2, <2>3
    <3> QED
      BY <1>1, <2>1, <2>2, <2>3, <3>1
  <2>4. CASE k \notin rowsOf(u)
    <3>1. entry'[k] = entry[k]
      BY <1>4, <2>4
    <3> QED
      BY <1>4, <2>1, <2>2, <2>4, <3>1
  <2> QED
    BY <2>3, <2>4
<1>6. \A v : rowsOf(v) \subseteq EntryKey /\ rowsOf(v)' \subseteq EntryKey
  BY DEF rowsOf
<1>7. rowsOf(u)' = {}
  BY <1>1, <1>5, <1>6
<1>8. rowsOf(to)' = rowsOf(to) \cup rowsOf(u)
  BY <1>1, <1>5, <1>6
<1>9. \A v : v \notin {u, to} => rowsOf(v)' = rowsOf(v)
  BY <1>5, <1>6
<1>10. \A j \in Job : jobRow(j) \in call[h].entries <=> jobUser[j] = u
  <2>1. \A i, j : jobRow(i) = jobRow(j) <=> i = j
    BY DEF jobRow
  <2> QED
    BY <1>2, <1>6, <2>1 DEF ownedBy
<1>11. \A j \in Job : jobUser'[j] = IF jobUser[j] = u THEN to ELSE jobUser[j]
  BY <1>10 DEF dropWallet
<1> QED
  BY <1>7, <1>8, <1>9, <1>11

(* What the ledger says of u is added to what it says of the target.        *)
LEMMA LedgerHandedOver ==
  ASSUME IdentityInv, CoinTypes, RowsWritten, NEW h \in Handler, dropWallet(h),
         NEW u, u = call[h].user, NEW to, to = call[h].target, call[h].entries = ownedBy(u),
         NEW v \in User
  PROVE  /\ v = u => ledgerAvailable(v)' = 0 /\ ledgerReserved(v)' = 0
         /\ v = to => /\ ledgerAvailable(v)' = ledgerAvailable(v) + ledgerAvailable(u)
                      /\ ledgerReserved(v)' = ledgerReserved(v) + ledgerReserved(u)
         /\ v \notin {u, to} => /\ ledgerAvailable(v)' = ledgerAvailable(v)
                                /\ ledgerReserved(v)' = ledgerReserved(v)
<1>1. \A k \in EntryKey : /\ hasEntry(k) <=> entry'[k] # None
                          /\ hasEntry(k) => entry'[k].amount = entry[k].amount
  BY DropWalletTypes
<1>2. \A j \in Job : settled(j)' <=> settled(j)
  BY <1>1, KeysAreKeys DEF settled, hasEntry
<1>3. \A w : \A k \in rowsOf(w) : /\ k \in EntryKey /\ entry'[k].amount = entry[k].amount
                                  /\ k[1] = "reserve" => k[2] \in Job
  BY <1>1 DEF rowsOf, EntryKey
<1>4. /\ rowsOf(u)' = {}
      /\ rowsOf(to)' = rowsOf(to) \cup rowsOf(u)
      /\ \A w : w \notin {u, to} => rowsOf(w)' = rowsOf(w)
      /\ u # to
  <2>1. u # to
    BY DEF dropWallet, at, mergeSteps, IdentityInv, RequestsFit, Fits
  <2> QED
    BY <2>1, RowsHandedOver
<1>5. rowsOf(to) \cap rowsOf(u) = {}
  BY <1>4 DEF rowsOf
<1>6. CASE v = u
  <2>1. credits(v)' = {} /\ debits(v)' = {} /\ holds(v)' = {}
    BY <1>4, <1>6 DEF credits, debits, holds
  <2>2. worth({})' = 0
    BY WorthOfNone DEF worth
  <2>3. ledgerAvailable(v)' = 0 /\ ledgerReserved(v)' = 0
    BY <2>1, <2>2 DEF ledgerAvailable, ledgerReserved, worth
  <2> QED
    BY <1>4, <1>6, <2>3
<1>7. CASE v = to
  <2>1. /\ credits(v)' = credits(v) \cup credits(u)
        /\ debits(v)' = debits(v) \cup debits(u)
        /\ holds(v)' = holds(v) \cup holds(u)
    BY <1>2, <1>3, <1>4, <1>7 DEF credits, debits, holds
  <2>2. /\ credits(v) \cap credits(u) = {} /\ debits(v) \cap debits(u) = {}
        /\ holds(v) \cap holds(u) = {}
    BY <1>5, <1>7 DEF credits, debits, holds
  <2>3. \A w : /\ IsFiniteSet(credits(w)) /\ IsFiniteSet(debits(w)) /\ IsFiniteSet(holds(w))
    BY RowsOfUserFinite
  <2>4. /\ worth(credits(v) \cup credits(u)) = worth(credits(v)) + worth(credits(u))
        /\ worth(debits(v) \cup debits(u)) = worth(debits(v)) + worth(debits(u))
        /\ worth(holds(v) \cup holds(u)) = worth(holds(v)) + worth(holds(u))
        /\ worth(credits(v)) \in Nat /\ worth(credits(u)) \in Nat
        /\ worth(debits(v)) \in Nat /\ worth(debits(u)) \in Nat
    BY <2>2, <2>3, WorthOfBoth
  <2>5. /\ worth(credits(v))' = worth(credits(v)) + worth(credits(u))
        /\ worth(debits(v))' = worth(debits(v)) + worth(debits(u))
        /\ worth(holds(v))' = worth(holds(v)) + worth(holds(u))
    BY <2>1, <2>4 DEF worth
  <2>6. /\ ledgerAvailable(v)' = ledgerAvailable(v) + ledgerAvailable(u)
        /\ ledgerReserved(v)' = ledgerReserved(v) + ledgerReserved(u)
    BY <2>4, <2>5 DEF ledgerAvailable, ledgerReserved
  <2> QED
    BY <1>4, <1>7, <2>6
<1>8. CASE v \notin {u, to}
  <2>1. credits(v)' = credits(v) /\ debits(v)' = debits(v) /\ holds(v)' = holds(v)
    BY <1>2, <1>3, <1>4, <1>8 DEF credits, debits, holds
  <2>2. ledgerAvailable(v)' = ledgerAvailable(v) /\ ledgerReserved(v)' = ledgerReserved(v)
    BY <2>1 DEF ledgerAvailable, ledgerReserved, worth
  <2> QED
    BY <1>8, <2>2
<1> QED
  BY <1>6, <1>7, <1>8

LEMMA LedgerMerged ==
  ASSUME IdentityInv, CoinTypes, LedgerInv, NEW h \in Handler, dropWallet(h)
  PROVE  LedgerInv'
<1>1. PICK u, to, copied : u = call[h].user /\ to = call[h].target /\ copied = call[h].copied
  OBVIOUS
<1>2. /\ u \in User /\ to \in User /\ u # to /\ copied \in Wallet \cup {None}
      /\ at(h, "dropWallet") /\ merging(h)
      /\ ends(h) /\ call' = [call EXCEPT ![h] = Idle] /\ call \in [Handler -> Request]
  BY <1>1 DEF dropWallet, at, ends, merging, mergeSteps, IdentityInv, IdentityTypes, RequestsFit,
              Fits, Request, exists
<1>3. \A g \in Handler : call'[g] = IF g = h THEN Idle ELSE call[g]
  BY <1>2
<1>4. \A k \in EntryKey : hasEntry(k) <=> entry'[k] # None
  BY DropWalletTypes
<1>5. allRows' = allRows /\ \A j \in Job : settled(j)' <=> settled(j)
  BY <1>4, KeysAreKeys DEF allRows, settled, hasEntry
<1>6. RowsWritten'
  <2> DEFINE r == Idle
  <2>1. \A j \in Job : jobUser'[j] # NoUser =>
          jobUser[j] # NoUser \/ jobRow(j) \in call[h].entries
    BY DEF dropWallet
  <2>2. \A j \in Job : jobUser'[j] # NoUser => entry'[reserveKey(j)] # None
    BY <1>4, <2>1, KeysAreKeys DEF LedgerInv, RowsWritten
  <2>3. IsFiniteSet(allRows)' /\ RowsWritten
    BY <1>5 DEF LedgerInv, RowsWritten
  <2>4. /\ call' = [call EXCEPT ![h] = r] /\ r \in Request /\ r.entries \subseteq call[h].entries
        /\ r.at = "idle" /\ r.at \notin jobSteps
    BY <1>2, IdleFits DEF Idle, jobSteps
  <2> HIDE DEF r
  <2> QED
    BY <1>4, <1>5, <2>2, <2>3, <2>4, RowsGoOn
<1>7. ASSUME overtaken' = {} PROVE Undisturbed'
  <2>1. overtaken = {} /\ overtakes(h) = {}
    BY <1>7 DEF dropWallet
  <2>2. Undisturbed /\ RowsWritten
    BY <2>1 DEF LedgerInv
  <2>3. /\ \A g \in Handler \ {h} : call[g].user = u => call[g].at \notin moneySteps
        /\ \A g \in Handler \ {h} : merging(g) => call[g].user # to
    BY <1>1, <2>1 DEF overtakes
  <2>4. /\ call[h].entries = ownedBy(u)
        /\ copied = wallet[u] \/ (wallet[u] = None /\ copied = EmptyWallet)
    BY <1>1, <1>2, <2>2 DEF Undisturbed, Unaware, at
  <2>5. /\ rowsOf(u)' = {}
        /\ rowsOf(to)' = rowsOf(to) \cup rowsOf(u)
        /\ \A v : v \notin {u, to} => rowsOf(v)' = rowsOf(v)
        /\ \A j \in Job : jobUser'[j] = IF jobUser[j] = u THEN to ELSE jobUser[j]
    BY <1>1, <2>4, RowsHandedOver
  <2>6. \A v \in User : v \notin {u, to} => wallet'[v] = wallet[v]
    BY <1>1 DEF dropWallet
  <2>7. wallet'[u] = None
    BY <1>1, <1>2 DEF dropWallet
  <2>8. /\ copied = None => wallet'[to] = wallet[to]
        /\ copied # None => wallet'[to] = [available |-> ensured(to).available + copied.available,
                                          reserved |-> ensured(to).reserved + copied.reserved]
    BY <1>1, <1>2 DEF dropWallet
  <2>9. ensured(u) \in Wallet /\ ensured(to) \in Wallet
    BY <1>2, EnsuredIsWallet
  <2>10. copied # None => wallet'[to] # None
    <3>1. copied # None => copied \in Wallet
      BY <1>2
    <3>2. copied # None => [available |-> ensured(to).available + copied.available,
                            reserved |-> ensured(to).reserved + copied.reserved] \in Wallet
      BY <2>9, <3>1 DEF Wallet
    <3> QED
      BY <2>8, <3>2, RowAssumption
  <2>11. /\ ensured(to)'.available = ensured(to).available + ensured(u).available
         /\ ensured(to)'.reserved = ensured(to).reserved + ensured(u).reserved
    <3>1. CASE copied = None
      <4>1. ensured(to)' = ensured(to)
        BY <2>8, <3>1 DEF ensured
      <4>2. EmptyWallet # None
        BY RowAssumption DEF Wallet, EmptyWallet
      <4>3. ensured(u) = EmptyWallet
        BY <2>4, <3>1, <4>2 DEF ensured
      <4> QED
        BY <2>9, <4>1, <4>3 DEF Wallet, EmptyWallet
    <3>2. CASE copied # None
      <4>1. copied = ensured(u)
        BY <2>4, <3>2 DEF ensured
      <4>2. ensured(to)' = wallet'[to]
        BY <2>10, <3>2 DEF ensured
      <4> QED
        BY <2>8, <3>2, <4>1, <4>2
    <3> QED
      BY <3>1, <3>2
  <2>12. ASSUME NEW v \in User PROVE Matches(v)'
    <3>1. Matches(v) /\ Matches(u)
      BY <1>2, <2>2 DEF Undisturbed
    <3>2. /\ v = u => ledgerAvailable(v)' = 0 /\ ledgerReserved(v)' = 0
          /\ v = to => /\ ledgerAvailable(v)' = ledgerAvailable(v) + ledgerAvailable(u)
                       /\ ledgerReserved(v)' = ledgerReserved(v) + ledgerReserved(u)
          /\ v \notin {u, to} => /\ ledgerAvailable(v)' = ledgerAvailable(v)
                                 /\ ledgerReserved(v)' = ledgerReserved(v)
      BY <1>1, <2>2, <2>4, LedgerHandedOver
    <3>3. CASE v = u
      <4>1. ensured(v)' = EmptyWallet
        BY <2>7, <3>3 DEF ensured
      <4> QED
        BY <3>2, <3>3, <4>1 DEF Matches, EmptyWallet
    <3>4. CASE v = to
      BY <2>11, <3>1, <3>2, <3>4 DEF Matches
    <3>5. CASE v \notin {u, to}
      <4>1. ensured(v)' = ensured(v)
        BY <2>6, <3>5 DEF ensured
      <4> QED
        BY <3>1, <3>2, <3>5, <4>1 DEF Matches
    <3> QED
      BY <3>3, <3>4, <3>5
  <2>13. \A k \in EntryKey : \A v : /\ k \in rowsOf(v) <=> hasEntry(k) /\ entry[k].user = v
                                    /\ k \in rowsOf(v)' <=> hasEntry(k) /\ entry'[k].user = v
    BY <1>4 DEF rowsOf, hasEntry
  <2>14. \A k \in EntryKey : hasEntry(k) => entry'[k].user = IF entry[k].user = u THEN to
                                                             ELSE entry[k].user
    <3> SUFFICES ASSUME NEW k \in EntryKey, hasEntry(k)
                 PROVE  entry'[k].user = IF entry[k].user = u THEN to ELSE entry[k].user
      OBVIOUS
    <3> DEFINE v == entry[k].user
    <3>1. k \in rowsOf(v)
      BY <2>13
    <3>2. CASE v = u
      BY <2>5, <2>13, <3>1, <3>2
    <3>3. CASE v = to
      BY <1>2, <2>5, <2>13, <3>1, <3>3
    <3>4. CASE v \notin {u, to}
      BY <2>5, <2>13, <3>1, <3>4
    <3> QED
      BY <3>2, <3>3, <3>4
  <2>15. \A k \in allRows' : wallet'[entry'[k].user] # None
    <3> SUFFICES ASSUME NEW k \in allRows PROVE wallet'[entry'[k].user] # None
      BY <1>5
    <3>1. /\ k \in EntryKey /\ hasEntry(k) /\ wallet[entry[k].user] # None /\ entry[k].user \in User
      BY <2>2 DEF allRows, Undisturbed, CoinTypes, hasEntry, Entry
    <3>2. CASE entry[k].user = u
      BY <2>4, <2>10, <2>14, <3>1, <3>2
    <3>3. CASE entry[k].user = to
      BY <1>2, <2>8, <2>10, <2>14, <3>1, <3>3
    <3>4. CASE entry[k].user \notin {u, to}
      BY <2>6, <2>14, <3>1, <3>4
    <3> QED
      BY <3>2, <3>3, <3>4
  <2>16. \A j \in Job : jobUser'[j] # NoUser => entry'[reserveKey(j)].user = jobUser'[j]
    <3> SUFFICES ASSUME NEW j \in Job, jobUser'[j] # NoUser
                 PROVE  entry'[reserveKey(j)].user = jobUser'[j]
      OBVIOUS
    <3>1. jobUser[j] # NoUser
      BY <1>2, <2>5, NobodyIsNoRow
    <3>2. hasEntry(reserveKey(j)) /\ entry[reserveKey(j)].user = jobUser[j]
      BY <2>2, <3>1 DEF RowsWritten, Undisturbed
    <3> QED
      BY <2>5, <2>14, <3>2, KeysAreKeys
  <2>17. ASSUME NEW g \in Handler PROVE Unaware(g)'
    <3>1. CASE g = h
      BY <1>3, <3>1 DEF Unaware, at, Idle
    <3>2. CASE g # h
      <4>1. call'[g] = call[g] /\ Unaware(g)
        BY <1>3, <2>2, <3>2 DEF Undisturbed
      <4>2. CASE at(g, "insertJob") \/ at(g, "settle")
        <5>1. /\ call[g].about \in Job /\ call[g].user # u
              /\ hasEntry(reserveKey(call[g].about)) /\ reserveKey(call[g].about) \in EntryKey
          BY <2>2, <2>3, <3>2, <4>2, KeysAreKeys DEF at, IdentityInv, RequestsFit, Fits, jobSteps,
             moneySteps, RowsWritten
        <5> QED
          BY <2>5, <2>14, <4>1, <4>2, <5>1 DEF Unaware, at
      <4>3. CASE call[g].at \in {"llm", "refund"}
        <5>1. call[g].user # u /\ call[g].user \in User /\ wallet[call[g].user] # None
          BY <2>3, <3>2, <4>1, <4>3 DEF IdentityInv, RequestsFit, Fits, moneySteps, exists, Unaware
        <5>2. wallet'[call[g].user] # None
          BY <1>2, <2>6, <2>8, <2>10, <5>1
        <5> QED
          BY <4>1, <4>3, <5>2 DEF Unaware, at
      <4>4. CASE call[g].at \in {"copyWallet", "dropWallet"}
        <5>1. /\ merging(g) /\ call[g].user # to /\ call[g].user \in User
              /\ call[g].entries = ownedBy(call[g].user)
          BY <2>3, <3>2, <4>1, <4>4 DEF merging, Unaware, IdentityInv, RequestsFit, Fits,
             mergeSteps, exists
        <5>2. CASE call[g].user # u
          <6>1. PICK v : v = call[g].user
            OBVIOUS
          <6>2. \A j \in Job : jobUser'[j] = v <=> jobUser[j] = v
            BY <2>5, <5>1, <5>2, <6>1
          <6>3. ownedBy(v)' = ownedBy(v) /\ wallet'[v] = wallet[v]
            BY <2>5, <2>6, <5>1, <5>2, <6>1, <6>2 DEF ownedBy
          <6> QED
            BY <4>1, <4>4, <5>1, <6>1, <6>3 DEF Unaware, at
        <5>3. CASE call[g].user = u
          <6>1. ownedBy(u) = {} /\ call[g].entries = {}
            BY <2>2, <2>4, <3>2, <5>1, <5>3 DEF RowsWritten
          <6>2. ownedBy(u)' = {}
            <7>1. \A j \in Job : jobUser'[j] # u
              BY <1>2, <2>5
            <7> QED
              BY <2>5, <7>1 DEF ownedBy
          <6>3. rowsOf(u) = {}
            BY <6>1 DEF ownedBy
          <6>4. ledgerAvailable(u) = 0 /\ ledgerReserved(u) = 0
            <7>1. credits(u) = {} /\ debits(u) = {} /\ holds(u) = {}
              BY <6>3 DEF credits, debits, holds
            <7> QED
              BY <7>1, WorthOfNone DEF ledgerAvailable, ledgerReserved
          <6>5. ensured(u) = EmptyWallet
            BY <1>2, <2>2, <2>9, <6>4 DEF Undisturbed, Matches, Wallet, EmptyWallet
          <6>6. at(g, "dropWallet") => call[g].copied \in {EmptyWallet, None}
            BY <4>1, <5>3, <6>5 DEF Unaware, ensured
          <6> QED
            BY <2>7, <4>1, <4>4, <5>3, <6>1, <6>2, <6>6 DEF Unaware, at
        <5> QED
          BY <5>2, <5>3
      <4> QED
        BY <4>1, <4>2, <4>3, <4>4 DEF Unaware, at
    <3> QED
      BY <3>1, <3>2
  <2> QED
    BY <2>12, <2>15, <2>16, <2>17 DEF Undisturbed
<1> QED
  BY <1>6, <1>7 DEF LedgerInv

-----------------------------------------------------------------------------
LEMMA LedgerInit == Init => LedgerInv
<1> SUFFICES ASSUME Init PROVE LedgerInv
  OBVIOUS
<1> USE DEF Init, IdentityInit, CoinInit
<1>1. \A h \in Handler : call[h] = Idle
  OBVIOUS
<1>2. allRows = {} /\ \A k \in EntryKey : ~ hasEntry(k)
  BY DEF allRows, hasEntry
<1>3. \A j \in Job : jobUser[j] = NoUser /\ ~ settled(j)
  BY <1>2, KeysAreKeys DEF settled
<1>4. RowsWritten
  BY <1>1, <1>2, <1>3, FS_EmptySet DEF RowsWritten, Idle, at, jobSteps
<1>5. ASSUME NEW u \in User PROVE Matches(u)
  <2>1. credits(u) = {} /\ debits(u) = {} /\ holds(u) = {}
    BY <1>2 DEF credits, debits, holds, rowsOf
  <2> QED
    BY <2>1, WorthOfNone DEF Matches, ledgerAvailable, ledgerReserved, ensured, EmptyWallet
<1>6. \A h \in Handler : Unaware(h)
  BY <1>1 DEF Unaware, Idle, at
<1> QED
  BY <1>2, <1>3, <1>4, <1>5, <1>6 DEF LedgerInv, Undisturbed

LEMMA LedgerStep ==
  ASSUME IdentityInv, WorkloadTyped, CoinTypes, LedgerInv, [Next]_vars
  PROVE  LedgerInv'
<1>1. CASE UNCHANGED vars
  <2>1. UNCHANGED <<wallet, entry, jobUser, overtaken, call>>
    BY <1>1 DEF vars, coinVars
  <2>2. /\ allRows' = allRows
        /\ \A j : settled(j)' <=> settled(j)
        /\ \A u : ownedBy(u)' = ownedBy(u)
        /\ \A u : Matches(u)' <=> Matches(u)
    BY <2>1 DEF ownedBy, rowsOf, allRows, hasEntry, Matches, ensured, ledgerAvailable,
                ledgerReserved, worth, credits, debits, holds, settled
  <2>3. RowsWritten' <=> RowsWritten
    BY <2>1, <2>2 DEF RowsWritten, hasEntry, at
  <2>4. Undisturbed' <=> Undisturbed
    BY <2>1, <2>2 DEF Undisturbed, Unaware, at
  <2> QED
    BY <2>1, <2>3, <2>4 DEF LedgerInv
<1>2. ASSUME NEW h \in Handler, newCall(h) PROVE LedgerInv'
  <2>1. ASSUME NEW d \in Device \cup {None}, create_guest(h, d), UNCHANGED coinVars
        PROVE  LedgerInv'
    BY <2>1, LedgerSignIn
  <2>2. ASSUME NEW t \in Token \cup {None}, NEW s \in AppleId, sign_in_with_apple(h, t, s),
               UNCHANGED coinVars
        PROVE  LedgerInv'
    BY <2>2, LedgerSignIn
  <2>3. ASSUME NEW t \in Token, logout(h, t), UNCHANGED coinVars PROVE LedgerInv'
    BY <2>3, LedgerSignIn
  <2>4. workload.subs \subseteq AppleId
    BY DEF WorkloadTyped
  <2>5. ASSUME NEW t \in Token, NEW p \in Purchase, grant(h, t, p) PROVE LedgerInv'
    BY <2>5, LedgerGrant
  <2>6. ASSUME NEW t \in Token, NEW o \in Op, askLyrics(h, t, o) PROVE LedgerInv'
    BY <2>6, LedgerAsked
  <2>7. ASSUME NEW t \in Token, NEW j \in Job, askJob(h, t, j) PROVE LedgerInv'
    BY <2>7, LedgerAsked
  <2> QED
    BY <1>2, <2>1, <2>2, <2>3, <2>4, <2>5, <2>6, <2>7 DEF newCall
<1>3. ASSUME NEW h \in Handler, settleJob(h) \/ abort(h) PROVE LedgerInv'
  BY <1>3, LedgerAsked DEF settleJob
<1>4. ASSUME NEW h \in Handler, serve(h) PROVE LedgerInv'
  <2>1. CASE (claim(h) \/ reread(h) \/ findApple(h) \/ promote(h)) /\ UNCHANGED coinVars
    BY <2>1, LedgerSignIn
  <2>2. CASE coins(h)
    BY <2>2, LedgerCharge, LedgerAsked, LedgerRefund, LedgerReserve, LedgerInsertsJob, LedgerSettle
       DEF coins
  <2>3. CASE merge(h)
    BY <2>3, LedgerMerge, LedgerMerged DEF merge
  <2> QED
    BY <1>4, <2>1, <2>2, <2>3 DEF serve
<1> QED
  BY <1>1, <1>2, <1>3, <1>4 DEF Next

(* Every wallet holds what the ledger says of its user, through any         *)
(* interleaving of purchases, lyrics calls, jobs and merges in which nobody *)
(* spends or earns while being merged away.                                 *)
THEOREM WalletsFollowLedger == Spec => []WalletsMatchLedger
<1> DEFINE Inv == AccountsInv /\ LedgerInv
<1>1. Init => Inv
  BY AccountsInit, LedgerInit
<1>2. Inv /\ [Next]_vars => Inv'
  BY AccountsStep, LedgerStep DEF AccountsInv
<1>3. Inv => WalletsMatchLedger
  <2> SUFFICES ASSUME Inv, overtaken = {}, NEW u \in User
               PROVE  ensured(u) = [available |-> ledgerAvailable(u), reserved |-> ledgerReserved(u)]
    BY DEF WalletsMatchLedger
  <2>1. ensured(u) \in Wallet /\ Matches(u)
    BY EnsuredIsWallet DEF AccountsInv, LedgerInv, Undisturbed
  <2> QED
    BY <2>1 DEF Matches, Wallet
<1> QED
  BY <1>1, <1>2, <1>3, PTL DEF Spec
=============================================================================
