-------------------------- MODULE GitHubSyncProofs --------------------------
(***************************************************************************)
(* Proofs about GitHubSync, for any number of syncs, any repository, any   *)
(* cap on its listings and any set of faults.                              *)
(***************************************************************************)
EXTENDS GitHubSync, FiniteSetTheorems, TLAPS

PCs == {"idle", "connected", "commit", "ended"} \cup Kinds

LEMMA NextKindType ==
    ASSUME NEW k \in Kinds
    PROVE  NextKind(k) \in {"issue", "pr", "commit"}
BY DEF Kinds, NextKind

LEMMA MirroredType ==
    ASSUME NEW s, NEW k \in Kinds
    PROVE  Mirrored(s, k) \subseteq Items \ Dirs
BY SyncAssumption DEF Kinds, Mirrored, FilesMirrored, IssuesMirrored, Items

LEMMA ListingType ==
    ASSUME TypeOK, NEW s, NEW k \in Kinds
    PROVE  Listing(s, k) \in SUBSET Items /\ Listable(s) \in SUBSET Items
BY DEF TypeOK, Listing, Listable

\* What a sync would list: the root's contents, and the issues and pull requests in
\* the states it asks for.
LEMMA ListableIs ==
    ASSUME NEW s
    PROVE  /\ Listable(s) = remote \cap (Files \cup Dirs \cup InState(s))
           /\ Listable(s)' = remote' \cap (Files \cup Dirs \cup InState(s)')
<1> USE DEF Listing, FilesListed, IssuesListed, PullsListed
<1>1. /\ Listing(s, "code") = remote \cap (Files \cup Dirs)
      /\ Listing(s, "issue") = remote \cap InState(s)
      /\ Listing(s, "pr") = remote \cap Pulls \cap InState(s)
  OBVIOUS
<1>2. /\ Listing(s, "code")' = remote' \cap (Files \cup Dirs)
      /\ Listing(s, "issue")' = remote' \cap InState(s)'
      /\ Listing(s, "pr")' = remote' \cap Pulls \cap InState(s)'
  OBVIOUS
<1> HIDE DEF Listing
<1>3. /\ Listable(s) = Listing(s, "code") \cup Listing(s, "issue") \cup Listing(s, "pr")
      /\ Listable(s)' = Listing(s, "code")' \cup Listing(s, "issue")' \cup Listing(s, "pr")'
  BY DEF Listable, Kinds
<1>4. QED
  BY <1>1, <1>2, <1>3

\* It depends on the repository, and on who asks.
LEMMA SameListable ==
    ASSUME UNCHANGED <<by, remote, closed>>, NEW s
    PROVE  Listable(s)' = Listable(s)
BY DEF Listable, Listing, FilesListed, IssuesListed, PullsListed, InState

\* The first Cap of a listing of the repository are no more than Cap, and all of
\* it if it has no more.
LEMMA FirstOfFacts ==
    ASSUME NEW A \in SUBSET Items, NEW L \in FirstOf(A)
    PROVE  /\ IsFiniteSet(L) /\ Cardinality(L) <= Cap
           /\ Cardinality(A) > Cap \/ L = A
<1>1. IsFiniteSet(A) /\ IsFiniteSet(L) /\ L \in SUBSET A
  <2>1. IsFiniteSet(Items)
    BY SyncAssumption DEF Items
  <2>2. IsFiniteSet(A)
    BY <2>1, FS_Subset
  <2>3. QED
    BY <2>2, FS_Subset DEF FirstOf
<1>2. Cardinality(A) \in Nat /\ Cap \in Nat
  BY <1>1, FS_CardinalityType, SyncAssumption
<1>3. Cardinality(L) = Least(Cap, Cardinality(A))
  BY DEF FirstOf
<1>4. Cardinality(L) <= Cap
  BY <1>2, <1>3 DEF Least
<1>5. ASSUME Cardinality(A) <= Cap PROVE L = A
  <2>1. Cardinality(L) = Cardinality(A)
    BY <1>2, <1>3, <1>5 DEF Least
  <2>2. QED
    BY <1>1, <2>1, FS_Subset
<1>6. Cardinality(A) > Cap \/ Cardinality(A) <= Cap
  BY <1>2
<1>7. QED
  BY <1>1, <1>4, <1>5, <1>6

-----------------------------------------------------------------------------
LEMMA TypeInit == Init => TypeOK
<1> SUFFICES ASSUME Init PROVE TypeOK
  OBVIOUS
<1>1. \A s \in Syncs : Cardinality(left[s]) <= Cap
  BY FS_EmptySet, SyncAssumption DEF Init
<1>2. QED
  BY <1>1 DEF Init, TypeOK

LEMMA TypeNext ==
    ASSUME TypeOK, [Next]_vars
    PROVE  TypeOK'
<1> USE DEF TypeOK
<1>1. ASSUME NEW i \in Items, Change(i) PROVE TypeOK'
  BY <1>1 DEF Change
<1>0. ASSUME NEW i \in Issues \cup Pulls, CloseOrReopen(i) PROVE TypeOK'
  BY <1>0 DEF CloseOrReopen
<1>2. ASSUME NEW s \in Syncs, Connect(s) PROVE TypeOK'
  BY <1>2 DEF Connect
<1>3. ASSUME NEW s \in Syncs, Begin(s) PROVE TypeOK'
  <2>1. [sync |-> s, kind |-> "repo"] \in Repo
    BY DEF Repo
  <2>2. pending' \in [Syncs -> SUBSET (Repo \cup Row)] /\ pc' \in [Syncs -> PCs]
    BY <1>3, <2>1 DEF Begin, PCs, Kinds
  <2>0. Listable(s) \in SUBSET Items
    BY ListingType DEF Kinds
  <2>3. steady' \in [Syncs -> SUBSET Items] /\ errors' \in [Syncs -> BOOLEAN] /\ broken' \in [Syncs -> BOOLEAN]
    BY <1>3, <2>0 DEF Begin
  <2>4. UNCHANGED <<by, remote, closed, rows, listed, left, counted, answer, cut>>
    BY <1>3 DEF Begin
  <2>5. QED
    BY <2>2, <2>3, <2>4 DEF PCs
<1>4. ASSUME NEW s \in Syncs, NEW k \in Kinds, List(s, k) PROVE TypeOK'
  <2>1. CASE /\ \E L \in FirstOf(Listing(s, k)) :
                    left' = [left EXCEPT ![s] = L \cap Mirrored(s, k)]
             /\ listed' = [listed EXCEPT ![s] = TRUE]
             /\ cut' = IF Cardinality(Listing(s, k)) > Cap
                       THEN [cut EXCEPT ![s] = @ \cup {k}] ELSE cut
             /\ UNCHANGED <<pc, errors>>
    <3>1. PICK L \in FirstOf(Listing(s, k)) :
              left' = [left EXCEPT ![s] = L \cap Mirrored(s, k)]
      BY <2>1
    <3>2. Cardinality(L \cap Mirrored(s, k)) <= Cap
      <4>1. IsFiniteSet(L) /\ Cardinality(L) <= Cap
        BY ListingType, FirstOfFacts
      <4>2. /\ Cardinality(L \cap Mirrored(s, k)) <= Cardinality(L)
            /\ IsFiniteSet(L \cap Mirrored(s, k))
        BY <4>1, FS_Subset
      <4>3. Cardinality(L) \in Nat /\ Cardinality(L \cap Mirrored(s, k)) \in Nat
        BY <4>1, <4>2, FS_CardinalityType
      <4>4. QED
        BY <4>1, <4>2, <4>3, SyncAssumption
    <3>3. L \cap Mirrored(s, k) \subseteq Items \ Dirs
      BY MirroredType
    <3>4. /\ left' \in [Syncs -> SUBSET (Items \ Dirs)]
          /\ \A z \in Syncs : Cardinality(left'[z]) <= Cap
      BY <3>1, <3>2, <3>3
    <3>5. cut' \in [Syncs -> SUBSET Kinds] /\ listed' \in [Syncs -> BOOLEAN]
      BY <2>1
    <3>6. QED
      BY <1>4, <2>1, <3>4, <3>5 DEF List
  <2>2. CASE /\ errors' = [errors EXCEPT ![s] = TRUE]
             /\ pc' = [pc EXCEPT ![s] = NextKind(k)]
             /\ UNCHANGED <<left, listed, cut>>
    BY <1>4, <2>2, NextKindType DEF List, Kinds
  <2>3. QED
    BY <1>4, <2>1, <2>2 DEF List
<1>5. ASSUME NEW s \in Syncs, NEW i \in Items, Insert(s, i) PROVE TypeOK'
  <2>1. RowOf(s, i) \in Row
    BY <1>5 DEF Insert, RowOf, Row
  <2>2. pending' \in [Syncs -> SUBSET (Repo \cup Row)]
    BY <1>5, <2>1 DEF Insert, Break
  <2>3. counted' \in [Syncs -> SUBSET Row]
    BY <1>5, <2>1 DEF Insert
  <2>4. errors' \in [Syncs -> BOOLEAN] /\ broken' \in [Syncs -> BOOLEAN]
    BY <1>5 DEF Insert, Break
  <2>5. left' \in [Syncs -> SUBSET (Items \ Dirs)]
    BY <1>5 DEF Insert
  <2>6. \A z \in Syncs : Cardinality(left'[z]) <= Cap
    <3>1. \A z \in Syncs \ {s} : left'[z] = left[z]
      BY <1>5 DEF Insert
    <3>2. left'[s] = left[s] \ {i} /\ IsFiniteSet(left[s])
      <4>1. IsFiniteSet(Items)
        BY SyncAssumption DEF Items
      <4>2. left[s] \in SUBSET Items
        OBVIOUS
      <4>3. IsFiniteSet(left[s])
        BY <4>1, <4>2, FS_Subset
      <4>4. QED
        BY <1>5, <4>3 DEF Insert
    <3>3. Cardinality(left'[s]) <= Cardinality(left[s]) /\ IsFiniteSet(left'[s])
      BY <3>2, FS_Subset
    <3>4. Cardinality(left'[s]) \in Nat /\ Cardinality(left[s]) \in Nat
      BY <3>2, <3>3, FS_CardinalityType
    <3>5. Cardinality(left'[s]) <= Cap
      BY <3>3, <3>4, SyncAssumption
    <3>6. QED
      BY <3>1, <3>5
  <2>7. UNCHANGED <<by, remote, closed, rows, pc, listed, answer, steady, cut>>
    BY <1>5 DEF Insert
  <2>8. QED
    BY <2>2, <2>3, <2>4, <2>5, <2>6, <2>7
<1>6. ASSUME NEW s \in Syncs, EndOfList(s) PROVE TypeOK'
  BY <1>6, NextKindType DEF EndOfList, Kinds
<1>7. ASSUME NEW s \in Syncs, Commit(s) PROVE TypeOK'
  BY <1>7 DEF Commit
<1>8. CASE UNCHANGED vars
  BY <1>8 DEF vars
<1>9. QED
  BY <1>0, <1>1, <1>2, <1>3, <1>4, <1>5, <1>6, <1>7, <1>8 DEF Next

-----------------------------------------------------------------------------
RepoOf(s) == [sync |-> s, kind |-> "repo"]
ItemRow(s, k, i) == [sync |-> s, kind |-> k, item |-> i]

\* A sync that is at `at' has done with the items of kind k.
Past(k, at) ==
    CASE k = "code"  -> at \in {"issue", "pr", "commit", "ended"}
      [] k = "issue" -> at \in {"pr", "commit", "ended"}
      [] k = "pr"    -> at \in {"commit", "ended"}

(***************************************************************************)
(* The three properties are about what is committed, and so not            *)
(* inductive: it is the session of a sync that must be right before its    *)
(* commit, and the listings that must have left nothing out.               *)
(***************************************************************************)
SessionInv(s) ==
    /\ \A x \in pending[s] : x.sync = s
    /\ broken[s] => pending[s] = {} /\ errors[s]
    /\ ~broken[s] => pending[s] \cap Row = counted[s]
    /\ pc[s] \in {"idle", "connected"} => pending[s] = {} /\ ~broken[s] /\ ~errors[s] /\ steady[s] = {}
    /\ pc[s] \in Kinds /\ ~broken[s] => RepoOf(s) \in pending[s]
    /\ pending[s] # {} => RepoOf(s) \in pending[s]
    /\ pc[s] \notin Kinds => ~listed[s]

CommitInv(s) ==
    /\ answer[s] # "none" => pc[s] = "ended"
    /\ pc[s] # "ended" \/ answer[s] = "error" => Of(s) = {}
    /\ answer[s] = "success" => Of(s) = pending[s] /\ ~broken[s]
    /\ pc[s] = "ended" => answer[s] # "none"

ListingInv(s) ==
    /\ steady[s] \subseteq Listable(s)
    /\ \A i \in steady[s] \ Dirs : ~errors[s] /\ KindOf(i) \notin cut[s] =>
          /\ Past(KindOf(i), pc[s]) => ItemRow(s, KindOf(i), i) \in pending[s]
          /\ pc[s] = KindOf(i) /\ listed[s] =>
                i \in left[s] \/ ItemRow(s, KindOf(i), i) \in pending[s]

SyncInv(s) == SessionInv(s) /\ CommitInv(s) /\ ListingInv(s)

Inv == TypeOK /\ \A s \in Syncs : SyncInv(s)

\* A step that is not of z leaves its session and its rows alone.
Untouched(z) ==
    /\ UNCHANGED <<pc[z], listed[z], left[z], pending[z], broken[z], counted[z], errors[z],
                   answer[z], steady[z], cut[z], remote, closed, by>>
    /\ Of(z)' = Of(z)

LEMMA UntouchedKeeps ==
    ASSUME NEW z \in Syncs, SyncInv(z), Untouched(z)
    PROVE  SyncInv(z)'
<1>1. Listable(z)' = Listable(z)
  BY SameListable DEF Untouched
<1>2. QED
  BY <1>1 DEF Untouched, SyncInv, SessionInv, CommitInv, ListingInv, ItemRow

LEMMA KindOfFacts ==
    ASSUME NEW s, NEW i \in Listable(s) \ Dirs
    PROVE  /\ KindOf(i) \in Kinds
           /\ i \in Listing(s, KindOf(i)) /\ i \in Mirrored(s, KindOf(i))
<1>1. i \in remote /\ (i \in Files \/ (i \in InState(s) /\ i \in Issues \cup Pulls))
  BY ListableIs DEF InState
<1>2. KindOf(i) \in Kinds
  BY DEF KindOf, Kinds
<1>3. i \in Listing(s, KindOf(i))
  BY <1>1 DEF Listing, KindOf, FilesListed, IssuesListed, PullsListed
<1>4. i \in Mirrored(s, KindOf(i))
  BY <1>1 DEF Mirrored, KindOf, FilesMirrored, IssuesMirrored
<1>5. QED
  BY <1>2, <1>3, <1>4

LEMMA InvInit == Init => Inv
<1> SUFFICES ASSUME Init, NEW s \in Syncs PROVE SyncInv(s)
  BY TypeInit DEF Inv
<1>1. SessionInv(s)
  BY DEF Init, SessionInv, Kinds
<1>2. CommitInv(s)
  BY DEF Init, CommitInv, Of
<1>3. ListingInv(s)
  BY DEF Init, ListingInv
<1>4. QED
  BY <1>1, <1>2, <1>3 DEF SyncInv

\* The repository changes: what a sync would list loses no item but the one that
\* leaves its steady ones as well.
LEMMA InvRemote ==
    ASSUME Inv, NEW s \in Syncs, steady'[s] \subseteq steady[s], steady'[s] \subseteq Listable(s)',
           UNCHANGED <<rows, pc, listed, left, pending, broken, counted, errors, answer, cut>>
    PROVE  SyncInv(s)'
<1>1. SyncInv(s) /\ TypeOK
  BY DEF Inv
<1>2. SessionInv(s)' /\ CommitInv(s)'
  BY <1>1 DEF SyncInv, SessionInv, CommitInv, Of
<1>3. ListingInv(s)'
  BY <1>1 DEF SyncInv, ListingInv, ItemRow
<1>4. QED
  BY <1>2, <1>3 DEF SyncInv

LEMMA InvChange ==
    ASSUME Inv, NEW i \in Items, Change(i), NEW s \in Syncs
    PROVE  SyncInv(s)'
<1>1. steady[s] \subseteq Listable(s)
  BY DEF Inv, SyncInv, ListingInv
<1>2. steady'[s] = steady[s] \ {i}
  BY DEF Change
<1>3. \A x \in Listable(s) \ {i} : x \in Listable(s)'
  <2>1. /\ Listable(s) = remote \cap (Files \cup Dirs \cup InState(s))
        /\ Listable(s)' = remote' \cap (Files \cup Dirs \cup InState(s)')
    BY ListableIs
  <2>2. QED
    BY <2>1 DEF Change, InState
<1>4. QED
  BY <1>1, <1>2, <1>3, InvRemote DEF Change

LEMMA InvCloseOrReopen ==
    ASSUME Inv, NEW i \in Issues \cup Pulls, CloseOrReopen(i), NEW s \in Syncs
    PROVE  SyncInv(s)'
<1>1. steady[s] \subseteq Listable(s)
  BY DEF Inv, SyncInv, ListingInv
<1>2. steady'[s] = IF by[s] = "app" THEN steady[s] ELSE steady[s] \ {i}
  BY DEF CloseOrReopen
<1>3. \A x \in Listable(s) : by[s] = "app" \/ x # i => x \in Listable(s)'
  <2>1. /\ Listable(s) = remote \cap (Files \cup Dirs \cup InState(s))
        /\ Listable(s)' = remote' \cap (Files \cup Dirs \cup InState(s)')
    BY ListableIs
  <2>2. QED
    BY <2>1 DEF CloseOrReopen, InState
<1>4. steady'[s] \subseteq steady[s] /\ steady'[s] \subseteq Listable(s)'
  BY <1>1, <1>2, <1>3
<1>5. QED
  BY <1>4, InvRemote DEF CloseOrReopen

LEMMA InvConnect ==
    ASSUME Inv, NEW s \in Syncs, Connect(s), NEW z \in Syncs
    PROVE  SyncInv(z)'
<1>1. SyncInv(z) /\ TypeOK
  BY DEF Inv
<1>2. UNCHANGED <<by, remote, closed, rows, listed, left, pending, broken, counted, errors, steady, cut>>
  BY DEF Connect
<1>0. Listable(z)' = Listable(z)
  BY <1>2, SameListable
<1>3. CASE z # s
  <2>1. Untouched(z)
    BY <1>1, <1>3 DEF Connect, TypeOK, Untouched, Of
  <2>2. QED
    BY <1>1, <2>1, UntouchedKeeps
<1>4. CASE z = s
  <2>1. /\ pc[s] = "idle"
        /\ \/ pc'[s] = "connected" /\ answer'[s] = answer[s]
           \/ pc'[s] = "ended" /\ answer'[s] = "error"
    BY <1>1 DEF Connect, TypeOK
  <2>2. SessionInv(s)' /\ CommitInv(s)'
    BY <1>1, <1>2, <1>4, <2>1 DEF SyncInv, SessionInv, CommitInv, Of, Kinds
  <2>3. steady[s] = {}
    BY <1>1, <1>4, <2>1 DEF SyncInv, SessionInv
  <2>4. ListingInv(s)'
    BY <1>0, <1>2, <1>4, <2>3 DEF ListingInv
  <2>5. QED
    BY <1>4, <2>2, <2>4 DEF SyncInv
<1>5. QED
  BY <1>3, <1>4

LEMMA InvBegin ==
    ASSUME Inv, NEW s \in Syncs, Begin(s), NEW z \in Syncs
    PROVE  SyncInv(z)'
<1>1. SyncInv(z) /\ TypeOK
  BY DEF Inv
<1>2. UNCHANGED <<by, remote, closed, rows, listed, left, counted, answer, cut>>
  BY DEF Begin
<1>0. Listable(z)' = Listable(z)
  BY <1>2, SameListable
<1>3. CASE z # s
  <2>1. UNCHANGED <<pc[z], pending[z], broken[z], errors[z], steady[z]>>
    BY <1>1, <1>3 DEF Begin, TypeOK
  <2>2. Untouched(z)
    BY <1>2, <2>1 DEF Untouched, Of
  <2>3. QED
    BY <1>1, <2>2, UntouchedKeeps
<1>4. CASE z = s
  <2>1. pc[s] = "connected" /\ steady'[s] = Listable(s)
    BY <1>1 DEF Begin, TypeOK
  <2>2. /\ pending[s] = {} /\ counted[s] = {} /\ ~broken[s] /\ ~errors[s]
        /\ answer[s] = "none" /\ Of(s) = {} /\ ~listed[s]
    BY <1>1, <1>4, <2>1 DEF SyncInv, SessionInv, CommitInv, Kinds
  <2>3. \/ /\ pc'[s] = "code" /\ pending'[s] = {RepoOf(s)}
           /\ broken'[s] = broken[s] /\ errors'[s] = errors[s]
        \/ /\ pc'[s] = "commit" /\ pending'[s] = pending[s] /\ errors'[s] = TRUE
           /\ broken'[s] \in BOOLEAN
    BY <1>1 DEF Begin, TypeOK, RepoOf
  <2>4. {RepoOf(s)} \cap Row = {} /\ RepoOf(s).sync = s
    BY DEF RepoOf, Row, Kinds
  <2>5. SessionInv(s)'
    BY <1>2, <2>2, <2>3, <2>4 DEF SessionInv, Kinds, RepoOf
  <2>6. CommitInv(s)'
    BY <1>2, <2>2, <2>3 DEF CommitInv, Of
  <2>7. ListingInv(s)'
    <3>1. steady'[s] \subseteq Items
      BY <1>1, <2>1, ListingType DEF Kinds
    <3>2. ~listed'[s]
      BY <1>1, <1>2, <1>4, <2>1 DEF SyncInv, SessionInv, Kinds
    <3>3. \A i : ~Past(KindOf(i), "code")
      BY DEF Past, KindOf
    <3>4. QED
      BY <1>0, <1>2, <1>4, <2>1, <2>3, <3>1, <3>2, <3>3 DEF ListingInv
  <2>8. QED
    BY <1>4, <2>5, <2>6, <2>7 DEF SyncInv
<1>5. QED
  BY <1>3, <1>4

LEMMA InvList ==
    ASSUME Inv, NEW s \in Syncs, NEW k \in Kinds, List(s, k), NEW z \in Syncs
    PROVE  SyncInv(z)'
<1>1. SyncInv(z) /\ TypeOK
  BY DEF Inv
<1>2. UNCHANGED <<by, remote, closed, rows, pending, broken, counted, answer, steady>>
  BY DEF List
<1>0. Listable(z)' = Listable(z)
  BY <1>2, SameListable
<1>3. CASE z # s
  <2>1. UNCHANGED <<pc[z], listed[z], left[z], errors[z], cut[z]>>
    BY <1>1, <1>3 DEF List, TypeOK
  <2>2. Untouched(z)
    BY <1>2, <2>1 DEF Untouched, Of
  <2>3. QED
    BY <1>1, <2>2, UntouchedKeeps
<1>4. CASE z = s /\ UNCHANGED <<pc, errors>>
  <2>1. pc[s] = k /\ ~listed[s]
    BY DEF List
  <2>2. PICK L \in FirstOf(Listing(s, k)) :
            /\ left'[s] = L \cap Mirrored(s, k)
            /\ cut'[s] = IF Cardinality(Listing(s, k)) > Cap THEN cut[s] \cup {k} ELSE cut[s]
    <3>1. pc[s] # NextKind(k)
      BY <2>1 DEF NextKind, Kinds
    <3>2. pc' # [pc EXCEPT ![s] = NextKind(k)]
      BY <1>1, <1>4, <3>1 DEF TypeOK
    <3>3. QED
      BY <1>1, <3>2 DEF List, TypeOK
  <2>3. SessionInv(s)' /\ CommitInv(s)'
    BY <1>1, <1>2, <1>4, <2>1 DEF SyncInv, SessionInv, CommitInv, Of
  <2>4. Cardinality(Listing(s, k)) > Cap \/ L = Listing(s, k)
    <3>1. Listing(s, k) \in SUBSET Items
      BY <1>1, ListingType
    <3>2. QED
      BY <3>1, FirstOfFacts
  <2>5. ListingInv(s)
    BY <1>1, <1>4 DEF SyncInv
  <2>6. ASSUME NEW i \in steady[s] \ Dirs, KindOf(i) = k, k \notin cut'[s]
        PROVE  i \in left'[s]
    <3>1. L = Listing(s, k)
      BY <2>2, <2>4, <2>6
    <3>2. i \in Listable(s) \ Dirs
      BY <2>5, <2>6 DEF ListingInv
    <3>3. i \in Listing(s, k) /\ i \in Mirrored(s, k)
      BY <2>6, <3>2, KindOfFacts
    <3>4. QED
      BY <2>2, <3>1, <3>2, <3>3
  <2>7. cut[s] \subseteq cut'[s]
    BY <2>2
  <2>8. ListingInv(s)'
    BY <1>0, <1>2, <1>4, <2>1, <2>5, <2>6, <2>7 DEF ListingInv, ItemRow
  <2>9. QED
    BY <1>4, <2>3, <2>8 DEF SyncInv
<1>5. CASE z = s /\ ~UNCHANGED <<pc, errors>>
  <2>1. /\ pc[s] = k /\ ~listed[s]
        /\ errors'[s] = TRUE /\ pc'[s] = NextKind(k) /\ UNCHANGED <<left, listed, cut>>
    BY <1>1, <1>5 DEF List, TypeOK
  <2>2. SessionInv(s)' /\ CommitInv(s)'
    BY <1>1, <1>2, <1>5, <2>1, NextKindType DEF SyncInv, SessionInv, CommitInv, Of, Kinds
  <2>3. ListingInv(s)'
    BY <1>0, <1>1, <1>2, <1>5, <2>1 DEF SyncInv, ListingInv
  <2>4. QED
    BY <1>5, <2>2, <2>3 DEF SyncInv
<1>6. QED
  BY <1>3, <1>4, <1>5

LEMMA InvInsert ==
    ASSUME Inv, NEW s \in Syncs, NEW i \in Items, Insert(s, i), NEW z \in Syncs
    PROVE  SyncInv(z)'
<1>1. SyncInv(z) /\ TypeOK
  BY DEF Inv
<1>2. UNCHANGED <<by, remote, closed, rows, pc, listed, answer, steady, cut>>
  BY DEF Insert
<1>0. Listable(z)' = Listable(z)
  BY <1>2, SameListable
<1>3. CASE z # s
  <2>1. UNCHANGED <<left[z], pending[z], broken[z], counted[z], errors[z]>>
    BY <1>1, <1>3 DEF Insert, Break, TypeOK
  <2>2. Untouched(z)
    BY <1>2, <2>1 DEF Untouched, Of
  <2>3. QED
    BY <1>1, <2>2, UntouchedKeeps
<1>4. CASE z = s
  <2>1. pc[s] \in Kinds /\ listed[s] /\ i \in left[s] /\ left'[s] = left[s] \ {i}
    BY <1>1 DEF Insert, TypeOK
  <2>2. \/ /\ ~broken[s] /\ broken'[s] = broken[s] /\ errors'[s] = errors[s]
           /\ pending'[s] = pending[s] \cup {RowOf(s, i)} /\ counted'[s] = counted[s] \cup {RowOf(s, i)}
        \/ /\ errors'[s] = TRUE /\ pending'[s] = pending[s] /\ counted'[s] = counted[s]
           /\ broken'[s] = broken[s]
        \/ /\ errors'[s] = TRUE /\ pending'[s] = {} /\ broken'[s] = TRUE /\ counted'[s] = counted[s]
    BY <1>1 DEF Insert, Break, TypeOK
  <2>3. RowOf(s, i) \in Row /\ RowOf(s, i).sync = s /\ RowOf(s, i) = ItemRow(s, pc[s], i)
    BY <1>1, <2>1 DEF RowOf, Row, ItemRow, TypeOK
  <2>4. SessionInv(s)'
    BY <1>1, <1>2, <1>4, <2>1, <2>2, <2>3 DEF SyncInv, SessionInv, Kinds
  <2>5. CommitInv(s)'
    BY <1>1, <1>2, <1>4, <2>1 DEF SyncInv, CommitInv, Of, Kinds
  <2>6. ListingInv(s)'
    BY <1>0, <1>1, <1>2, <1>4, <2>1, <2>2, <2>3 DEF SyncInv, ListingInv
  <2>7. QED
    BY <1>4, <2>4, <2>5, <2>6 DEF SyncInv
<1>5. QED
  BY <1>3, <1>4

LEMMA InvEndOfList ==
    ASSUME Inv, NEW s \in Syncs, EndOfList(s), NEW z \in Syncs
    PROVE  SyncInv(z)'
<1>1. SyncInv(z) /\ TypeOK
  BY DEF Inv
<1>2. UNCHANGED <<by, remote, closed, rows, left, pending, broken, counted, errors, answer, steady, cut>>
  BY DEF EndOfList
<1>0. Listable(z)' = Listable(z)
  BY <1>2, SameListable
<1>3. CASE z # s
  <2>1. UNCHANGED <<pc[z], listed[z]>>
    BY <1>1, <1>3 DEF EndOfList, TypeOK
  <2>2. Untouched(z)
    BY <1>2, <2>1 DEF Untouched, Of
  <2>3. QED
    BY <1>1, <2>2, UntouchedKeeps
<1>4. CASE z = s
  <2>1. /\ pc[s] \in Kinds /\ listed[s] /\ left[s] = {}
        /\ pc'[s] = NextKind(pc[s]) /\ ~listed'[s]
    BY <1>1 DEF EndOfList, TypeOK
  <2>2. pc'[s] \in {"issue", "pr", "commit"}
    BY <2>1, NextKindType
  <2>3. SessionInv(s)' /\ CommitInv(s)'
    BY <1>1, <1>2, <1>4, <2>1, <2>2 DEF SyncInv, SessionInv, CommitInv, Of, Kinds
  <2>4. ASSUME NEW i \in Items \ Dirs, Past(KindOf(i), pc'[s])
        PROVE  KindOf(i) = pc[s] \/ Past(KindOf(i), pc[s])
    BY <2>1, <2>4 DEF Past, KindOf, NextKind, Kinds
  <2>5. ListingInv(s)'
    <3>1. ListingInv(s) /\ steady[s] \subseteq Items
      BY <1>1, <1>4 DEF SyncInv, TypeOK
    <3>2. QED
      BY <1>0, <1>2, <1>4, <2>1, <2>4, <3>1 DEF ListingInv, ItemRow
  <2>6. QED
    BY <1>4, <2>3, <2>5 DEF SyncInv
<1>5. QED
  BY <1>3, <1>4

LEMMA InvCommit ==
    ASSUME Inv, NEW s \in Syncs, Commit(s), NEW z \in Syncs
    PROVE  SyncInv(z)'
<1>1. SyncInv(z) /\ SyncInv(s) /\ TypeOK
  BY DEF Inv
<1>2. UNCHANGED <<by, remote, closed, listed, left, pending, broken, counted, errors, steady, cut>>
  BY DEF Commit
<1>0. Listable(z)' = Listable(z)
  BY <1>2, SameListable
<1>3. /\ pc[s] = "commit" /\ pc'[s] = "ended"
      /\ \/ ~broken[s] /\ rows' = rows \cup pending[s] /\ answer'[s] = "success"
         \/ answer'[s] = "error" /\ rows' = rows
  BY <1>1 DEF Commit, TypeOK
<1>4. \A x \in pending[s] : x.sync = s
  BY <1>1 DEF SyncInv, SessionInv
<1>5. CASE z # s
  <2>1. UNCHANGED <<pc[z], answer[z]>>
    BY <1>1, <1>5 DEF Commit, TypeOK
  <2>2. Of(z)' = Of(z)
    BY <1>3, <1>4, <1>5 DEF Of
  <2>3. Untouched(z)
    BY <1>2, <2>1, <2>2 DEF Untouched
  <2>4. QED
    BY <1>1, <2>3, UntouchedKeeps
<1>6. CASE z = s
  <2>1. Of(s) = {} /\ answer[s] = "none"
    BY <1>1, <1>3 DEF SyncInv, CommitInv
  <2>2. \/ answer'[s] = "success" /\ Of(s)' = pending[s] /\ ~broken[s]
        \/ answer'[s] = "error" /\ Of(s)' = {}
    BY <1>3, <1>4, <2>1 DEF Of
  <2>3. CommitInv(s)'
    BY <1>2, <1>3, <2>2 DEF CommitInv
  <2>4. SessionInv(s)'
    BY <1>1, <1>2, <1>3 DEF SyncInv, SessionInv, Kinds
  <2>5. \A i : Past(KindOf(i), "commit") /\ "commit" # KindOf(i) /\ "ended" # KindOf(i)
    BY DEF Past, KindOf
  <2>6. ListingInv(s)'
    BY <1>0, <1>1, <1>2, <1>3, <1>6, <2>5 DEF SyncInv, ListingInv, ItemRow
  <2>7. QED
    BY <1>6, <2>3, <2>4, <2>6 DEF SyncInv
<1>7. QED
  BY <1>5, <1>6

LEMMA InvNext ==
    ASSUME Inv, [Next]_vars
    PROVE  Inv'
<1>1. TypeOK'
  BY TypeNext DEF Inv
<1>2. ASSUME NEW z \in Syncs, UNCHANGED vars PROVE SyncInv(z)'
  <2>1. SyncInv(z) /\ Untouched(z)
    BY <1>2 DEF Inv, vars, Untouched, Of
  <2>2. QED
    BY <2>1, UntouchedKeeps
<1>3. ASSUME NEW z \in Syncs PROVE SyncInv(z)'
  BY <1>2, InvChange, InvCloseOrReopen, InvConnect, InvBegin, InvList, InvInsert, InvEndOfList, InvCommit DEF Next
<1>4. QED
  BY <1>1, <1>3 DEF Inv

LEMMA InvAlways == Spec => []Inv
BY InvInit, InvNext, PTL DEF Spec

-----------------------------------------------------------------------------
\* sync_repo and sync_repo_as_asset: a listing never leaves more than Cap items to
\* insert, and no directory.
THEOREM TypeCorrect == Spec => []TypeOK
<1>1. Inv => TypeOK
  BY DEF Inv
<1>2. QED
  BY <1>1, InvAlways, PTL

\* The counts that are answered are the rows committed, whatever failed before.
THEOREM CountsAreTrue == Spec => []CountsAreRows
<1>1. ASSUME Inv, NEW s \in Syncs
      PROVE  /\ answer[s] = "success" => Of(s) \cap Row = counted[s]
             /\ answer[s] = "error" => Of(s) = {}
  <2>1. SessionInv(s) /\ CommitInv(s)
    BY <1>1 DEF Inv, SyncInv
  <2>2. QED
    BY <2>1 DEF SessionInv, CommitInv
<1>2. Inv => CountsAreRows
  BY <1>1 DEF CountsAreRows
<1>3. QED
  BY <1>2, InvAlways, PTL

\* A mirrored item is committed with the row of its repository, or not at all.
THEOREM RepoComesWithItems == Spec => []ItemsHaveRepo
<1>1. ASSUME Inv, NEW x \in rows PROVE RepoOf(x.sync) \in rows
  <2>1. x.sync \in Syncs
    BY <1>1 DEF Inv, TypeOK, Repo, Row
  <2>2. SessionInv(x.sync) /\ CommitInv(x.sync) /\ TypeOK
    BY <1>1, <2>1 DEF Inv, SyncInv
  <2>3. x \in Of(x.sync)
    BY DEF Of
  <2>4. answer[x.sync] = "success"
    BY <2>1, <2>2, <2>3 DEF CommitInv, TypeOK
  <2>5. Of(x.sync) = pending[x.sync] /\ RepoOf(x.sync) \in pending[x.sync]
    BY <2>2, <2>3, <2>4 DEF CommitInv, SessionInv
  <2>6. QED
    BY <2>5 DEF Of
<1>2. Inv => ItemsHaveRepo
  BY <1>1 DEF ItemsHaveRepo, RepoOf
<1>3. QED
  BY <1>2, InvAlways, PTL

\* A sync without an error misses nothing that was there to be listed throughout (for
\* sync_repo_as_asset: open all the while), but where a listing has more items than it
\* looks at, however the repository changes.
THEOREM SyncIsFull == Spec => []FullSync
<1>1. ASSUME Inv, NEW s \in Syncs, answer[s] = "success", ~errors[s],
             NEW i \in steady[s] \ Dirs, KindOf(i) \notin cut[s]
      PROVE  ItemRow(s, KindOf(i), i) \in rows
  <2>1. SessionInv(s) /\ CommitInv(s) /\ ListingInv(s)
    BY <1>1 DEF Inv, SyncInv
  <2>2. pc[s] = "ended" /\ Of(s) = pending[s]
    BY <1>1, <2>1 DEF CommitInv
  <2>3. Past(KindOf(i), "ended")
    BY DEF Past, KindOf
  <2>4. QED
    BY <1>1, <2>1, <2>2, <2>3 DEF ListingInv, Of
<1>2. Inv => FullSync
  BY <1>1 DEF FullSync, ItemRow
<1>3. QED
  BY <1>2, InvAlways, PTL
=============================================================================
