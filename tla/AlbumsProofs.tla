---------------------------- MODULE AlbumsProofs -----------------------------
(***************************************************************************)
(* What holds of an album whatever its size, however many of the studio    *)
(* and its clients work on it, and wherever their requests meet or stop:   *)
(* the inductive invariant of Albums, and from it its two invariants and   *)
(* what a client's approval is worth.                                      *)
(***************************************************************************)
EXTENDS Albums, FiniteSetTheorems, FunctionTheorems, WellFoundedInduction, TLAPS

-----------------------------------------------------------------------------
(* The inductive invariant.                                                *)

Live(p) == page[p].version # NoVersion
\* A request that takes files away on the way to doing what it was sent for.
On(u, what) == req[u].pc \in {"unlink", what} /\ req[u].then = what
Deleting(u) == req[u].pc \in {"unlink", "dropPage", "list", "renumber"} /\ req[u].then = "dropPage"
Uploading(u) == req[u].pc = "spread"

\* What a request carries is what its steps are going to need.
Shape(u) ==
  /\ req[u].pc \in {"newVersion", "spread"} => req[u].number > 0
  /\ req[u].pc \in {"spread", "list", "renumber", "reorder"} => req[u].version \in Versions
  /\ req[u].pc = "unlink" => req[u].then \in {"dropVersion", "dropPage", "repoint"}
  /\ req[u].pc \in {"dropVersion", "dropPage", "repoint"} => req[u].then = req[u].pc
  /\ req[u].pc \in {"list", "renumber"} => req[u].then = "dropPage"
  /\ On(u, "dropVersion") => req[u].version \in Versions
  /\ Deleting(u) => req[u].version \in Versions
  /\ On(u, "dropPage") =>
       req[u].page \in Pages /\ page[req[u].page].version \in {NoVersion, req[u].version}
  /\ On(u, "repoint") => req[u].page \in Pages /\ req[u].file \in Files
  /\ req[u].pc \in {"check", "post", "note"} => req[u].comment.version \in Versions
  /\ req[u].pc = "note" =>
       req[u].comment.page = NoPage /\ req[u].comment.parent = NoComment /\ req[u].comment.pin = 0
  /\ req[u].pc \in {"uncomment", "resolve"} => req[u].comment.parent \in Comments

\* Spreads hang on versions, no two have one number or one file.
PagesInv ==
  /\ \A p \in Pages : Live(p) =>
       HasVersion(page[p].version) /\ page[p].number > 0 /\ page[p].file \in Files
  /\ \A p, q \in Pages : Live(p) /\ page[p].version = page[q].version
       /\ page[p].number = page[q].number => p = q
  /\ \A p, q \in Pages : Live(p) /\ Live(q) /\ page[p].file = page[q].file => p = q

\* What a comment that was checked hangs on has not changed, though it may be gone.
Checked(u) ==
  LET c == req[u].comment
  IN req[u].pc = "post" =>
       /\ c.page # NoPage /\ Live(c.page) => page[c.page].version = c.version
       /\ c.parent # NoComment /\ Alive(c.parent) =>
            comment[c.parent].version = c.version /\ comment[c.parent].parent = NoComment
ThreadsInv == ThreadsIntact /\ \A u \in Users : Checked(u)

\* A pin that was numbered is still free.
Commenting(u) == req[u].pc \in {"check", "post"}
SamePlace(c, d) == c.version = d.version /\ c.page = d.page
PinFree(u) ==
  req[u].pc = "post" /\ req[u].comment.pin > 0 =>
    \A d \in Comments : Alive(d) /\ SamePlace(comment[d], req[u].comment)
                        => comment[d].pin # req[u].comment.pin
PinsInv ==
  "pins" \notin races =>
    /\ PinsDistinct
    /\ \A u, w \in Users : Commenting(u) /\ Commenting(w) => u = w
    /\ \A u \in Users : PinFree(u)

\* While each side sends one request at a time, the status is what a request
\* that is going to set it has read.
Busy(u) == req[u].pc # "idle"
Adding(u) == req[u].pc \in {"newVersion", "spread", "resend"}
Reading(u) ==
  /\ req[u].pc = "send" => album.status = "DRAFT"
  /\ req[u].pc = "reopen" => album.status = "APPROVED" /\ u \in Owners
  /\ req[u].pc \in {"note", "changes", "approve"} => album.status = "SENT"
  /\ Adding(u) /\ req[u].saw = "CHANGES_REQUESTED" => album.status = "CHANGES_REQUESTED"
ReviewInv ==
  /\ \A u \in Users : req[u].pc \in {"note", "changes", "approve"} => u \in Clients
  /\ \A u \in Users : Adding(u) \/ req[u].pc \in {"send", "reopen"} => u \in Studio
  /\ races \cap {"side", "override"} = {} =>
       /\ \A u, w \in Users : Busy(u) /\ Busy(w) /\ (u \in Clients <=> w \in Clients) => u = w
       /\ \A u \in Users : Reading(u)

\* The spreads of a version are numbered 1..N, or one that deleted a spread is
\* about to number what is left; who uploads goes on where the numbers end.
Contiguous(v) == {page[p].number : p \in PagesOf(v)} = 1..Cardinality(PagesOf(v))
Repairing(u, v) ==
  /\ req[u].version = v
  /\ \/ req[u].pc = "list"
     \/ req[u].pc = "renumber" /\ Range(req[u].list) = PagesOf(v)
NumbersInv ==
  crashes = 0 /\ races \cap {"spread", "twice"} = {} =>
    /\ \A v \in Versions : Contiguous(v) \/ \E u \in Users : Repairing(u, v)
    /\ \A u \in Users : req[u].pc \in {"renumber", "reorder"} => IsInjective(req[u].list)
    /\ \A u \in Users : Uploading(u) /\ HasVersion(req[u].version) =>
         Contiguous(req[u].version) /\ req[u].number = Cardinality(PagesOf(req[u].version)) + 1
    /\ \A u, w \in Users : Uploading(u) /\ req[w].version = req[u].version =>
         /\ Uploading(w) => u = w
         /\ ~Deleting(w)

\* A file is taken away for a spread that is going to be deleted or replaced, and
\* the file that is going to replace it is nobody else's.
Taking(u, p) ==
  \/ On(u, "dropVersion") /\ page[p].version = req[u].version
  \/ (On(u, "dropPage") \/ On(u, "repoint")) /\ p = req[u].page
Reserved(u, f) == On(u, "repoint") /\ f = req[u].file
FilesInv ==
  /\ crashes = 0 => \A p \in Pages : Live(p) /\ page[p].file \notin disk =>
       \E u \in Users : Taking(u, p)
  /\ \A u \in Users, p \in Pages :
       req[u].pc = "unlink" /\ Live(p) /\ page[p].file \in Range(req[u].todo) => Taking(u, p)
  /\ \A u \in Users, f \in Files : Reserved(u, f) =>
       /\ \A p \in Pages : Live(p) => page[p].file # f
       /\ \A w \in Users : Reserved(w, f) => w = u
       /\ \A w \in Users : req[w].pc = "unlink" => f \notin Range(req[w].todo)

Kept == TypeOK /\ \A u \in Users : Shape(u)
IInv == Kept /\ PagesInv /\ ThreadsInv /\ PinsInv /\ ReviewInv /\ NumbersInv /\ FilesInv

-----------------------------------------------------------------------------
(* The operators the album is built from.                                  *)

LEMMA SomeIsIn == \A S : \A x \in Some(S) : x \in S
BY DEF Some

LEMMA SomeIsThere == \A S : S # {} => \E x \in S : Some(S) = {x}
BY DEF Some

\* A finite set of numbers has a largest one: no fewer numbers are above any other.
LEMMA MaxIsMax ==
  ASSUME NEW S \in SUBSET Nat, IsFiniteSet(S), S # {}
  PROVE  Max(S) \in S /\ \A y \in S : Max(S) >= y
<1> DEFINE Above(x) == {y \in S : y > x}
<1> DEFINE T == {Above(x) : x \in S}
<1>1. T \subseteq FiniteSubsetsOf(S)
  <2>1. \A x \in S : IsFiniteSet(Above(x))
    BY FS_Subset, \A x \in S : Above(x) \in SUBSET S
  <2> QED BY <2>1 DEF FiniteSubsetsOf
<1>2. IsWellFoundedOn(StrictSubsetOrdering(S), FiniteSubsetsOf(S))
  BY FS_StrictSubsetOrderingWellFounded
<1>3. T # {}
  OBVIOUS
<1>4. \E A \in T : \A B \in T : <<B, A>> \notin StrictSubsetOrdering(S)
  <2> HIDE DEF T
  <2> QED BY <1>1, <1>2, <1>3, WFMin
<1>5. PICK m \in S : \A x \in S : <<Above(x), Above(m)>> \notin StrictSubsetOrdering(S)
  BY <1>4
<1>6. \A y \in S : m >= y
  <2> SUFFICES ASSUME NEW y \in S, ~(m >= y) PROVE FALSE
    OBVIOUS
  <2>1. m \in Nat /\ y \in Nat /\ y > m
    OBVIOUS
  <2>2. Above(y) \subseteq Above(m) /\ y \in Above(m) /\ y \notin Above(y)
    <3>1. \A z \in S : z \in Nat /\ (z > y => z > m)
      BY <2>1
    <3>2. ~(y > y)
      BY <2>1
    <3> QED BY <2>1, <3>1, <3>2
  <2>3. Above(y) # Above(m)
    BY <2>2
  <2>4. <<Above(y), Above(m)>> \in StrictSubsetOrdering(S)
    <3> HIDE DEF Above
    <3>1. Above(y) \in SUBSET S /\ Above(m) \in SUBSET S
      BY DEF Above
    <3> QED BY <2>2, <2>3, <3>1 DEF StrictSubsetOrdering
  <2> QED BY <1>5, <2>4
<1> QED BY <1>6 DEF Max

\* The largest of the images of a finite set's members, or 0.
LEMMA MaxImage ==
  ASSUME NEW S, IsFiniteSet(S), NEW f \in [S -> Nat]
  PROVE  LET M == {f[x] : x \in S} \cup {0}
         IN Max(M) \in Nat /\ \A x \in S : Max(M) >= f[x]
<1> DEFINE M == {f[x] : x \in S}
<1>1. f \in Surjection(S, M)
  BY Fun_IsSurj
<1>2. IsFiniteSet(M)
  <2> HIDE DEF M
  <2> QED BY <1>1, FS_Surjection
<1>3. IsFiniteSet(M \cup {0})
  BY <1>2, FS_AddElement
<1>4. M \cup {0} \in SUBSET Nat /\ M \cup {0} # {}
  OBVIOUS
<1>5. Max(M \cup {0}) \in M \cup {0} /\ \A y \in M \cup {0} : Max(M \cup {0}) >= y
  <2> HIDE DEF M
  <2> QED BY <1>3, <1>4, MaxIsMax
<1> QED BY <1>4, <1>5

LEMMA LastNumberTyped == ASSUME TypeOK PROVE LastNumber \in Nat
<1>1. IsFiniteSet(Versions) /\ version \in [Versions -> Nat]
  BY SlotsAssumption DEF TypeOK
<1>2. Max({version[v] : v \in Versions} \cup {0}) \in Nat
  BY <1>1, MaxImage
<1> QED BY <1>2 DEF LastNumber

\* The next pin is above those there are in its place.
LEMMA NextPinIsFree ==
  ASSUME TypeOK, NEW c
  PROVE  /\ NextPin(c) \in Nat \ {0}
         /\ \A d \in Comments : Alive(d) /\ SamePlace(comment[d], c) => comment[d].pin # NextPin(c)
<1> DEFINE D == {e \in Comments : Alive(e) /\ comment[e].version = c.version
                                 /\ comment[e].page = c.page}
<1> DEFINE f == [e \in D |-> comment[e].pin]
<1>1. IsFiniteSet(D)
  BY FS_Subset, SlotsAssumption
<1>2. \A e \in Comments : comment[e].pin \in Nat
  BY DEF TypeOK, Comment
<1>3. f \in [D -> Nat]
  BY <1>2
<1>4. {f[x] : x \in D} = {comment[d].pin : d \in D}
  OBVIOUS
<1> DEFINE M == Max({comment[d].pin : d \in D} \cup {0})
<1>5. M \in Nat /\ \A x \in D : M >= comment[x].pin
  <2>1. \A x \in D : f[x] = comment[x].pin
    OBVIOUS
  <2> HIDE DEF f, D
  <2> QED BY <1>1, <1>3, <1>4, <2>1, MaxImage
<1>6. NextPin(c) = M + 1
  BY DEF NextPin
<1>7. \A d \in Comments : Alive(d) /\ SamePlace(comment[d], c) => d \in D
  BY DEF SamePlace
<1> HIDE DEF D, M
<1>8. M + 1 \in Nat \ {0}
  BY <1>5
<1>9. \A x \in D : x \in Comments => comment[x].pin # M + 1
  BY <1>2, <1>5
<1> QED BY <1>6, <1>7, <1>8, <1>9

\* A spread's place in a list that names it is a place where it stands.
LEMMA NumberInIsThere ==
  ASSUME NEW pages \in Seq(Pages), NEW p \in Range(pages)
  PROVE  NumberIn(pages, p) \in 1..Len(pages) /\ pages[NumberIn(pages, p)] = p
<1> DEFINE S == {i \in 1..Len(pages) : pages[i] = p}
<1>1. S \in SUBSET Nat /\ S # {}
  BY DEF Range
<1>2. IsFiniteSet(S)
  <2>1. Len(pages) \in Nat
    OBVIOUS
  <2>2. IsFiniteSet(1..Len(pages))
    BY <2>1, FS_Interval
  <2>3. S \in SUBSET (1..Len(pages))
    OBVIOUS
  <2> HIDE DEF S
  <2> QED BY <2>2, <2>3, FS_Subset
<1>3. Max(S) \in S
  <2> HIDE DEF S
  <2> QED BY <1>1, <1>2, MaxIsMax
<1> QED BY <1>3 DEF NumberIn

\* Spreads with numbers of their own are listed in order, each of them once.
LEMMA InOrderLists ==
  ASSUME NEW S \in SUBSET Pages, page \in [Pages -> Page],
         \A p, q \in S : page[p].number = page[q].number => p = q
  PROVE  /\ InOrder(S) \in Seq(S) /\ Len(InOrder(S)) = Cardinality(S)
         /\ Range(InOrder(S)) = S /\ IsInjective(InOrder(S))
<1> DEFINE n == Cardinality(S)
<1> DEFINE rank == [p \in S |-> Cardinality(Before(S, p)) + 1]
<1> DEFINE s == InOrder(S)
<1>1. IsFiniteSet(S) /\ n \in Nat
  BY SlotsAssumption, FS_Subset, FS_CardinalityType
<1>2. \A p \in S : page[p].number \in Nat
  BY DEF Page
<1>3. ASSUME NEW p \in S
      PROVE  /\ IsFiniteSet(Before(S, p)) /\ Cardinality(Before(S, p)) \in Nat
             /\ rank[p] = Cardinality(Before(S, p)) + 1
             /\ rank[p] = Cardinality(Before(S, p) \cup {p})
  <2>1. Before(S, p) \in SUBSET S
    BY DEF Before
  <2>2. IsFiniteSet(Before(S, p))
    BY <1>1, <2>1, FS_Subset
  <2>3. p \notin Before(S, p)
    BY <1>2 DEF Before
  <2> QED BY <2>2, <2>3, FS_AddElement, FS_CardinalityType
<1>4. ASSUME NEW p \in S PROVE rank[p] \in 1..n
  <2>1. Before(S, p) \cup {p} \in SUBSET S
    BY DEF Before
  <2>2. Cardinality(Before(S, p) \cup {p}) <= n
    BY <1>1, <2>1, FS_Subset
  <2> HIDE DEF n, rank
  <2>3. rank[p] \in Nat /\ rank[p] >= 1 /\ rank[p] <= n
    BY <1>1, <1>3, <2>2
  <2> QED BY <1>1, <2>3
<1>5. ASSUME NEW p \in S, NEW q \in S, page[p].number < page[q].number
      PROVE  rank[p] # rank[q]
  <2>1. Before(S, p) \cup {p} \in SUBSET Before(S, q)
    BY <1>2, <1>5 DEF Before
  <2> HIDE DEF rank
  <2>2. IsFiniteSet(Before(S, q)) /\ Cardinality(Before(S, q)) \in Nat
        /\ rank[q] = Cardinality(Before(S, q)) + 1
    BY <1>3
  <2>3. rank[p] = Cardinality(Before(S, p) \cup {p})
    BY <1>3
  <2>4. rank[p] <= Cardinality(Before(S, q))
    BY <2>1, <2>2, <2>3, FS_Subset
  <2> QED BY <2>2, <2>4
<1>6. ASSUME NEW p \in S, NEW q \in S, p # q PROVE rank[p] # rank[q]
  <2>1. page[p].number < page[q].number \/ page[q].number < page[p].number
    BY <1>2, <1>6
  <2> HIDE DEF rank
  <2> QED BY <1>5, <2>1
<1>7. rank \in [S -> 1..n]
  <2>1. rank = [p \in S |-> rank[p]]
    OBVIOUS
  <2> HIDE DEF rank, n
  <2> QED BY <1>4, <2>1
<1>8. rank \in Injection(S, 1..n)
  <2> HIDE DEF rank, n
  <2> QED BY <1>6, <1>7, Fun_IsInj
<1>9. rank \in Surjection(S, 1..n)
  <2>1. IsFiniteSet(1..n) /\ Cardinality(1..n) = n
    BY <1>1, FS_Interval
  <2> HIDE DEF rank
  <2> QED BY <1>8, <2>1, FS_Injection
<1>10. ASSUME NEW i \in 1..n PROVE \E p \in S : rank[p] = i
  <2> HIDE DEF rank, n
  <2> QED BY <1>9 DEF Surjection
<1>11. ASSUME NEW i \in 1..n PROVE s[i] \in S /\ rank[s[i]] = i
  <2>1. s[i] = CHOOSE p \in S : Cardinality(Before(S, p)) = i - 1
    BY DEF InOrder
  <2>2. PICK p \in S : rank[p] = i
    BY <1>10
  <2>3. Cardinality(Before(S, p)) = i - 1
    <3>1. Cardinality(Before(S, p)) \in Nat /\ rank[p] = Cardinality(Before(S, p)) + 1
      BY <1>3
    <3> HIDE DEF rank
    <3> QED BY <2>2, <3>1
  <2>4. s[i] \in S /\ Cardinality(Before(S, s[i])) = i - 1
    <3> HIDE DEF s
    <3> QED BY <2>1, <2>3
  <2>5. rank[s[i]] = (i - 1) + 1
    BY <2>4
  <2> HIDE DEF s, rank
  <2> QED BY <1>1, <2>4, <2>5
<1>12. s = [i \in 1..n |-> s[i]]
  BY DEF InOrder
<1> HIDE DEF s, rank, n
<1>13. s \in [1..n -> S] /\ DOMAIN s = 1..n
  BY <1>11, <1>12
<1>14. s \in Seq(S) /\ Len(s) = n
  BY <1>1, <1>13
<1>15. IsInjective(s)
  BY <1>11, <1>13 DEF IsInjective
<1>16. ASSUME NEW p \in S PROVE s[rank[p]] = p
  BY <1>4, <1>6, <1>11
<1>17. Range(s) = S
  BY <1>4, <1>11, <1>13, <1>16 DEF Range
<1> QED BY <1>14, <1>15, <1>17 DEF s, n

LEMMA PagesOfVersion ==
  \A v : /\ PagesOf(v) \in SUBSET Pages /\ IsFiniteSet(PagesOf(v))
         /\ Cardinality(PagesOf(v)) \in Nat
BY SlotsAssumption, FS_Subset, FS_CardinalityType DEF PagesOf

\* The spreads of a version, in order, and their files.
LEMMA VersionListed ==
  ASSUME TypeOK, PagesInv, NEW v \in Versions
  PROVE  /\ InOrder(PagesOf(v)) \in Seq(Pages) /\ IsInjective(InOrder(PagesOf(v)))
         /\ Range(InOrder(PagesOf(v))) = PagesOf(v)
         /\ FilesOf(v) \in Seq(Files \cup {NoFile})
         /\ Range(FilesOf(v)) = {page[p].file : p \in PagesOf(v)}
<1> DEFINE S == PagesOf(v)
<1> DEFINE s == InOrder(S)
<1>1. S \in SUBSET Pages /\ Cardinality(S) \in Nat
  BY PagesOfVersion
<1>2. \A p, q \in S : page[p].number = page[q].number => p = q
  BY SlotsAssumption DEF PagesOf, PagesInv, Live
<1>3. page \in [Pages -> Page]
  BY DEF TypeOK
<1>4. s \in Seq(S) /\ Len(s) = Cardinality(S) /\ Range(s) = S /\ IsInjective(s)
  <2> HIDE DEF S
  <2> QED BY <1>1, <1>2, <1>3, InOrderLists
<1>5. FilesOf(v) = [i \in 1..Cardinality(S) |-> page[s[i]].file]
  BY DEF FilesOf
<1> HIDE DEF s, S
<1>6. s \in Seq(Pages) /\ \A i \in 1..Cardinality(S) : s[i] \in S
  BY <1>1, <1>4
<1>7. \A p \in Pages : page[p].file \in Files \cup {NoFile}
  BY <1>3 DEF Page
<1>8. FilesOf(v) \in Seq(Files \cup {NoFile}) /\ DOMAIN FilesOf(v) = 1..Cardinality(S)
  BY <1>1, <1>5, <1>6, <1>7
<1>9. DOMAIN s = 1..Cardinality(S)
  BY <1>1, <1>4
<1>10. Range(FilesOf(v)) = {page[p].file : p \in S}
  BY <1>4, <1>5, <1>8, <1>9 DEF Range
<1> QED BY <1>4, <1>6, <1>8, <1>10 DEF s, S

\* A renumbering changes the numbers of spreads of one version, and leaves them
\* numbers of their own.
NumbersOwn(pages) ==
  \A p, q \in Pages : pages[p].version # NoVersion /\ pages[p].version = pages[q].version
    /\ pages[p].number = pages[q].number => p = q
LEMMA RenumberedRows ==
  ASSUME TypeOK, PagesInv, NEW v \in Versions, NEW L \in Seq(Pages),
         NEW pages, pages = Renumbered(L, v)
  PROVE  /\ pages \in [Pages -> Page] /\ NumbersOwn(pages)
         /\ \A p \in Pages : /\ pages[p].version = page[p].version
                             /\ pages[p].file = page[p].file
                             /\ page[p].version # v => pages[p] = page[p]
                             /\ Live(p) => pages[p].number > 0
<1>1. page \in [Pages -> Page] /\ \A p \in Pages : page[p] \in Page
  BY DEF TypeOK
<1>2. \A p \in Pages : Live(p) => page[p].number > 0
  BY DEF PagesInv
<1>3. NumbersOwn(page)
  BY DEF PagesInv, NumbersOwn, Live
<1>4. CASE Refused(L, v)
  BY <1>1, <1>2, <1>3, <1>4 DEF Renumbered
<1>5. CASE ~Refused(L, v)
  <2>1. \A p \in Range(L) : p \in Pages /\ page[p].version = v
    BY <1>5 DEF Refused, Range
  <2>2. \A p \in PagesOf(v) \ Range(L) : page[p].number \notin 1..Len(L)
    BY <1>5 DEF Refused
  <2>3. \A p \in Range(L) : NumberIn(L, p) \in 1..Len(L) /\ L[NumberIn(L, p)] = p
    BY NumberInIsThere
  <2>4. pages = [p \in Pages |-> IF p \in Range(L)
                   THEN [page[p] EXCEPT !.number = NumberIn(L, p)] ELSE page[p]]
    BY <1>5 DEF Renumbered
  <2>5. ASSUME NEW p \in Pages
        PROVE  /\ pages[p] \in Page /\ pages[p].version = page[p].version
               /\ pages[p].file = page[p].file
               /\ p \in Range(L) => pages[p].number = NumberIn(L, p) /\ page[p].version = v
               /\ p \notin Range(L) => pages[p] = page[p]
    <3>1. CASE p \in Range(L)
      <4>1. NumberIn(L, p) \in Nat /\ NumberIn(L, p) > 0
        BY <2>3, <3>1
      <4>2. pages[p] = [page[p] EXCEPT !.number = NumberIn(L, p)]
        BY <2>4, <3>1
      <4> QED BY <1>1, <2>1, <3>1, <4>1, <4>2 DEF Page
    <3>2. CASE p \notin Range(L)
      BY <1>1, <2>4, <3>2
    <3> QED BY <3>1, <3>2
  <2>6. pages \in [Pages -> Page]
    BY <2>4, <2>5
  <2>7. \A p \in Pages : Live(p) => pages[p].number > 0
    BY <1>2, <2>3, <2>5
  <2>8. \A p \in Pages : page[p].version # v => pages[p] = page[p]
    BY <2>5
  <2>9. NumbersOwn(pages)
    <3> SUFFICES ASSUME NEW p \in Pages, NEW q \in Pages, pages[p].version # NoVersion,
                        pages[p].version = pages[q].version, pages[p].number = pages[q].number
                 PROVE  p = q
      BY DEF NumbersOwn
    <3>1. page[p].version = page[q].version /\ page[p].version # NoVersion
      BY <2>5
    <3>2. CASE p \in Range(L) /\ q \in Range(L)
      BY <2>3, <2>5, <3>2
    <3>3. CASE p \notin Range(L) /\ q \notin Range(L)
      <4>1. page[p].number = page[q].number
        BY <2>5, <3>3
      <4> QED BY <1>3, <3>1, <4>1 DEF NumbersOwn
    <3>4. CASE p \in Range(L) /\ q \notin Range(L)
      <4>1. page[q].number = NumberIn(L, p) /\ q \in PagesOf(v)
        BY <2>5, <3>1, <3>4 DEF PagesOf
      <4> QED BY <2>2, <2>3, <3>4, <4>1
    <3>5. CASE p \notin Range(L) /\ q \in Range(L)
      <4>1. page[p].number = NumberIn(L, q) /\ p \in PagesOf(v)
        BY <2>5, <3>1, <3>5 DEF PagesOf
      <4> QED BY <2>2, <2>3, <3>5, <4>1
    <3> QED BY <3>2, <3>3, <3>4, <3>5
  <2> QED BY <2>5, <2>6, <2>7, <2>8, <2>9
<1> QED BY <1>4, <1>5

\* And as long as it lists no spread twice, it leaves none out of 1..N, and puts
\* all in if it lists them all.
LEMMA RenumberedAll ==
  ASSUME TypeOK, PagesInv, NEW v \in Versions, NEW L \in Seq(Pages), IsInjective(L),
         NEW pages, pages = Renumbered(L, v), Contiguous(v) \/ Range(L) = PagesOf(v)
  PROVE  {pages[p].number : p \in PagesOf(v)} = 1..Cardinality(PagesOf(v))
<1> DEFINE S == PagesOf(v)
<1> DEFINE N == Cardinality(S)
<1> DEFINE k == Len(L)
<1> DEFINE U == S \ Range(L)
<1>1. CASE Refused(L, v)
  <2>1. Range(L) # PagesOf(v)
    <3>1. Range(L) \subseteq Pages
      BY DEF Range
    <3> QED BY <1>1, <3>1 DEF Refused, PagesOf
  <2>2. pages = page
    BY <1>1 DEF Renumbered
  <2> QED BY <2>1, <2>2 DEF Contiguous
<1>2. CASE ~Refused(L, v)
  <2>1. k \in Nat /\ DOMAIN L = 1..k /\ Range(L) \subseteq Pages
    BY DEF Range
  <2>2. Range(L) \subseteq S
    BY <1>2, <2>1 DEF Refused, PagesOf
  <2>3. \A p \in S \ Range(L) : page[p].number \notin 1..k
    BY <1>2 DEF Refused
  <2>4. ASSUME NEW i \in 1..k PROVE L[i] \in Range(L) /\ NumberIn(L, L[i]) = i
    <3>1. L[i] \in Range(L)
      BY <2>1 DEF Range
    <3>2. NumberIn(L, L[i]) \in 1..k /\ L[NumberIn(L, L[i])] = L[i]
      BY <3>1, NumberInIsThere
    <3> QED BY <2>1, <3>1, <3>2 DEF IsInjective
  <2>5. \A p \in Range(L) : NumberIn(L, p) \in 1..k
    BY NumberInIsThere
  <2>6. pages = [p \in Pages |-> IF p \in Range(L)
                   THEN [page[p] EXCEPT !.number = NumberIn(L, p)] ELSE page[p]]
    BY <1>2 DEF Renumbered
  <2>7. S \in SUBSET Pages /\ IsFiniteSet(S) /\ N \in Nat
    BY PagesOfVersion
  <2>8. page \in [Pages -> Page]
    BY DEF TypeOK
  <2>9. \A p \in S : /\ p \in Range(L) => pages[p].number = NumberIn(L, p)
                     /\ p \notin Range(L) => pages[p].number = page[p].number
    <3>1. \A p \in Pages : page[p] \in Page
      BY <2>8
    <3>2. ASSUME NEW p \in Pages PROVE [page[p] EXCEPT !.number = NumberIn(L, p)].number = NumberIn(L, p)
      BY <3>1 DEF Page
    <3> QED BY <2>6, <2>7, <3>2
  <2>10. {pages[p].number : p \in Range(L)} = 1..k
    <3> HIDE DEF S
    <3> QED BY <2>2, <2>4, <2>5, <2>9
  <2>11. Cardinality(Range(L)) = k
    <3>1. L \in [1..k -> Range(L)]
      BY <2>1, <2>4
    <3>2. L \in Bijection(1..k, Range(L))
      <4>1. L \in Injection(1..k, Range(L))
        BY <2>1, <3>1, Fun_IsInj DEF IsInjective
      <4>2. L \in Surjection(1..k, Range(L))
        BY <2>1, <3>1 DEF Surjection, Range
      <4> QED BY <4>1, <4>2 DEF Bijection
    <3> HIDE DEF k
    <3> QED BY <2>1, <3>2, FS_CountingElements, Fun_ExistsBij
  <2>12. CASE Range(L) = S
    BY <2>10, <2>11, <2>12
  <2>13. CASE Contiguous(v)
    <3>1. {page[p].number : p \in S} = 1..N
      BY <2>13 DEF Contiguous
    <3>2. IsFiniteSet(U) /\ Cardinality(U) = N - k /\ k <= N
      <4>1. S \cap Range(L) = Range(L) /\ Range(L) \in SUBSET S
        BY <2>2
      <4> HIDE DEF S, N, k
      <4>2. Cardinality(Range(L)) <= Cardinality(S)
        BY <2>7, <4>1, FS_Subset
      <4>3. IsFiniteSet(S \ Range(L)) /\ Cardinality(S \ Range(L)) = Cardinality(S) - k
        <5> DEFINE R == Range(L)
        <5>1. S \cap R = R /\ Cardinality(R) = k /\ IsFiniteSet(S)
          BY <2>7, <2>11, <4>1
        <5> HIDE DEF R
        <5>2. IsFiniteSet(S \ R) /\ Cardinality(S \ R) = Cardinality(S) - Cardinality(S \cap R)
          BY <5>1, FS_Difference
        <5> QED BY <5>1, <5>2 DEF R
      <4> QED BY <2>11, <4>2, <4>3 DEF N
    <3> DEFINE g == [p \in U |-> page[p].number]
    <3>3. g \in [U -> (k + 1)..N]
      <4>1. ASSUME NEW p \in U PROVE page[p].number \in (k + 1)..N
        <5>1. page[p].number \in 1..N /\ page[p].number \notin 1..k
          <6>1. p \in S /\ p \in S \ Range(L)
            OBVIOUS
          <6> HIDE DEF N, k, S
          <6> QED BY <2>3, <3>1, <6>1
        <5> HIDE DEF N, k, S
        <5> QED BY <2>1, <2>7, <5>1
      <4> HIDE DEF U, k, N
      <4> QED BY <4>1
    <3>4. \A a, b \in U : g[a] = g[b] => a = b
      <4>1. \A a \in U : a \in Pages /\ page[a].version = v /\ v # NoVersion
        BY SlotsAssumption DEF PagesOf
      <4> HIDE DEF U
      <4> QED BY <4>1 DEF PagesInv, Live
    <3>5. g \in Injection(U, (k + 1)..N)
      <4> HIDE DEF g, U, k, N
      <4> QED BY <3>3, <3>4, Fun_IsInj
    <3>6. IsFiniteSet((k + 1)..N) /\ Cardinality((k + 1)..N) = N - k
      <4> HIDE DEF k, N
      <4>1. k + 1 \in Int /\ N \in Int
        BY <2>1, <2>7
      <4>2. IsFiniteSet((k + 1)..N) /\ Cardinality((k + 1)..N) = IF k + 1 > N THEN 0 ELSE N - (k + 1) + 1
        BY <4>1, FS_Interval
      <4> QED BY <2>1, <2>7, <3>2, <4>2
    <3>7. g \in Surjection(U, (k + 1)..N)
      <4> HIDE DEF g, U, k, N
      <4> QED BY <3>2, <3>5, <3>6, FS_Injection
    <3>8. {pages[p].number : p \in U} = (k + 1)..N
      <4>1. \A p \in U : pages[p].number = g[p]
        BY <2>9
      <4> HIDE DEF g, U, k, N
      <4> QED BY <3>3, <3>7, <4>1 DEF Surjection
    <3>9. S = U \cup Range(L)
      BY <2>2
    <3>10. {pages[p].number : p \in S} = (1..k) \cup ((k + 1)..N)
      <4> HIDE DEF U, S, k, N
      <4> QED BY <2>10, <3>8, <3>9
    <3>11. (1..k) \cup ((k + 1)..N) = 1..N
      <4> HIDE DEF k, N
      <4> QED BY <2>1, <2>7, <3>2
    <3> QED BY <3>10, <3>11
  <2> QED BY <2>12, <2>13
<1> QED BY <1>1, <1>2

-----------------------------------------------------------------------------
(* What the steps do: to the request, and to the rows.                     *)

OthersStay(u) == \A w \in Users \ {u} : req'[w] = req[w]
SameBounds == crashes' = crashes /\ requests' = requests /\ races' = races
SameRows == UNCHANGED rows
Ends(u) == req'[u] = Idle
Carries(u) ==
  /\ req'[u].then = req[u].then /\ req'[u].saw = req[u].saw /\ req'[u].page = req[u].page
  /\ req'[u].file = req[u].file
Walks(u, pc) ==
  /\ Carries(u) /\ req'[u].pc = pc /\ req'[u].number = req[u].number
  /\ req'[u].version = req[u].version /\ req'[u].list = req[u].list
  /\ req'[u].todo = req[u].todo /\ req'[u].comment = req[u].comment

LEMMA IdleIs ==
  /\ Idle \in Request /\ Idle.pc = "idle" /\ Idle.then = "" /\ Idle.todo = <<>>
  /\ Idle.version = NoVersion /\ Idle.page = NoPage /\ Idle.file = NoFile /\ Idle.list = <<>>
  /\ Idle.comment.parent = NoComment /\ Idle.comment = NoCommentRow
  /\ Idle.number = 0 /\ Idle.saw = "DRAFT"
<1>1. NoCommentRow \in Comment
  <2>1. (CHOOSE u \in Users : TRUE) \in Users
    BY SlotsAssumption DEF Users, Studio
  <2> QED BY <2>1 DEF NoCommentRow, Comment
<1>2. NoCommentRow.parent = NoComment
  BY DEF NoCommentRow
<1> QED BY <1>1, <1>2 DEF Idle, Request, Statuses

LEMMA StepIs ==
  ASSUME TypeOK, NEW u \in Users, NEW from, NEW new, Step(u, from, new)
  PROVE  /\ req[u].pc = from /\ req'[u] = new /\ OthersStay(u) /\ SameBounds
         /\ new \in Request => req' \in [Users -> Request]
BY DEF TypeOK, Step, OthersStay, SameBounds, bounds

LEMMA EndIs ==
  ASSUME TypeOK, NEW u \in Users, NEW from, End(u, from)
  PROVE  /\ req[u].pc = from /\ Ends(u) /\ OthersStay(u) /\ SameBounds
         /\ req' \in [Users -> Request]
BY StepIs, IdleIs DEF End, Ends

LEMMA GotoIs ==
  ASSUME TypeOK, NEW u \in Users, NEW from, NEW to, Goto(u, from, to),
         to \in {"spread", "resend", "dropVersion", "dropPage", "repoint", "list", "changes"}
  PROVE  /\ req[u].pc = from /\ Walks(u, to) /\ OthersStay(u) /\ SameBounds
         /\ req' \in [Users -> Request]
<1> DEFINE new == [req[u] EXCEPT !.pc = to]
<1>1. Step(u, from, new)
  BY DEF Goto
<1>2. req[u] \in Request
  BY DEF TypeOK
<1>3. new \in Request
  BY <1>2 DEF Request
<1>4. /\ new.pc = to /\ new.then = req[u].then /\ new.saw = req[u].saw /\ new.page = req[u].page
      /\ new.file = req[u].file /\ new.number = req[u].number /\ new.version = req[u].version
      /\ new.list = req[u].list /\ new.todo = req[u].todo /\ new.comment = req[u].comment
  BY <1>2 DEF Request
<1> HIDE DEF new
<1> QED BY <1>1, <1>3, <1>4, StepIs DEF Walks, Carries

\* What a request that begins says of the others, unless they raced.
Alone(u) ==
  /\ "side" \notin races' => \A w \in Users \ {u} : (u \in Clients <=> w \in Clients) => ~Busy(w)
  /\ "pins" \notin races' /\ req'[u].pc = "check" => \A w \in Users \ {u} : ~Commenting(w)
  /\ "spread" \notin races' /\ req'[u].then = "dropPage" =>
       \A w \in Users \ {u} : ~(req[w].pc = "spread" /\ req[w].version = req'[u].version)
  /\ "twice" \notin races' /\ req'[u].pc = "reorder" => IsInjective(req'[u].list)

Begins(u, new) ==
  /\ req'[u].pc = new.pc /\ req'[u].then = new.then /\ req'[u].saw = album.status
  /\ req'[u].number = new.number /\ req'[u].version = new.version /\ req'[u].page = new.page
  /\ req'[u].list = new.list /\ req'[u].todo = new.todo /\ req'[u].file = new.file
  /\ req'[u].comment = new.comment

LEMMA BeginIs ==
  ASSUME TypeOK, NEW u \in Users, req[u].pc = "idle", requests < MaxRequests,
         NEW new \in Request, Begin(u, new)
  PROVE  /\ album.live /\ SameRows /\ OthersStay(u) /\ crashes' = crashes
         /\ requests' \in 0..MaxRequests /\ req' \in [Users -> Request]
         /\ races \subseteq races' /\ races' \subseteq Races
         /\ Begins(u, new) /\ Alone(u)
<1> DEFINE r == [new EXCEPT !.saw = album.status]
<1> DEFINE others == {req[w].pc : w \in Users \ {u}}
<1>1. album.status \in Statuses /\ requests \in 0..MaxRequests /\ MaxRequests \in Nat
  BY SlotsAssumption DEF TypeOK
<1>2. r \in Request
  BY <1>1 DEF Request
<1>3. /\ r.pc = new.pc /\ r.then = new.then /\ r.saw = album.status /\ r.number = new.number
      /\ r.version = new.version /\ r.page = new.page /\ r.list = new.list /\ r.todo = new.todo
      /\ r.file = new.file /\ r.comment = new.comment
  BY DEF Request
<1>4. album.live /\ SameRows /\ crashes' = crashes /\ requests' = requests + 1
      /\ req' = [req EXCEPT ![u] = r]
  BY DEF Begin, SameRows
<1>5. req'[u] = r /\ OthersStay(u) /\ req' \in [Users -> Request]
  <2> HIDE DEF r
  <2> QED BY <1>2, <1>4 DEF TypeOK, OthersStay
<1>6. /\ races \subseteq races' /\ races' \subseteq races \cup {"side", "pins", "spread", "twice"}
      /\ (\E w \in (IF u \in Clients THEN Clients ELSE Studio) \ {u} : req[w].pc # "idle")
           => "side" \in races'
      /\ new.pc = "check" /\ others \cap {"check", "post"} # {} => "pins" \in races'
      /\ (/\ new.then = "dropPage"
          /\ \E w \in Users \ {u} : req[w].pc = "spread" /\ req[w].version = new.version)
           => "spread" \in races'
      /\ new.pc = "reorder" /\ ~IsInjective(new.list) => "twice" \in races'
  <2> HIDE DEF r
  <2> QED BY DEF Begin
<1>7. Begins(u, new)
  <2> HIDE DEF r
  <2> QED BY <1>3, <1>5 DEF Begins
<1>8. \A w \in Users \ {u} : (u \in Clients <=> w \in Clients)
        => w \in (IF u \in Clients THEN Clients ELSE Studio) \ {u}
  BY DEF Users
<1>9. Alone(u)
  <2>1. \A w \in Users \ {u} : req[w].pc \in others
    OBVIOUS
  <2> HIDE DEF r, others
  <2> QED BY <1>6, <1>7, <1>8, <2>1 DEF Begins, Alone, Busy, Commenting
<1>10. races' \subseteq Races /\ requests' \in 0..MaxRequests
  BY <1>1, <1>4, <1>6 DEF TypeOK, Races
<1> QED BY <1>4, <1>5, <1>6, <1>7, <1>9, <1>10

\* What a request carries when it begins.
Removing(u, r) ==
  /\ r.pc = "unlink" /\ u \in Studio /\ r.version \in Versions
  /\ \/ r.then = "dropVersion" /\ Range(r.todo) = {page[p].file : p \in PagesOf(r.version)}
     \/ /\ r.then = "dropPage" /\ r.page \in Pages /\ Live(r.page)
        /\ page[r.page].version = r.version /\ Range(r.todo) = {page[r.page].file}
Replacing(u, r) ==
  /\ r.pc = "unlink" /\ u \in Studio /\ r.then = "repoint" /\ r.page \in Pages /\ Live(r.page)
  /\ Range(r.todo) = {page[r.page].file} /\ r.file \in Files /\ FreeFile(r.file)
Reviewed(u, r) ==
  \/ r.pc = "send" /\ u \in Studio /\ album.status = "DRAFT"
  \/ r.pc = "reopen" /\ u \in Owners /\ album.status = "APPROVED"
  \/ r.pc = "dropAlbum" /\ u \in Studio
  \/ r.pc \in {"approve", "changes"} /\ u \in Clients /\ album.status = "SENT"
  \/ /\ r.pc = "note" /\ u \in Clients /\ album.status = "SENT"
     /\ r.comment.version \in Versions /\ r.comment.page = NoPage
     /\ r.comment.parent = NoComment /\ r.comment.pin = 0
Commented(r) ==
  \/ r.pc = "check" /\ r.comment.version \in Versions
  \/ r.pc \in {"uncomment", "resolve"} /\ r.comment.parent \in Comments
Opening(u, r) ==
  \/ r.pc = "newVersion" /\ r.then = "" /\ u \in Studio /\ r.number > 0
  \/ Removing(u, r)
  \/ Replacing(u, r)
  \/ r.pc = "reorder" /\ r.then = "" /\ u \in Studio /\ r.version \in Versions
  \/ r.then = "" /\ Reviewed(u, r)
  \/ r.then = "" /\ Commented(r)

Opens(u) == \E new \in Request : Begin(u, new) /\ Opening(u, new)

LEMMA OpensVersion ==
  ASSUME TypeOK, PagesInv, NEW u \in Users,
         \/ StartUpload(u)
         \/ \E v \in Versions : StartDuplicate(u, v) \/ StartDeleteVersion(u, v)
              \/ \E order \in [1..Cardinality(PagesOf(v)) -> PagesOf(v)] : StartReorder(u, v, order)
  PROVE  Opens(u)
<1> DEFINE N == LastNumber + 1
<1>1. Idle \in Request /\ N \in Nat /\ N > 0
  <2>1. LastNumber \in Nat
    BY LastNumberTyped
  <2>2. N \in Nat /\ N > 0
    BY <2>1
  <2> QED BY <2>2, IdleIs
<1>2. CASE StartUpload(u)
  <2> DEFINE todo == [i \in 1..Spreads |-> NoFile]
  <2> DEFINE new == [Idle EXCEPT !.pc = "newVersion", !.number = N, !.todo = todo]
  <2>1. todo \in Seq(Files \cup {NoFile})
    BY SlotsAssumption
  <2>2. new \in Request /\ new.pc = "newVersion" /\ new.then = "" /\ new.number > 0
    <3> HIDE DEF todo, N
    <3> QED BY <1>1, <2>1, IdleIs DEF Request
  <2> QED BY <1>2, <2>2 DEF StartUpload, Opens, Opening
<1>3. ASSUME NEW v \in Versions, StartDuplicate(u, v) PROVE Opens(u)
  <2> DEFINE new == [Idle EXCEPT !.pc = "newVersion", !.number = N, !.todo = FilesOf(v)]
  <2>1. FilesOf(v) \in Seq(Files \cup {NoFile})
    BY VersionListed
  <2>2. new \in Request /\ new.pc = "newVersion" /\ new.then = "" /\ new.number > 0
    <3> HIDE DEF N
    <3> QED BY <1>1, <2>1, IdleIs DEF Request
  <2> QED BY <1>3, <2>2 DEF StartDuplicate, Opens, Opening
<1>4. ASSUME NEW v \in Versions, StartDeleteVersion(u, v) PROVE Opens(u)
  <2> DEFINE new == [Idle EXCEPT !.pc = "unlink", !.then = "dropVersion", !.version = v,
                       !.todo = FilesOf(v)]
  <2>1. FilesOf(v) \in Seq(Files \cup {NoFile})
        /\ Range(FilesOf(v)) = {page[p].file : p \in PagesOf(v)}
    BY VersionListed
  <2>2. new \in Request /\ new.pc = "unlink" /\ new.then = "dropVersion" /\ new.version = v
        /\ new.todo = FilesOf(v)
    BY <1>1, <2>1, IdleIs DEF Request
  <2>3. Begin(u, new) /\ u \in Studio
    BY <1>4 DEF StartDeleteVersion
  <2> HIDE DEF new
  <2> QED BY <2>1, <2>2, <2>3 DEF Opens, Opening, Removing
<1>5. ASSUME NEW v \in Versions, NEW order \in [1..Cardinality(PagesOf(v)) -> PagesOf(v)],
             StartReorder(u, v, order)
      PROVE  Opens(u)
  <2> DEFINE new == [Idle EXCEPT !.pc = "reorder", !.version = v, !.list = order]
  <2>1. order \in Seq(Pages)
    BY PagesOfVersion
  <2>2. new \in Request /\ new.pc = "reorder" /\ new.then = "" /\ new.version = v
    BY <1>1, <2>1, IdleIs DEF Request
  <2>3. Begin(u, new) /\ u \in Studio
    BY <1>5 DEF StartReorder
  <2> HIDE DEF new
  <2> QED BY <2>2, <2>3 DEF Opens, Opening
<1> QED BY <1>2, <1>3, <1>4, <1>5

LEMMA OpensSpread ==
  ASSUME TypeOK, PagesInv, NEW u \in Users, NEW p \in Pages,
         StartDeletePage(u, p) \/ StartReplace(u, p)
  PROVE  Opens(u)
<1> DEFINE todo == <<page[p].file>>
<1>1. Idle \in Request /\ u \in Studio /\ Live(p)
  BY IdleIs DEF StartDeletePage, StartReplace, Live
<1>2. page[p].version \in Versions /\ page[p].file \in Files \cup {NoFile}
  BY <1>1 DEF PagesInv, HasVersion
<1>3. todo \in Seq(Files \cup {NoFile}) /\ Range(todo) = {page[p].file}
  BY <1>2 DEF Range
<1> HIDE DEF todo
<1>4. CASE StartDeletePage(u, p)
  <2> DEFINE v == page[p].version
  <2> DEFINE new == [Idle EXCEPT !.pc = "unlink", !.then = "dropPage", !.page = p,
                       !.version = v, !.todo = todo]
  <2>1. new \in Request /\ new.pc = "unlink" /\ new.then = "dropPage" /\ new.page = p
        /\ new.version = v /\ new.todo = todo
    <3>1. v \in Versions
      BY <1>2
    <3> HIDE DEF v
    <3> QED BY <1>1, <1>3, <3>1 DEF Request
  <2>2. Begin(u, new)
    BY <1>4 DEF StartDeletePage, todo
  <2> HIDE DEF new
  <2> QED BY <1>1, <1>2, <1>3, <2>1, <2>2 DEF Opens, Opening, Removing
<1>5. CASE StartReplace(u, p)
  <2>1. PICK f \in Files : FreeFile(f)
          /\ Begin(u, [Idle EXCEPT !.pc = "unlink", !.then = "repoint", !.page = p,
                         !.todo = todo, !.file = f])
    BY <1>5, SomeIsIn DEF StartReplace, todo
  <2> DEFINE new == [Idle EXCEPT !.pc = "unlink", !.then = "repoint", !.page = p,
                       !.todo = todo, !.file = f]
  <2>2. new \in Request /\ new.pc = "unlink" /\ new.then = "repoint" /\ new.page = p
        /\ new.file = f /\ new.todo = todo
    BY <1>1, <1>3, IdleIs DEF Request
  <2>3. Begin(u, new)
    BY <2>1
  <2> HIDE DEF new
  <2> QED BY <1>1, <1>3, <2>1, <2>2, <2>3 DEF Opens, Opening, Replacing
<1> QED BY <1>4, <1>5

LEMMA OpensReview ==
  ASSUME TypeOK, NEW u \in Users,
         \/ StartSend(u) \/ StartReopen(u) \/ StartDeleteAlbum(u)
         \/ StartApprove(u) \/ StartRequestChanges(u)
  PROVE  Opens(u)
<1>1. Idle \in Request /\ Idle.then = ""
  BY IdleIs
<1>2. ASSUME NEW pc \in {"send", "reopen", "dropAlbum", "approve", "changes"}
      PROVE  /\ [Idle EXCEPT !.pc = pc] \in Request /\ [Idle EXCEPT !.pc = pc].pc = pc
             /\ [Idle EXCEPT !.pc = pc].then = ""
  BY <1>1 DEF Request
<1>3. CASE StartSend(u)
  BY <1>2, <1>3 DEF StartSend, Opens, Opening, Reviewed
<1>4. CASE StartReopen(u)
  BY <1>2, <1>4 DEF StartReopen, Opens, Opening, Reviewed
<1>5. CASE StartDeleteAlbum(u)
  BY <1>2, <1>5 DEF StartDeleteAlbum, Opens, Opening, Reviewed, Studio
<1>6. CASE StartApprove(u)
  BY <1>2, <1>6 DEF StartApprove, Opens, Opening, Reviewed
<1>7. CASE StartRequestChanges(u)
  <2>1. u \in Clients /\ album.status = "SENT"
    BY <1>7 DEF StartRequestChanges
  <2>2. CASE Begin(u, [Idle EXCEPT !.pc = "changes"])
    BY <1>2, <2>1, <2>2 DEF Opens, Opening, Reviewed
  <2>3. ASSUME NEW v \in Versions,
               Begin(u, [Idle EXCEPT !.pc = "note", !.comment.version = v, !.comment.author = u])
        PROVE  Opens(u)
    <3> DEFINE c == [NoCommentRow EXCEPT !.version = v, !.author = u]
    <3> DEFINE new == [Idle EXCEPT !.pc = "note", !.comment = c]
    <3>1. NoCommentRow \in Comment /\ Idle.comment = NoCommentRow
      BY IdleIs DEF Request
    <3>2. c \in Comment /\ c.version = v /\ c.page = NoPage /\ c.parent = NoComment /\ c.pin = 0
      BY <3>1 DEF Comment, NoCommentRow
    <3>3. [Idle EXCEPT !.pc = "note", !.comment.version = v, !.comment.author = u] = new
      BY <1>1, <3>1 DEF Request, Comment
    <3> HIDE DEF c
    <3>4. new \in Request /\ new.pc = "note" /\ new.then = "" /\ new.comment = c
      BY <1>1, <3>2 DEF Request
    <3>5. Begin(u, new)
      BY <2>3, <3>3
    <3> HIDE DEF new
    <3> QED BY <2>1, <3>2, <3>4, <3>5 DEF Opens, Opening, Reviewed
  <2> QED BY <1>7, <2>2, <2>3 DEF StartRequestChanges
<1> QED BY <1>3, <1>4, <1>5, <1>6, <1>7

LEMMA OpensComment ==
  ASSUME TypeOK, NEW u \in Users,
         \/ \E c \in NewComments(u) : StartComment(u, c)
         \/ \E c \in Comments :
              StartDeleteComment(u, c) \/ \E b \in BOOLEAN : StartResolve(u, c, b)
  PROVE  Opens(u)
<1>1. Idle \in Request /\ Idle.then = "" /\ NoCommentRow \in Comment /\ Idle.comment = NoCommentRow
  BY IdleIs DEF Request
<1>2. ASSUME NEW c \in NewComments(u), StartComment(u, c) PROVE Opens(u)
  <2> DEFINE new == [Idle EXCEPT !.pc = "check", !.comment = c]
  <2>1. c \in Comment /\ c.version \in Versions
    <3>1. c = [version |-> c.version, page |-> c.page, parent |-> c.parent, pin |-> c.pin,
               author |-> c.author, resolved |-> c.resolved]
      BY DEF NewComments
    <3>2. /\ c.version \in {v \in Versions : HasVersion(v)}
          /\ c.page \in {p \in Pages : page[p].version # NoVersion} \cup {NoPage}
          /\ c.parent \in {d \in Comments : Alive(d)} \cup {NoComment}
          /\ c.pin \in 0..1 /\ c.author \in {u} /\ c.resolved \in {FALSE}
      BY DEF NewComments
    <3>3. c.version \in Versions /\ c.page \in Pages \cup {NoPage}
      BY <3>2
    <3>4. c.parent \in Comments \cup {NoComment} /\ c.author \in Users
      BY <3>2
    <3>5. c.pin \in Nat
      BY <3>2
    <3>6. c.resolved \in BOOLEAN
      BY <3>2
    <3> QED BY <3>1, <3>3, <3>4, <3>5, <3>6 DEF Comment
  <2>2. new \in Request /\ new.pc = "check" /\ new.then = "" /\ new.comment = c
    BY <1>1, <2>1 DEF Request
  <2>3. Begin(u, new)
    BY <1>2 DEF StartComment
  <2> HIDE DEF new
  <2> QED BY <2>1, <2>2, <2>3 DEF Opens, Opening, Commented
<1>3. ASSUME NEW c \in Comments, StartDeleteComment(u, c) PROVE Opens(u)
  <2> DEFINE row == [NoCommentRow EXCEPT !.parent = c]
  <2> DEFINE new == [Idle EXCEPT !.pc = "uncomment", !.comment = row]
  <2>1. row \in Comment /\ row.parent = c
    BY <1>1 DEF Comment
  <2>2. [Idle EXCEPT !.pc = "uncomment", !.comment.parent = c] = new
    BY <1>1 DEF Request, Comment
  <2> HIDE DEF row
  <2>3. new \in Request /\ new.pc = "uncomment" /\ new.then = "" /\ new.comment = row
    BY <1>1, <2>1 DEF Request
  <2>4. Begin(u, new)
    BY <1>3, <2>2 DEF StartDeleteComment
  <2> HIDE DEF new
  <2> QED BY <2>1, <2>3, <2>4 DEF Opens, Opening, Commented
<1>4. ASSUME NEW c \in Comments, NEW b \in BOOLEAN, StartResolve(u, c, b) PROVE Opens(u)
  <2> DEFINE row == [NoCommentRow EXCEPT !.parent = c, !.resolved = b]
  <2> DEFINE new == [Idle EXCEPT !.pc = "resolve", !.comment = row]
  <2>1. row \in Comment /\ row.parent = c
    BY <1>1 DEF Comment
  <2>2. [Idle EXCEPT !.pc = "resolve", !.comment.parent = c, !.comment.resolved = b] = new
    BY <1>1 DEF Request, Comment
  <2> HIDE DEF row
  <2>3. new \in Request /\ new.pc = "resolve" /\ new.then = "" /\ new.comment = row
    BY <1>1, <2>1 DEF Request
  <2>4. Begin(u, new)
    BY <1>4, <2>2 DEF StartResolve
  <2> HIDE DEF new
  <2> QED BY <2>1, <2>3, <2>4 DEF Opens, Opening, Commented
<1> QED BY <1>2, <1>3, <1>4

\* What is known of a request that has just begun.
Started(u) ==
  /\ req[u].pc = "idle" /\ album.live /\ SameRows /\ OthersStay(u) /\ crashes' = crashes
  /\ requests' \in 0..MaxRequests /\ req' \in [Users -> Request]
  /\ races \subseteq races' /\ races' \subseteq Races
  /\ Alone(u) /\ req'[u].saw = album.status /\ Opening(u, req'[u])

LEMMA StartIs ==
  ASSUME TypeOK, PagesInv, NEW u \in Users, Start(u)
  PROVE  Started(u)
<1>1. req[u].pc = "idle" /\ requests < MaxRequests
  BY DEF Start
<1>2. Opens(u)
  <2>1. \/ StartUpload(u) \/ StartSend(u) \/ StartReopen(u) \/ StartDeleteAlbum(u)
        \/ StartApprove(u) \/ StartRequestChanges(u)
        \/ \E v \in Versions :
             \/ StartDuplicate(u, v) \/ StartDeleteVersion(u, v)
             \/ \E order \in [1..Cardinality(PagesOf(v)) -> PagesOf(v)] : StartReorder(u, v, order)
        \/ \E p \in Pages : StartDeletePage(u, p) \/ StartReplace(u, p)
        \/ \E c \in NewComments(u) : StartComment(u, c)
        \/ \E c \in Comments : StartDeleteComment(u, c) \/ \E b \in BOOLEAN : StartResolve(u, c, b)
    BY DEF Start
  <2> QED BY <2>1, OpensVersion, OpensSpread, OpensReview, OpensComment
<1>3. PICK new \in Request : Begin(u, new) /\ Opening(u, new)
  BY <1>2 DEF Opens
<1>4. /\ album.live /\ SameRows /\ OthersStay(u) /\ crashes' = crashes
      /\ requests' \in 0..MaxRequests /\ req' \in [Users -> Request]
      /\ races \subseteq races' /\ races' \subseteq Races
      /\ Begins(u, new) /\ Alone(u)
  BY <1>1, <1>3, BeginIs
<1>5. Opening(u, req'[u])
  <2> DEFINE r == req'[u]
  <2>1. /\ r.pc = new.pc /\ r.then = new.then /\ r.number = new.number /\ r.version = new.version
        /\ r.page = new.page /\ r.list = new.list /\ r.todo = new.todo /\ r.file = new.file
        /\ r.comment = new.comment
    BY <1>4 DEF Begins
  <2> HIDE DEF r
  <2>2. Removing(u, new) => Removing(u, r)
    BY <2>1 DEF Removing
  <2>3. Replacing(u, new) => Replacing(u, r)
    BY <2>1 DEF Replacing
  <2>4. Reviewed(u, new) => Reviewed(u, r)
    BY <2>1 DEF Reviewed
  <2>5. Commented(new) => Commented(r)
    BY <2>1 DEF Commented
  <2>6. Opening(u, r)
    BY <1>3, <2>1, <2>2, <2>3, <2>4, <2>5 DEF Opening
  <2> QED BY <2>6 DEF r
<1> QED BY <1>1, <1>4, <1>5 DEF Started, Begins

\* A new version, its next spread, a file taken away, a list of what is left, a
\* comment that passed the checks.
Created(u, v) ==
  /\ FreeVersion(v) /\ album.live /\ version' = [version EXCEPT ![v] = req[u].number]
  /\ UNCHANGED <<album, page, disk, comment>>
  /\ Carries(u) /\ req'[u].pc = "spread" /\ req'[u].version = v /\ req'[u].number = 1
  /\ req'[u].comment = req[u].comment
LEMMA CreateVersionIs ==
  ASSUME TypeOK, NEW u \in Users, CreateVersion(u)
  PROVE  /\ req[u].pc = "newVersion" /\ OthersStay(u) /\ SameBounds
         /\ req' \in [Users -> Request]
         /\ \/ Ends(u) /\ SameRows
            \/ \E v \in Versions : Created(u, v)
<1>1. CASE End(u, "newVersion") /\ UNCHANGED rows
  BY <1>1, EndIs DEF SameRows
<1>2. CASE ~(End(u, "newVersion") /\ UNCHANGED rows)
  <2>1. PICK v \in Versions :
          /\ FreeVersion(v) /\ album.live /\ version' = [version EXCEPT ![v] = req[u].number]
          /\ Step(u, "newVersion", [req[u] EXCEPT !.pc = "spread", !.version = v, !.number = 1])
          /\ UNCHANGED <<album, page, disk, comment>>
    BY <1>2, SomeIsIn DEF CreateVersion
  <2> DEFINE new == [req[u] EXCEPT !.pc = "spread", !.version = v, !.number = 1]
  <2>2. req[u] \in Request
    BY DEF TypeOK
  <2>3. /\ new \in Request /\ new.pc = "spread" /\ new.version = v /\ new.number = 1
        /\ new.then = req[u].then /\ new.saw = req[u].saw /\ new.page = req[u].page
        /\ new.file = req[u].file /\ new.comment = req[u].comment
    BY <2>2 DEF Request
  <2>4. Step(u, "newVersion", new)
    BY <2>1
  <2> HIDE DEF new
  <2>5. /\ req[u].pc = "newVersion" /\ req'[u] = new /\ OthersStay(u) /\ SameBounds
        /\ req' \in [Users -> Request]
    BY <2>3, <2>4, StepIs
  <2> QED BY <2>1, <2>3, <2>5 DEF Created, Carries
<1> QED BY <1>1, <1>2

Taken(u) == \E p \in PagesOf(req[u].version) : page[p].number = req[u].number
Added(u, p, f) ==
  /\ HasVersion(req[u].version) /\ ~Taken(u) /\ FreePage(p) /\ FreeFile(f)
  /\ page' = [page EXCEPT ![p] = [version |-> req[u].version, number |-> req[u].number, file |-> f]]
  /\ disk' = disk \cup {f}
  /\ UNCHANGED <<album, version, comment>>
  /\ Carries(u) /\ req'[u].pc = "spread" /\ req'[u].version = req[u].version
  /\ req'[u].number = req[u].number + 1 /\ req'[u].comment = req[u].comment
LEMMA AddSpreadIs ==
  ASSUME TypeOK, NEW u \in Users, AddSpread(u)
  PROVE  /\ req[u].pc = "spread" /\ OthersStay(u) /\ SameBounds
         /\ req' \in [Users -> Request]
         /\ \/ Ends(u) /\ SameRows
            \/ \E p \in Pages, f \in Files : Added(u, p, f)
<1>1. CASE End(u, "spread") /\ UNCHANGED rows
  BY <1>1, EndIs DEF SameRows
<1>2. CASE ~(End(u, "spread") /\ UNCHANGED rows)
  <2> DEFINE rest == Tail(req[u].todo)
  <2> DEFINE next == req[u].number + 1
  <2> DEFINE new == [req[u] EXCEPT !.todo = rest, !.number = next]
  <2>1. PICK p \in Pages, f \in Files :
          /\ HasVersion(req[u].version) /\ ~Taken(u) /\ FreePage(p) /\ FreeFile(f)
          /\ page' = [page EXCEPT ![p] = [version |-> req[u].version, number |-> req[u].number, file |-> f]]
          /\ disk' = disk \cup {f}
          /\ Step(u, "spread", new)
          /\ UNCHANGED <<album, version, comment>>
    BY <1>2, SomeIsIn DEF AddSpread, Taken
  <2>2. req[u] \in Request /\ req[u].todo # <<>> /\ req[u].pc = "spread"
    BY DEF TypeOK, AddSpread
  <2>3. rest \in Seq(Files \cup {NoFile}) /\ next \in Nat
    <3>1. req[u].todo \in Seq(Files \cup {NoFile}) /\ req[u].number \in Nat
      BY <2>2 DEF Request
    <3> QED BY <2>2, <3>1
  <2>4. /\ new \in Request /\ new.pc = "spread" /\ new.version = req[u].version
        /\ new.number = next
        /\ new.then = req[u].then /\ new.saw = req[u].saw /\ new.page = req[u].page
        /\ new.file = req[u].file /\ new.comment = req[u].comment
    <3> HIDE DEF rest, next
    <3> QED BY <2>2, <2>3 DEF Request
  <2>5. Step(u, "spread", new)
    BY <2>1
  <2> HIDE DEF new
  <2>6. /\ req[u].pc = "spread" /\ req'[u] = new /\ OthersStay(u) /\ SameBounds
        /\ req' \in [Users -> Request]
    BY <2>4, <2>5, StepIs
  <2> QED BY <2>1, <2>4, <2>6 DEF Added, Carries
<1> QED BY <1>1, <1>2

LEMMA UnlinkIs ==
  ASSUME TypeOK, NEW u \in Users, Unlink(u)
  PROVE  /\ req[u].pc = "unlink" /\ OthersStay(u) /\ SameBounds
         /\ req' \in [Users -> Request]
         /\ \E f \in Range(req[u].todo) : disk' = disk \ {f}
         /\ UNCHANGED <<album, version, page, comment>>
         /\ Carries(u) /\ req'[u].pc = "unlink" /\ req'[u].version = req[u].version
         /\ req'[u].comment = req[u].comment
         /\ Range(req'[u].todo) \subseteq Range(req[u].todo)
<1> DEFINE new == [req[u] EXCEPT !.todo = Tail(req[u].todo)]
<1>1. req[u] \in Request /\ req[u].todo # <<>>
  BY DEF TypeOK, Unlink
<1>2. req[u].pc = "unlink" /\ Step(u, "unlink", new)
  BY DEF Unlink, Step
<1>3. req[u].todo \in Seq(Files \cup {NoFile})
  BY <1>1 DEF Request
<1>4. /\ Tail(req[u].todo) \in Seq(Files \cup {NoFile})
      /\ Head(req[u].todo) \in Range(req[u].todo)
      /\ Range(Tail(req[u].todo)) \subseteq Range(req[u].todo)
  <2> DEFINE s == req[u].todo
  <2> HIDE DEF s
  <2>1. s \in Seq(Files \cup {NoFile}) /\ s # <<>>
    BY <1>1, <1>3 DEF s
  <2>2. Len(s) \in Nat /\ Len(s) > 0 /\ DOMAIN s = 1..Len(s) /\ Head(s) = s[1]
    BY <2>1
  <2>3. Tail(s) \in Seq(Files \cup {NoFile}) /\ DOMAIN Tail(s) = 1..(Len(s) - 1)
        /\ \A i \in 1..(Len(s) - 1) : Tail(s)[i] = s[i + 1]
    BY <2>1
  <2>4. Range(Tail(s)) \subseteq Range(s) /\ Head(s) \in Range(s)
    BY <2>2, <2>3 DEF Range
  <2> QED BY <2>3, <2>4 DEF s
<1>5. /\ new \in Request /\ new.pc = "unlink" /\ new.version = req[u].version
      /\ new.then = req[u].then /\ new.saw = req[u].saw /\ new.page = req[u].page
      /\ new.file = req[u].file /\ new.comment = req[u].comment
      /\ new.todo = Tail(req[u].todo)
  BY <1>1, <1>2, <1>4 DEF Request
<1> HIDE DEF new
<1>6. req'[u] = new /\ OthersStay(u) /\ SameBounds /\ req' \in [Users -> Request]
  BY <1>2, <1>5, StepIs
<1>7. disk' = disk \ {Head(req[u].todo)} /\ UNCHANGED <<album, version, page, comment>>
  BY DEF Unlink
<1>8. \E f \in Range(req[u].todo) : disk' = disk \ {f}
  BY <1>4, <1>7
<1> QED BY <1>2, <1>4, <1>5, <1>6, <1>7, <1>8 DEF Carries

LEMMA ListIs ==
  ASSUME TypeOK, PagesInv, NEW u \in Users, Shape(u), ListRemaining(u)
  PROVE  /\ req[u].pc = "list" /\ OthersStay(u) /\ SameBounds /\ SameRows
         /\ req' \in [Users -> Request]
         /\ Carries(u) /\ req'[u].pc = "renumber" /\ req'[u].version = req[u].version
         /\ req'[u].comment = req[u].comment
         /\ IsInjective(req'[u].list) /\ Range(req'[u].list) = PagesOf(req[u].version)
<1> DEFINE list == InOrder(PagesOf(req[u].version))
<1> DEFINE new == [req[u] EXCEPT !.pc = "renumber", !.list = list]
<1>1. req[u] \in Request /\ Step(u, "list", new) /\ req[u].pc = "list" /\ SameRows
  BY DEF TypeOK, ListRemaining, Step, SameRows
<1>2. req[u].version \in Versions
  BY <1>1 DEF Shape
<1>3. list \in Seq(Pages) /\ IsInjective(list) /\ Range(list) = PagesOf(req[u].version)
  BY <1>2, VersionListed
<1> HIDE DEF list
<1>4. /\ new \in Request /\ new.pc = "renumber" /\ new.version = req[u].version
      /\ new.then = req[u].then /\ new.saw = req[u].saw /\ new.page = req[u].page
      /\ new.file = req[u].file /\ new.comment = req[u].comment /\ new.list = list
  BY <1>1, <1>3 DEF Request
<1> HIDE DEF new
<1>5. req'[u] = new /\ OthersStay(u) /\ SameBounds /\ req' \in [Users -> Request]
  BY <1>1, <1>4, StepIs
<1> QED BY <1>1, <1>3, <1>4, <1>5 DEF Carries

\* createComment's checks, and the pin it takes.
Pinned(c) == IF c.parent = NoComment /\ c.pin > 0 THEN NextPin(c) ELSE 0
LEMMA CheckCommentIs ==
  ASSUME TypeOK, NEW u \in Users, CheckComment(u)
  PROVE  LET c == req[u].comment
             d == req'[u].comment
         IN /\ req[u].pc = "check" /\ OthersStay(u) /\ SameBounds /\ SameRows
            /\ req' \in [Users -> Request]
            /\ \/ Ends(u)
               \/ /\ HasVersion(c.version) /\ ParentOk(c)
                  /\ c.page # NoPage => page[c.page].version = c.version
                  /\ Carries(u) /\ req'[u].pc = "post" /\ req'[u].version = req[u].version
                  /\ SamePlace(d, c) /\ d.parent = c.parent /\ d.pin = Pinned(c)
<1> DEFINE c == req[u].comment
<1> DEFINE d == [c EXCEPT !.pin = Pinned(c)]
<1> DEFINE new == [req[u] EXCEPT !.pc = "post", !.comment = d]
<1>1. req[u] \in Request /\ req[u].pc = "check" /\ SameRows /\ c \in Comment
  BY DEF TypeOK, CheckComment, SameRows, Request
<1>2. Pinned(c) \in Nat
  <2>1. NextPin(c) \in Nat
    BY NextPinIsFree
  <2> QED BY <2>1 DEF Pinned
<1>3. CASE End(u, "check")
  BY <1>1, <1>3, EndIs
<1>4. CASE ~End(u, "check")
  <2>1. [req[u] EXCEPT !.pc = "post", !.comment.pin = Pinned(c)] = new
    BY <1>1 DEF Request, Comment
  <2>2. /\ HasVersion(c.version) /\ ParentOk(c)
        /\ c.page # NoPage => page[c.page].version = c.version
        /\ Step(u, "check", new)
    BY <1>4, <2>1 DEF CheckComment, Pinned
  <2>3. d \in Comment /\ SamePlace(d, c) /\ d.parent = c.parent /\ d.pin = Pinned(c)
    BY <1>1, <1>2 DEF Comment, SamePlace
  <2> HIDE DEF d
  <2>4. /\ new \in Request /\ new.pc = "post" /\ new.version = req[u].version
        /\ new.then = req[u].then /\ new.saw = req[u].saw /\ new.page = req[u].page
        /\ new.file = req[u].file /\ new.comment = d
    BY <1>1, <2>3 DEF Request
  <2> HIDE DEF new
  <2>5. req'[u] = new /\ OthersStay(u) /\ SameBounds /\ req' \in [Users -> Request]
    BY <2>2, <2>4, StepIs
  <2> QED BY <1>1, <2>2, <2>3, <2>4, <2>5 DEF Carries
<1> QED BY <1>3, <1>4

LEMMA UnlinkedIs ==
  ASSUME TypeOK, NEW u \in Users, Shape(u), Unlinked(u)
  PROVE  /\ req[u].pc = "unlink" /\ OthersStay(u) /\ SameBounds /\ SameRows
         /\ req' \in [Users -> Request]
         /\ req[u].then \in {"dropVersion", "dropPage", "repoint"} /\ Walks(u, req[u].then)
<1>1. req[u].pc = "unlink" /\ Goto(u, "unlink", req[u].then) /\ SameRows
  BY DEF Unlinked, Goto, Step, SameRows
<1>2. req[u].then \in {"dropVersion", "dropPage", "repoint"}
  BY <1>1 DEF Shape
<1> QED BY <1>1, <1>2, GotoIs

Unpaged(v) == [p \in Pages |-> IF page[p].version = v THEN NoPageRow ELSE page[p]]
Without(p) == [page EXCEPT ![p] = NoPageRow]
LEMMA DropPageIs ==
  ASSUME TypeOK, NEW u \in Users, DropPage(u)
  PROVE  /\ req[u].pc = "dropPage" /\ OthersStay(u) /\ SameBounds
         /\ req' \in [Users -> Request]
         /\ \/ Ends(u) /\ SameRows /\ ~Live(req[u].page)
            \/ /\ Walks(u, "list") /\ Live(req[u].page) /\ page' = Without(req[u].page)
               /\ comment' = Swept(Without(req[u].page), {})
               /\ UNCHANGED <<album, version, disk>>
<1>1. CASE page[req[u].page].version = NoVersion
  BY <1>1, EndIs DEF DropPage, Live, SameRows
<1>2. CASE page[req[u].page].version # NoVersion
  BY <1>2, GotoIs DEF DropPage, Live, Without
<1> QED BY <1>1, <1>2

LEMMA PostNoteIs ==
  ASSUME TypeOK, NEW u \in Users, PostNote(u)
  PROVE  /\ req[u].pc = "note" /\ OthersStay(u) /\ SameBounds
         /\ req' \in [Users -> Request]
         /\ Ends(u) \/ Walks(u, "changes")
         /\ Insert(req[u].comment) /\ UNCHANGED <<album, version, page, disk>>
BY EndIs, GotoIs DEF PostNote

SetsStatus(u) ==
  \/ req[u].pc = "send" /\ (album.live => album'.status = "SENT")
  \/ req[u].pc = "reopen" /\ (album.live => album'.status = "DRAFT")
  \/ req[u].pc = "approve" /\ (album.live => album'.status = "APPROVED")
  \/ req[u].pc = "changes" /\ (album.live => album'.status = "CHANGES_REQUESTED")
LEMMA SetStatusIs ==
  ASSUME TypeOK, NEW u \in Users, SetStatus(u)
  PROVE  /\ Ends(u) /\ OthersStay(u) /\ SameBounds /\ req' \in [Users -> Request]
         /\ UNCHANGED <<version, page, disk, comment>>
         /\ album' \in [live : BOOLEAN, status : Statuses, locked : BOOLEAN]
         /\ SetsStatus(u) /\ (~album.live => album' = album)
<1> DEFINE set(status, locked) == IF album.live
      THEN [album EXCEPT !.status = status, !.locked = locked] ELSE album
<1>1. album \in [live : BOOLEAN, status : Statuses, locked : BOOLEAN]
  BY DEF TypeOK
<1>2. ASSUME NEW status \in Statuses, NEW locked \in BOOLEAN
      PROVE  /\ set(status, locked) \in [live : BOOLEAN, status : Statuses, locked : BOOLEAN]
             /\ album.live => set(status, locked).status = status
             /\ ~album.live => set(status, locked) = album
  BY <1>1
<1>3. album.locked \in BOOLEAN /\ {"DRAFT", "SENT", "APPROVED", "CHANGES_REQUESTED"} \subseteq Statuses
  BY <1>1 DEF Statuses
<1>4. /\ \/ End(u, "send") /\ album' = set("SENT", album.locked)
         \/ End(u, "reopen") /\ album' = set("DRAFT", FALSE)
         \/ End(u, "approve") /\ album' = set("APPROVED", TRUE)
         \/ End(u, "changes") /\ album' = set("CHANGES_REQUESTED", album.locked)
      /\ UNCHANGED <<version, page, disk, comment>>
  BY DEF SetStatus
<1> HIDE DEF set
<1>5. CASE End(u, "send") /\ album' = set("SENT", album.locked)
  BY <1>2, <1>3, <1>4, <1>5, EndIs DEF SetsStatus
<1>6. CASE End(u, "reopen") /\ album' = set("DRAFT", FALSE)
  BY <1>2, <1>3, <1>4, <1>6, EndIs DEF SetsStatus
<1>7. CASE End(u, "approve") /\ album' = set("APPROVED", TRUE)
  BY <1>2, <1>3, <1>4, <1>7, EndIs DEF SetsStatus
<1>8. CASE End(u, "changes") /\ album' = set("CHANGES_REQUESTED", album.locked)
  BY <1>2, <1>3, <1>4, <1>8, EndIs DEF SetsStatus
<1> QED BY <1>4, <1>5, <1>6, <1>7, <1>8

\* Rows that are gone leave no rows that hang on them; the others stay as they are.
LEMMA SweptIs ==
  ASSUME TypeOK, NEW pages, NEW C
  PROVE  /\ Swept(pages, C) \in [Comments -> Comment]
         /\ \A c \in Comments :
              \/ Swept(pages, C)[c] = NoCommentRow
              \/ /\ Swept(pages, C)[c] = comment[c] /\ c \notin C
                 /\ comment[c].page # NoPage => pages[comment[c].page].version # NoVersion
                 /\ comment[c].parent \in Comments =>
                      LET q == comment[c].parent
                      IN /\ q \notin C
                         /\ comment[q].page # NoPage => pages[comment[q].page].version # NoVersion
<1> DEFINE gone == C \cup {c \in Comments : comment[c].page # NoPage
                                            /\ pages[comment[c].page].version = NoVersion}
<1>1. Swept(pages, C) = [c \in Comments |-> IF c \in gone \/ comment[c].parent \in gone
                                              THEN NoCommentRow ELSE comment[c]]
  BY DEF Swept
<1>2. NoCommentRow \in Comment /\ comment \in [Comments -> Comment]
  BY IdleIs DEF TypeOK, Request
<1>3. ASSUME NEW c \in Comments, c \notin gone
      PROVE  c \notin C /\ (comment[c].page # NoPage => pages[comment[c].page].version # NoVersion)
  BY <1>3
<1> HIDE DEF gone
<1>4. Swept(pages, C) \in [Comments -> Comment]
  BY <1>1, <1>2
<1>5. ASSUME NEW c \in Comments
      PROVE  \/ Swept(pages, C)[c] = NoCommentRow
             \/ Swept(pages, C)[c] = comment[c] /\ c \notin gone /\ comment[c].parent \notin gone
  BY <1>1
<1> QED BY <1>3, <1>4, <1>5

LEMMA NoRows ==
  /\ NoCommentRow \in Comment /\ NoCommentRow.version = NoVersion
  /\ NoCommentRow.page = NoPage /\ NoCommentRow.parent = NoComment /\ NoCommentRow.pin = 0
  /\ NoPageRow \in Page /\ NoPageRow.version = NoVersion /\ NoPageRow.file = NoFile
<1>1. NoCommentRow \in Comment
  BY IdleIs DEF Request
<1> QED BY <1>1 DEF NoCommentRow, NoPageRow, Page

\* A comment is inserted if what it hangs on is there.
Inserted(c, d) ==
  /\ HasVersion(c.version) /\ FreeComment(d)
  /\ c.page # NoPage => Live(c.page)
  /\ c.parent # NoComment => Alive(c.parent)
  /\ comment' = [comment EXCEPT ![d] = c]
LEMMA InsertIs ==
  ASSUME TypeOK, NEW c \in Comment, Insert(c)
  PROVE  /\ comment' \in [Comments -> Comment]
         /\ UNCHANGED comment \/ \E d \in Comments : Inserted(c, d)
<1>1. CASE UNCHANGED comment
  BY <1>1 DEF TypeOK
<1>2. CASE ~UNCHANGED comment
  <2>1. PICK d \in Comments : Inserted(c, d)
    BY <1>2, SomeIsIn DEF Insert, Inserted, Live
  <2> QED BY <2>1 DEF Inserted, TypeOK
<1> QED BY <1>1, <1>2

-----------------------------------------------------------------------------
(* Types, and what requests carry.                                         *)

LEMMA SafeTypes ==
  ASSUME TypeOK, PagesInv, NEW u \in Users, Shape(u), Proceed(u)
  PROVE  OthersStay(u) /\ SameBounds /\ TypeOK'
<1>1. /\ album \in [live : BOOLEAN, status : Statuses, locked : BOOLEAN]
      /\ version \in [Versions -> Nat] /\ page \in [Pages -> Page] /\ disk \subseteq Files
      /\ comment \in [Comments -> Comment] /\ req[u] \in Request
  BY DEF TypeOK
<1>2. ASSUME OthersStay(u), SameBounds, req' \in [Users -> Request],
             album' \in [live : BOOLEAN, status : Statuses, locked : BOOLEAN],
             version' \in [Versions -> Nat], page' \in [Pages -> Page], disk' \subseteq Files,
             comment' \in [Comments -> Comment]
      PROVE  OthersStay(u) /\ SameBounds /\ TypeOK'
  BY <1>2 DEF TypeOK, SameBounds
<1>3. ASSUME OthersStay(u), SameBounds, req' \in [Users -> Request], SameRows
      PROVE  OthersStay(u) /\ SameBounds /\ TypeOK'
  BY <1>1, <1>2, <1>3 DEF SameRows, rows
<1>4. CASE CreateVersion(u)
  <2>1. CASE SameRows
    BY <1>3, <1>4, <2>1, CreateVersionIs
  <2>2. ASSUME NEW v \in Versions, Created(u, v) PROVE OthersStay(u) /\ SameBounds /\ TypeOK'
    <3>1. req[u].number \in Nat
      BY <1>1 DEF Request
    <3>2. version' \in [Versions -> Nat]
      BY <1>1, <2>2, <3>1 DEF Created
    <3> QED BY <1>1, <1>2, <1>4, <2>2, <3>2, CreateVersionIs DEF Created
  <2> QED BY <1>4, <2>1, <2>2, CreateVersionIs
<1>5. CASE AddSpread(u)
  <2>1. CASE SameRows
    BY <1>3, <1>5, <2>1, AddSpreadIs
  <2>2. ASSUME NEW p \in Pages, NEW f \in Files, Added(u, p, f)
        PROVE  OthersStay(u) /\ SameBounds /\ TypeOK'
    <3> DEFINE row == [version |-> req[u].version, number |-> req[u].number, file |-> f]
    <3>1. row \in Page
      BY <1>1 DEF Request, Page
    <3>2. page' = [page EXCEPT ![p] = row] /\ disk' = disk \cup {f}
      BY <2>2 DEF Added
    <3> HIDE DEF row
    <3>3. page' \in [Pages -> Page] /\ disk' \subseteq Files
      BY <1>1, <3>1, <3>2
    <3> QED BY <1>1, <1>2, <1>5, <2>2, <3>3, AddSpreadIs DEF Added
  <2> QED BY <1>5, <2>1, <2>2, AddSpreadIs
<1>6. CASE SpreadsDone(u)
  BY <1>3, <1>6, GotoIs DEF SpreadsDone, SameRows
<1>7. CASE Resend(u)
  <2>1. album' \in [live : BOOLEAN, status : Statuses, locked : BOOLEAN]
    BY <1>1, <1>7 DEF Resend, Statuses
  <2> QED BY <1>1, <1>2, <1>7, <2>1, EndIs DEF Resend
<1>8. CASE Unlink(u)
  <2>1. disk' \subseteq Files
    BY <1>1, <1>8, UnlinkIs
  <2> QED BY <1>1, <1>2, <1>8, <2>1, UnlinkIs
<1>9. CASE Unlinked(u)
  BY <1>3, <1>9, UnlinkedIs
<1>10. CASE DropVersion(u)
  <2> DEFINE v == req[u].version
  <2>1. /\ End(u, "dropVersion") /\ version' = [version EXCEPT ![v] = 0] /\ page' = Unpaged(v)
        /\ comment' = Swept(Unpaged(v), {c \in Comments : comment[c].version = v})
        /\ UNCHANGED <<album, disk>>
    BY <1>10 DEF DropVersion, Unpaged
  <2>2. version' \in [Versions -> Nat] /\ Unpaged(v) \in [Pages -> Page]
    BY <1>1, <2>1, NoRows DEF Unpaged
  <2>3. comment' \in [Comments -> Comment]
    BY <2>1, SweptIs
  <2> QED BY <1>1, <1>2, <2>1, <2>2, <2>3, EndIs
<1>11. CASE DropPage(u)
  <2>1. CASE SameRows
    BY <1>3, <1>11, <2>1, DropPageIs
  <2>2. CASE /\ page' = Without(req[u].page) /\ comment' = Swept(Without(req[u].page), {})
             /\ UNCHANGED <<album, version, disk>>
    <3>1. page' \in [Pages -> Page]
      BY <1>1, <2>2, NoRows DEF Without
    <3>2. comment' \in [Comments -> Comment]
      BY <2>2, SweptIs
    <3> QED BY <1>1, <1>2, <1>11, <2>2, <3>1, <3>2, DropPageIs
  <2> QED BY <1>11, <2>1, <2>2, DropPageIs
<1>12. CASE ListRemaining(u)
  BY <1>3, <1>12, ListIs
<1>13. CASE Renumber(u) \/ Reorder(u)
  <2>1. /\ page' = Renumbered(req[u].list, req[u].version)
        /\ UNCHANGED <<album, version, disk, comment>>
        /\ End(u, "renumber") \/ End(u, "reorder")
    BY <1>13 DEF Renumber, Reorder
  <2>2. req[u].version \in Versions /\ req[u].list \in Seq(Pages)
    <3>1. req[u].pc \in {"renumber", "reorder"}
      BY <2>1, EndIs
    <3>2. req[u].version \in Versions
      BY <3>1 DEF Shape
    <3>3. req[u].list \in Seq(Pages)
      BY <1>1 DEF Request
    <3> QED BY <3>2, <3>3
  <2>3. page' \in [Pages -> Page]
    BY <2>1, <2>2, RenumberedRows
  <2> QED BY <1>1, <1>2, <2>1, <2>3, EndIs
<1>14. CASE Repoint(u)
  <2>1. /\ End(u, "repoint") /\ disk' = disk \cup {req[u].file}
        /\ page' = IF page[req[u].page].version = NoVersion THEN page
                     ELSE [page EXCEPT ![req[u].page].file = req[u].file]
        /\ UNCHANGED <<album, version, comment>>
    BY <1>14 DEF Repoint
  <2>2. req[u].page \in Pages /\ req[u].file \in Files
    BY <2>1, EndIs DEF Shape, On
  <2>3. [page EXCEPT ![req[u].page].file = req[u].file] \in [Pages -> Page]
    <3>1. page[req[u].page] \in Page
      BY <1>1, <2>2
    <3>2. [page[req[u].page] EXCEPT !.file = req[u].file] \in Page
      BY <2>2, <3>1 DEF Page
    <3> QED BY <1>1, <3>2
  <2>4. page' \in [Pages -> Page] /\ disk' \subseteq Files
    BY <1>1, <2>1, <2>2, <2>3
  <2> QED BY <1>1, <1>2, <2>1, <2>4, EndIs
<1>15. CASE SetStatus(u)
  BY <1>1, <1>2, <1>15, SetStatusIs
<1>16. CASE DropAlbum(u)
  BY <1>1, <1>2, <1>16, EndIs, NoRows DEF DropAlbum
<1>17. CASE CheckComment(u)
  BY <1>3, <1>17, CheckCommentIs
<1>18. CASE PostComment(u)
  <2>1. req[u].comment \in Comment
    BY <1>1 DEF Request
  <2> QED BY <1>1, <1>2, <1>18, <2>1, EndIs, InsertIs DEF PostComment
<1>19. CASE PostNote(u)
  <2>1. req[u].comment \in Comment
    BY <1>1 DEF Request
  <2> QED BY <1>1, <1>2, <1>19, <2>1, PostNoteIs, InsertIs
<1>20. CASE DropComment(u)
  BY <1>1, <1>2, <1>20, EndIs, SweptIs DEF DropComment
<1>21. CASE Resolve(u)
  <2>1. comment' \in [Comments -> Comment]
    <3>1. req[u].comment \in Comment
      BY <1>1 DEF Request
    <3>2. req[u].comment.resolved \in BOOLEAN
      BY <3>1 DEF Comment
    <3>3. CASE UNCHANGED comment
      BY <1>1, <3>3
    <3>4. CASE Alive(req[u].comment.parent)
               /\ comment' = [comment EXCEPT ![req[u].comment.parent].resolved = req[u].comment.resolved]
      BY <1>1, <3>2, <3>4 DEF Comment, Alive
    <3> QED BY <1>21, <3>3, <3>4 DEF Resolve
  <2> QED BY <1>1, <1>2, <1>21, <2>1, EndIs DEF Resolve
<1> QED
  BY <1>4, <1>5, <1>6, <1>7, <1>8, <1>9, <1>10, <1>11, <1>12, <1>13, <1>14, <1>15, <1>16,
     <1>17, <1>18, <1>19, <1>20, <1>21 DEF Proceed

\* A spread stays on its version until it is gone; what is gone stays gone as
\* long as somebody refers to it.
PagesFollow ==
  \A p \in Pages : page'[p].version \in {page[p].version, NoVersion} \/ FreePage(p)

LEMMA SafeFollow ==
  ASSUME TypeOK, PagesInv, NEW u \in Users, Shape(u), Proceed(u)
  PROVE  PagesFollow
<1>1. page \in [Pages -> Page] /\ req[u] \in Request
  BY DEF TypeOK
<1>2. CASE page' = page
  BY <1>2 DEF PagesFollow
<1>3. CASE AddSpread(u)
  <2>1. CASE SameRows
    BY <1>2, <2>1 DEF SameRows, rows
  <2>2. ASSUME NEW p \in Pages, NEW f \in Files, Added(u, p, f) PROVE PagesFollow
    BY <1>1, <2>2 DEF Added, PagesFollow
  <2> QED BY <1>3, <2>1, <2>2, AddSpreadIs
<1>4. CASE DropVersion(u)
  <2>1. page' = Unpaged(req[u].version)
    BY <1>4 DEF DropVersion, Unpaged
  <2> QED BY <2>1, NoRows DEF Unpaged, PagesFollow
<1>5. CASE DropPage(u)
  <2>1. page' = page \/ page' = Without(req[u].page)
    BY <1>5, DropPageIs DEF SameRows, rows
  <2> QED BY <1>1, <1>2, <2>1, NoRows DEF Without, PagesFollow
<1>6. CASE Renumber(u) \/ Reorder(u)
  <2>1. page' = Renumbered(req[u].list, req[u].version) /\ req[u].pc \in {"renumber", "reorder"}
    BY <1>6, EndIs DEF Renumber, Reorder
  <2>2. req[u].version \in Versions /\ req[u].list \in Seq(Pages)
    BY <1>1, <2>1 DEF Shape, Request
  <2> QED BY <2>1, <2>2, RenumberedRows DEF PagesFollow
<1>7. CASE Repoint(u)
  <2>1. page' = page \/ page' = [page EXCEPT ![req[u].page].file = req[u].file]
    BY <1>7 DEF Repoint
  <2> QED BY <1>1, <2>1 DEF PagesFollow, Page
<1>8. CASE DropAlbum(u)
  BY <1>8, NoRows DEF DropAlbum, PagesFollow
<1>9. CASE CreateVersion(u)
  BY <1>2, <1>9, CreateVersionIs DEF SameRows, rows, Created
<1>10. CASE \/ SpreadsDone(u) \/ Resend(u) \/ Unlink(u) \/ Unlinked(u) \/ ListRemaining(u)
            \/ SetStatus(u) \/ CheckComment(u) \/ PostComment(u) \/ PostNote(u)
            \/ DropComment(u) \/ Resolve(u)
  BY <1>2, <1>10 DEF SpreadsDone, Resend, Unlink, Unlinked, ListRemaining, SetStatus, CheckComment,
       PostComment, PostNote, DropComment, Resolve, rows
<1> QED
  BY <1>3, <1>4, <1>5, <1>6, <1>7, <1>8, <1>9, <1>10 DEF Proceed

\* How a step leaves the request itself.
LEMMA SafeCarried ==
  ASSUME TypeOK, PagesInv, NEW u \in Users, Shape(u), Proceed(u)
  PROVE  Shape(u)'
<1>1. page' \in [Pages -> Page] /\ req[u] \in Request /\ PagesFollow
  BY SafeTypes, SafeFollow DEF TypeOK
<1>2. ASSUME Ends(u) PROVE Shape(u)'
  BY <1>2, IdleIs DEF Ends, Shape, On, Deleting
<1>3. ASSUME On(u, "dropPage")
      PROVE  req[u].page \in Pages /\ page'[req[u].page].version \in {NoVersion, req[u].version}
  <2>1. req[u].page \in Pages /\ page[req[u].page].version \in {NoVersion, req[u].version}
    BY <1>3 DEF Shape
  <2>2. ~FreePage(req[u].page)
    BY DEF FreePage
  <2> QED BY <1>1, <2>1, <2>2 DEF PagesFollow
<1>4. CASE CreateVersion(u)
  <2>1. CASE Ends(u)
    BY <1>2, <2>1
  <2>2. ASSUME NEW v \in Versions, Created(u, v) PROVE Shape(u)'
    BY <2>2 DEF Created, Shape, On, Deleting
  <2> QED BY <1>4, <2>1, <2>2, CreateVersionIs
<1>5. CASE AddSpread(u)
  <2>1. CASE Ends(u)
    BY <1>2, <2>1
  <2>2. ASSUME NEW p \in Pages, NEW f \in Files, Added(u, p, f) PROVE Shape(u)'
    <3>1. req[u].pc = "spread" /\ req[u].version \in Versions /\ req[u].number \in Nat
      BY <1>1, <1>5, AddSpreadIs DEF Shape, Request
    <3>2. req'[u].number > 0
      BY <2>2, <3>1 DEF Added
    <3> QED BY <2>2, <3>1, <3>2 DEF Added, Shape, On, Deleting
  <2> QED BY <1>5, <2>1, <2>2, AddSpreadIs
<1>6. CASE SpreadsDone(u)
  <2>1. req'[u].pc = "resend"
    BY <1>6, GotoIs DEF SpreadsDone, Walks
  <2> QED BY <2>1 DEF Shape, On, Deleting
<1>7. CASE Unlink(u)
  <2>1. req[u].pc = "unlink" /\ req'[u].pc = "unlink" /\ req'[u].then = req[u].then
        /\ req'[u].version = req[u].version /\ req'[u].page = req[u].page
        /\ req'[u].file = req[u].file
    BY <1>7, UnlinkIs DEF Carries
  <2> QED BY <1>3, <2>1 DEF Shape, On, Deleting
<1>8. CASE Unlinked(u)
  <2>1. req[u].pc = "unlink" /\ req'[u].pc = req[u].then /\ req'[u].then = req[u].then
        /\ req'[u].version = req[u].version /\ req'[u].page = req[u].page
        /\ req'[u].file = req[u].file /\ req[u].then \in {"dropVersion", "dropPage", "repoint"}
    BY <1>8, UnlinkedIs DEF Walks, Carries
  <2> QED BY <1>3, <2>1 DEF Shape, On, Deleting
<1>9. CASE DropPage(u)
  <2>1. CASE Ends(u)
    BY <1>2, <2>1
  <2>2. CASE Walks(u, "list")
    <3>1. req[u].pc = "dropPage" /\ req'[u].pc = "list" /\ req'[u].then = req[u].then
          /\ req'[u].version = req[u].version
      BY <1>9, <2>2, DropPageIs DEF Walks, Carries
    <3> QED BY <3>1 DEF Shape, On, Deleting
  <2> QED BY <1>9, <2>1, <2>2, DropPageIs
<1>10. CASE ListRemaining(u)
  <2>1. req[u].pc = "list" /\ req'[u].pc = "renumber" /\ req'[u].then = req[u].then
        /\ req'[u].version = req[u].version
    BY <1>10, ListIs DEF Carries
  <2> QED BY <2>1 DEF Shape, On, Deleting
<1>11. CASE CheckComment(u)
  <2>1. CASE Ends(u)
    BY <1>2, <2>1
  <2>2. CASE req'[u].pc = "post" /\ SamePlace(req'[u].comment, req[u].comment)
    <3>1. req[u].pc = "check" /\ req'[u].comment.version = req[u].comment.version
      BY <1>11, <2>2, CheckCommentIs DEF SamePlace
    <3> QED BY <2>2, <3>1 DEF Shape, On, Deleting
  <2> QED BY <1>11, <2>1, <2>2, CheckCommentIs
<1>12. CASE PostNote(u)
  <2>1. Ends(u) \/ req'[u].pc = "changes"
    BY <1>12, PostNoteIs DEF Walks
  <2>2. CASE req'[u].pc = "changes"
    BY <2>2 DEF Shape, On, Deleting
  <2> QED BY <1>2, <2>1, <2>2
<1>13. CASE \/ Resend(u) \/ DropVersion(u) \/ Renumber(u) \/ Reorder(u) \/ Repoint(u) \/ DropAlbum(u)
            \/ PostComment(u) \/ DropComment(u) \/ Resolve(u)
  BY <1>2, <1>13, EndIs DEF Resend, DropVersion, Renumber, Reorder, Repoint, DropAlbum,
       PostComment, DropComment, Resolve
<1>14. CASE SetStatus(u)
  BY <1>2, <1>14, SetStatusIs
<1> QED
  BY <1>4, <1>5, <1>6, <1>7, <1>8, <1>9, <1>10, <1>11, <1>12, <1>13, <1>14 DEF Proceed

LEMMA ProceedKept ==
  ASSUME Kept, PagesInv, NEW u \in Users, Proceed(u)
  PROVE  Kept'
<1>1. OthersStay(u) /\ TypeOK' /\ Shape(u)' /\ PagesFollow
  BY SafeTypes, SafeCarried, SafeFollow DEF Kept
<1>2. ASSUME NEW w \in Users \ {u} PROVE Shape(w)'
  <2>1. Shape(w) /\ req'[w] = req[w]
    BY <1>1 DEF Kept, OthersStay
  <2>2. ~FreePage(req[w].page)
    BY DEF FreePage
  <2>3. req[w].page \in Pages =>
          page'[req[w].page].version \in {page[req[w].page].version, NoVersion}
    BY <1>1, <2>2 DEF PagesFollow
  <2> QED BY <2>1, <2>3 DEF Shape, On, Deleting
<1> QED BY <1>1, <1>2 DEF Kept

LEMMA StartKept ==
  ASSUME Kept, PagesInv, NEW u \in Users, Started(u)
  PROVE  Kept'
<1>1. TypeOK'
  BY DEF Kept, Started, TypeOK, SameRows, rows
<1>2. ASSUME NEW w \in Users \ {u} PROVE Shape(w)'
  <2>1. Shape(w) /\ req'[w] = req[w] /\ page' = page
    BY DEF Kept, Started, OthersStay, SameRows, rows
  <2> QED BY <2>1 DEF Shape, On, Deleting
<1>3. Shape(u)'
  <2>1. Opening(u, req'[u]) /\ page' = page
    BY DEF Started, SameRows, rows
  <2> QED BY <2>1 DEF Opening, Removing, Replacing, Reviewed, Commented, Shape, On, Deleting
<1> QED BY <1>1, <1>2, <1>3 DEF Kept

-----------------------------------------------------------------------------
(* Spreads: one version, one number and one file each.                     *)

LEMMA PagesKept ==
  ASSUME Kept, PagesInv, FilesInv, NEW u \in Users, Proceed(u)
  PROVE  PagesInv'
<1>1. /\ TypeOK /\ Shape(u) /\ req[u] \in Request
      /\ version \in [Versions -> Nat] /\ page \in [Pages -> Page]
  BY DEF Kept, TypeOK
<1>2. ASSUME \A p \in Pages : page'[p].version # NoVersion =>
               /\ page'[p] = page[p] /\ (HasVersion(page[p].version) => HasVersion(page[p].version)')
      PROVE  PagesInv'
  BY <1>2 DEF PagesInv, Live
<1>3. CASE page' = page /\ version' = version
  BY <1>2, <1>3 DEF HasVersion
<1>4. CASE CreateVersion(u)
  <2>1. CASE SameRows
    BY <1>3, <2>1 DEF SameRows, rows
  <2>2. ASSUME NEW v \in Versions, Created(u, v) PROVE PagesInv'
    <3>1. page' = page /\ version' = [version EXCEPT ![v] = req[u].number]
      BY <2>2 DEF Created
    <3>2. req[u].number \in Nat /\ req[u].number > 0
      BY <1>1, <1>4, CreateVersionIs DEF Shape, Request
    <3>3. \A w \in Versions : version[w] > 0 => version'[w] > 0
      BY <1>1, <3>1, <3>2
    <3> QED BY <1>2, <3>1, <3>3 DEF HasVersion
  <2> QED BY <1>1, <1>4, <2>1, <2>2, CreateVersionIs
<1>5. CASE AddSpread(u)
  <2>1. CASE SameRows
    BY <1>3, <2>1 DEF SameRows, rows
  <2>2. ASSUME NEW p \in Pages, NEW f \in Files, Added(u, p, f) PROVE PagesInv'
    <3> DEFINE v == req[u].version
    <3>1. /\ HasVersion(v) /\ ~Taken(u) /\ FreePage(p) /\ FreeFile(f) /\ version' = version
          /\ page' = [page EXCEPT ![p] = [version |-> v, number |-> req[u].number, file |-> f]]
      BY <2>2 DEF Added
    <3>2. req[u].number \in Nat /\ req[u].number > 0
      BY <1>1, <1>5, AddSpreadIs DEF Shape, Request
    <3>3. /\ page'[p].version = v /\ page'[p].number = req[u].number /\ page'[p].file = f
          /\ \A q \in Pages \ {p} : page'[q] = page[q]
      BY <1>1, <3>1
    <3>4. \A q \in Pages : page[q].file # f
      BY <3>1 DEF FreeFile
    <3>5. \A q \in Pages : page[q].version = v => page[q].number # req[u].number
      BY <3>1 DEF Taken, PagesOf
    <3>6. \A w : HasVersion(w)' <=> HasVersion(w)
      BY <3>1 DEF HasVersion
    <3>7. ASSUME NEW q \in Pages, page'[q].version # NoVersion
          PROVE  HasVersion(page'[q].version) /\ page'[q].number > 0 /\ page'[q].file \in Files
      <4>1. CASE q = p
        BY <3>1, <3>2, <3>3, <4>1
      <4>2. CASE q # p
        BY <3>3, <3>7, <4>2 DEF PagesInv, Live
      <4> QED BY <4>1, <4>2
    <3>8. ASSUME NEW q \in Pages, NEW r \in Pages, page'[q].version # NoVersion,
                 page'[q].version = page'[r].version, page'[q].number = page'[r].number
          PROVE  q = r
      BY <3>3, <3>5, <3>8 DEF PagesInv, Live
    <3>9. ASSUME NEW q \in Pages, NEW r \in Pages, page'[q].version # NoVersion,
                 page'[r].version # NoVersion, page'[q].file = page'[r].file
          PROVE  q = r
      BY <3>3, <3>4, <3>9 DEF PagesInv, Live
    <3> QED BY <3>6, <3>7, <3>8, <3>9 DEF PagesInv, Live
  <2> QED BY <1>1, <1>5, <2>1, <2>2, AddSpreadIs
<1>6. CASE DropVersion(u)
  <2> DEFINE v == req[u].version
  <2>1. page' = Unpaged(v) /\ version' = [version EXCEPT ![v] = 0]
    BY <1>6 DEF DropVersion, Unpaged
  <2>2. \A p \in Pages : page'[p].version # NoVersion => page'[p] = page[p] /\ page[p].version # v
    BY <2>1, NoRows DEF Unpaged
  <2>3. \A w : w # v /\ HasVersion(w) => HasVersion(w)'
    BY <1>1, <2>1 DEF HasVersion
  <2> QED BY <1>2, <2>2, <2>3
<1>7. CASE DropPage(u)
  <2>1. CASE SameRows
    BY <1>3, <2>1 DEF SameRows, rows
  <2>2. CASE page' = Without(req[u].page) /\ version' = version
    BY <1>1, <1>2, <2>2, NoRows DEF Without, HasVersion
  <2> QED BY <1>1, <1>7, <2>1, <2>2, DropPageIs
<1>8. CASE Renumber(u) \/ Reorder(u)
  <2>1. page' = Renumbered(req[u].list, req[u].version) /\ req[u].pc \in {"renumber", "reorder"}
        /\ version' = version
    BY <1>8, EndIs, <1>1 DEF Renumber, Reorder
  <2>2. req[u].version \in Versions /\ req[u].list \in Seq(Pages)
    BY <1>1, <2>1 DEF Shape, Request
  <2>3. /\ NumbersOwn(page')
        /\ \A p \in Pages : /\ page'[p].version = page[p].version
                            /\ page'[p].file = page[p].file
                            /\ Live(p) => page'[p].number > 0
    BY <1>1, <2>1, <2>2, RenumberedRows
  <2> QED BY <2>1, <2>3 DEF PagesInv, Live, NumbersOwn, HasVersion
<1>9. CASE Repoint(u)
  <2> DEFINE p == req[u].page
  <2> DEFINE f == req[u].file
  <2>1. End(u, "repoint") /\ version' = version
        /\ page' = IF page[p].version = NoVersion THEN page ELSE [page EXCEPT ![p].file = f]
    BY <1>9 DEF Repoint
  <2>2. On(u, "repoint")
    BY <1>1, <2>1, EndIs DEF On, Shape
  <2>3. p \in Pages /\ f \in Files /\ Reserved(u, f)
    BY <1>1, <2>2 DEF Shape, Reserved
  <2>4. \A q \in Pages : Live(q) => page[q].file # f
    BY <2>3 DEF FilesInv
  <2>5. CASE Live(p)
    <3>1. page' = [page EXCEPT ![p].file = f]
      BY <2>1, <2>5 DEF Live
    <3>2. /\ page'[p].version = page[p].version /\ page'[p].number = page[p].number
          /\ page'[p].file = f /\ \A q \in Pages \ {p} : page'[q] = page[q]
      BY <1>1, <2>3, <3>1 DEF Page
    <3> HIDE DEF p, f
    <3> QED BY <2>1, <2>3, <2>4, <3>2 DEF PagesInv, Live, HasVersion
  <2> QED BY <1>3, <2>1, <2>5 DEF Live
<1>10. CASE DropAlbum(u)
  BY <1>2, <1>10, NoRows DEF DropAlbum
<1>11. CASE \/ SpreadsDone(u) \/ Resend(u) \/ Unlink(u) \/ Unlinked(u) \/ ListRemaining(u)
            \/ SetStatus(u) \/ CheckComment(u) \/ PostComment(u) \/ PostNote(u)
            \/ DropComment(u) \/ Resolve(u)
  BY <1>3, <1>11 DEF SpreadsDone, Resend, Unlink, Unlinked, ListRemaining, SetStatus, CheckComment,
       PostComment, PostNote, DropComment, Resolve, rows
<1> QED
  BY <1>4, <1>5, <1>6, <1>7, <1>8, <1>9, <1>10, <1>11 DEF Proceed

-----------------------------------------------------------------------------
(* Threads: comments hang on what is there.                                *)

\* The rows that are there after a step.
VersionNext(v) == v \in Versions /\ version'[v] > 0
AliveNext(c) == c \in Comments /\ comment'[c].version # NoVersion

CommentsFollow ==
  \A c \in Comments :
    \/ comment'[c].version = NoVersion
    \/ comment'[c].version = comment[c].version /\ comment'[c].parent = comment[c].parent
    \/ FreeComment(c)

LEMMA SafeComments ==
  ASSUME TypeOK, NEW u \in Users, Proceed(u)
  PROVE  CommentsFollow
<1>1. comment \in [Comments -> Comment] /\ req[u] \in Request /\ req[u].comment \in Comment
  BY DEF TypeOK, Request
<1>2. CASE comment' = comment
  BY <1>2 DEF CommentsFollow
<1>3. ASSUME NEW pages, NEW C, comment' = Swept(pages, C) PROVE CommentsFollow
  BY <1>3, SweptIs, NoRows DEF CommentsFollow
<1>4. ASSUME Insert(req[u].comment) PROVE CommentsFollow
  <2>1. ASSUME NEW d \in Comments, Inserted(req[u].comment, d) PROVE CommentsFollow
    BY <1>1, <2>1 DEF Inserted, CommentsFollow
  <2> QED BY <1>1, <1>2, <1>4, <2>1, InsertIs
<1>5. CASE DropVersion(u)
  BY <1>3, <1>5 DEF DropVersion
<1>6. CASE DropPage(u)
  BY <1>2, <1>3, <1>6, DropPageIs DEF SameRows, rows
<1>7. CASE DropComment(u)
  BY <1>3, <1>7 DEF DropComment
<1>8. CASE PostComment(u) \/ PostNote(u)
  BY <1>4, <1>8 DEF PostComment, PostNote
<1>9. CASE Resolve(u)
  <2>1. comment' = comment
        \/ comment' = [comment EXCEPT ![req[u].comment.parent].resolved = req[u].comment.resolved]
    BY <1>9 DEF Resolve
  <2> QED BY <1>1, <1>2, <2>1 DEF CommentsFollow, Comment
<1>10. CASE DropAlbum(u)
  BY <1>10, NoRows DEF DropAlbum, CommentsFollow
<1>11. CASE CreateVersion(u) \/ AddSpread(u)
  BY <1>2, <1>11, CreateVersionIs, AddSpreadIs DEF SameRows, rows, Created, Added
<1>12. CASE \/ SpreadsDone(u) \/ Resend(u) \/ Unlink(u) \/ Unlinked(u) \/ ListRemaining(u)
            \/ SetStatus(u) \/ CheckComment(u) \/ Renumber(u) \/ Reorder(u) \/ Repoint(u)
  BY <1>2, <1>12 DEF SpreadsDone, Resend, Unlink, Unlinked, ListRemaining, SetStatus, CheckComment,
       Renumber, Reorder, Repoint, rows
<1> QED
  BY <1>5, <1>6, <1>7, <1>8, <1>9, <1>10, <1>11, <1>12 DEF Proceed

\* What another request has checked stays as it was, or is gone.
LEMMA CheckedFollows ==
  ASSUME NEW w \in Users, Checked(w), req'[w] = req[w], PagesFollow, CommentsFollow,
         req[w] \in Request
  PROVE  Checked(w)'
<1> DEFINE c == req[w].comment
<1>1. ~FreePage(c.page) /\ (c.parent # NoComment => ~FreeComment(c.parent))
  BY DEF FreePage, FreeComment
<1>2. c \in Comment
  BY DEF Request
<1>3. c.page # NoPage => c.page \in Pages
  BY <1>2 DEF Comment
<1>4. c.parent # NoComment => c.parent \in Comments
  BY <1>2 DEF Comment
<1>5. SUFFICES ASSUME req[w].pc = "post"
               PROVE  /\ c.page # NoPage /\ page'[c.page].version # NoVersion
                           => page'[c.page].version = c.version
                      /\ c.parent # NoComment /\ AliveNext(c.parent) =>
                           comment'[c.parent].version = c.version /\ comment'[c.parent].parent = NoComment
  BY DEF Checked, Live, Alive, AliveNext
<1>6. /\ c.page # NoPage /\ Live(c.page) => page[c.page].version = c.version
      /\ c.parent # NoComment /\ Alive(c.parent) =>
           comment[c.parent].version = c.version /\ comment[c.parent].parent = NoComment
  BY <1>5 DEF Checked
<1> HIDE DEF c
<1>7. ASSUME c.page # NoPage, page'[c.page].version # NoVersion
      PROVE  page'[c.page].version = c.version
  BY <1>1, <1>3, <1>6, <1>7 DEF PagesFollow, Live
<1>8. ASSUME c.parent # NoComment, AliveNext(c.parent)
      PROVE  comment'[c.parent].version = c.version /\ comment'[c.parent].parent = NoComment
  BY <1>1, <1>4, <1>6, <1>8 DEF CommentsFollow, Alive, AliveNext
<1> QED BY <1>7, <1>8

\* Threads stay intact when what is left hangs on what it hung on.
LEMMA ThreadsFollow ==
  ASSUME ThreadsIntact, TypeOK,
         \A c \in Comments : AliveNext(c) =>
           /\ comment'[c] = comment[c]
           /\ HasVersion(comment[c].version) => VersionNext(comment[c].version)
           /\ comment[c].page # NoPage => page'[comment[c].page].version = page[comment[c].page].version
           /\ comment[c].parent # NoComment => comment'[comment[c].parent] = comment[comment[c].parent]
  PROVE  ThreadsIntact'
<1> SUFFICES ASSUME NEW c \in Comments, AliveNext(c)
             PROVE  /\ VersionNext(comment'[c].version)
                    /\ comment'[c].page # NoPage => page'[comment'[c].page].version = comment'[c].version
                    /\ comment'[c].parent # NoComment =>
                         /\ AliveNext(comment'[c].parent) /\ comment'[comment'[c].parent].parent = NoComment
                         /\ comment'[comment'[c].parent].version = comment'[c].version
  BY DEF ThreadsIntact, Alive, AliveNext, HasVersion, VersionNext
<1>1. comment'[c] = comment[c] /\ Alive(c)
  BY DEF Alive, AliveNext
<1>2. /\ HasVersion(comment[c].version)
      /\ comment[c].page # NoPage => page[comment[c].page].version = comment[c].version
      /\ comment[c].parent # NoComment =>
           /\ Alive(comment[c].parent) /\ comment[comment[c].parent].parent = NoComment
           /\ comment[comment[c].parent].version = comment[c].version
  BY <1>1 DEF ThreadsIntact
<1> QED BY <1>1, <1>2 DEF Alive, AliveNext

\* Rows that go take with them what hangs on them.
LEMMA SweptIntact ==
  ASSUME TypeOK, ThreadsIntact, NEW pages, NEW C \in SUBSET Comments,
         comment' = Swept(pages, C), page' = pages,
         \A p \in Pages : pages[p].version \in {page[p].version, NoVersion},
         \A c \in Comments : c \notin C /\ HasVersion(comment[c].version)
                             => VersionNext(comment[c].version)
  PROVE  ThreadsIntact'
<1> SUFFICES ASSUME NEW c \in Comments, AliveNext(c)
             PROVE  /\ comment'[c] = comment[c]
                    /\ HasVersion(comment[c].version) => VersionNext(comment[c].version)
                    /\ comment[c].page # NoPage => page'[comment[c].page].version = page[comment[c].page].version
                    /\ comment[c].parent # NoComment => comment'[comment[c].parent] = comment[comment[c].parent]
  BY ThreadsFollow
<1>1. /\ comment'[c] = comment[c] /\ c \notin C /\ comment[c].version # NoVersion
      /\ comment[c].page # NoPage => page'[comment[c].page].version # NoVersion
      /\ comment[c].parent \in Comments =>
           LET q == comment[c].parent
           IN /\ q \notin C
              /\ comment[q].page # NoPage => page'[comment[q].page].version # NoVersion
  <2>1. comment'[c] # NoCommentRow
    BY NoRows DEF AliveNext
  <2> QED BY <2>1, SweptIs DEF AliveNext
<1>2. Alive(c) /\ comment[c] \in Comment
  BY <1>1 DEF Alive, TypeOK
<1>3. /\ comment[c].page # NoPage => page[comment[c].page].version = comment[c].version
      /\ comment[c].parent # NoComment =>
           /\ Alive(comment[c].parent) /\ comment[comment[c].parent].parent = NoComment
           /\ comment[comment[c].parent].version = comment[c].version
  BY <1>2 DEF ThreadsIntact
<1>4. comment[c].page # NoPage => comment[c].page \in Pages
  BY <1>2 DEF Comment
<1>5. comment[c].page # NoPage => page'[comment[c].page].version = page[comment[c].page].version
  BY <1>1, <1>4
<1>6. ASSUME comment[c].parent # NoComment
      PROVE  comment'[comment[c].parent] = comment[comment[c].parent]
  <2> DEFINE q == comment[c].parent
  <2>1. q \in Comments /\ comment[q].parent = NoComment /\ NoComment \notin Comments
    BY <1>3, <1>6, SlotsAssumption DEF Alive
  <2>2. q \notin C /\ (comment[q].page # NoPage => pages[comment[q].page].version # NoVersion)
    BY <1>1, <2>1
  <2> DEFINE gone == C \cup {d \in Comments : comment[d].page # NoPage
                                              /\ pages[comment[d].page].version = NoVersion}
  <2>3. comment' = [d \in Comments |-> IF d \in gone \/ comment[d].parent \in gone
                                         THEN NoCommentRow ELSE comment[d]]
    BY DEF Swept
  <2>4. q \notin gone
    BY <2>2
  <2>5. NoComment \notin gone
    BY <2>1
  <2> HIDE DEF gone, q
  <2> QED BY <2>1, <2>3, <2>4, <2>5 DEF q
<1> QED BY <1>1, <1>5, <1>6

LEMMA InsertedIntact ==
  ASSUME TypeOK, ThreadsIntact, NEW c \in Comment, NEW d \in Comments, Inserted(c, d),
         page' = page, version' = version,
         c.page # NoPage => page[c.page].version = c.version,
         c.parent # NoComment =>
           comment[c.parent].version = c.version /\ comment[c.parent].parent = NoComment
  PROVE  ThreadsIntact'
<1>1. /\ HasVersion(c.version) /\ ~Alive(d) /\ comment' = [comment EXCEPT ![d] = c]
      /\ c.parent # NoComment => Alive(c.parent)
  BY DEF Inserted, FreeComment
<1>2. comment'[d] = c /\ \A e \in Comments \ {d} : comment'[e] = comment[e]
  BY <1>1 DEF TypeOK
<1>3. c.version # NoVersion
  BY <1>1, SlotsAssumption DEF HasVersion
<1>4. ASSUME NEW e, Alive(e) PROVE e # d /\ AliveNext(e) /\ comment'[e] = comment[e]
  BY <1>1, <1>2, <1>4 DEF Alive, AliveNext
<1> SUFFICES ASSUME NEW e \in Comments, AliveNext(e)
             PROVE  /\ VersionNext(comment'[e].version)
                    /\ comment'[e].page # NoPage => page'[comment'[e].page].version = comment'[e].version
                    /\ comment'[e].parent # NoComment =>
                         /\ AliveNext(comment'[e].parent) /\ comment'[comment'[e].parent].parent = NoComment
                         /\ comment'[comment'[e].parent].version = comment'[e].version
  BY DEF ThreadsIntact, Alive, AliveNext, HasVersion, VersionNext
<1>5. CASE e = d
  BY <1>1, <1>2, <1>3, <1>4, <1>5 DEF HasVersion, VersionNext
<1>6. CASE e # d
  <2>1. Alive(e) /\ comment'[e] = comment[e]
    BY <1>2, <1>6 DEF Alive, AliveNext
  <2>2. /\ HasVersion(comment[e].version)
        /\ comment[e].page # NoPage => page[comment[e].page].version = comment[e].version
        /\ comment[e].parent # NoComment =>
             /\ Alive(comment[e].parent) /\ comment[comment[e].parent].parent = NoComment
             /\ comment[comment[e].parent].version = comment[e].version
    BY <2>1 DEF ThreadsIntact
  <2> QED BY <1>4, <2>1, <2>2 DEF HasVersion, VersionNext
<1> QED BY <1>5, <1>6

LEMMA ThreadsKept ==
  ASSUME Kept, PagesInv, ThreadsInv, NEW u \in Users, Proceed(u)
  PROVE  ThreadsInv'
<1>1. /\ TypeOK /\ ThreadsIntact /\ Shape(u) /\ Checked(u) /\ req[u] \in Request
      /\ version \in [Versions -> Nat] /\ page \in [Pages -> Page]
      /\ comment \in [Comments -> Comment] /\ req[u].comment \in Comment
  BY DEF Kept, TypeOK, ThreadsInv, Request
<1>2. OthersStay(u) /\ PagesFollow /\ CommentsFollow
  BY <1>1, SafeTypes, SafeFollow, SafeComments
<1>3. \A w \in Users \ {u} : Checked(w)'
  <2>1. \A w \in Users \ {u} : Checked(w) /\ req'[w] = req[w] /\ req[w] \in Request
    BY <1>1, <1>2 DEF ThreadsInv, OthersStay, TypeOK
  <2> QED BY <1>2, <2>1, CheckedFollows
<1>4. ASSUME ThreadsIntact', req'[u].pc # "post" \/ Checked(u)' PROVE ThreadsInv'
  <2>1. Checked(u)'
    BY <1>4 DEF Checked
  <2> QED BY <1>3, <1>4, <2>1 DEF ThreadsInv
<1>5. ASSUME Ends(u) PROVE req'[u].pc # "post"
  BY <1>5, IdleIs DEF Ends
<1>6. ASSUME comment' = comment,
             \A v \in Versions : HasVersion(v) => VersionNext(v),
             \A p \in Pages : Live(p) => page'[p].version = page[p].version
      PROVE  ThreadsIntact'
  <2>1. ASSUME NEW c \in Comments, AliveNext(c)
        PROVE  /\ comment'[c] = comment[c]
               /\ HasVersion(comment[c].version) => VersionNext(comment[c].version)
               /\ comment[c].page # NoPage => page'[comment[c].page].version = page[comment[c].page].version
               /\ comment[c].parent # NoComment => comment'[comment[c].parent] = comment[comment[c].parent]
    <3>1. Alive(c) /\ comment[c] \in Comment
      BY <1>1, <1>6, <2>1 DEF Alive, AliveNext
    <3>2. comment[c].page # NoPage => comment[c].page \in Pages /\ Live(comment[c].page)
      BY <1>1, <3>1 DEF ThreadsIntact, Live, Comment, Alive
    <3> QED BY <1>6, <3>2 DEF HasVersion
  <2> QED BY <1>1, <2>1, ThreadsFollow
<1>7. ASSUME comment' = comment, page' = page, version' = version PROVE ThreadsIntact'
  BY <1>6, <1>7 DEF HasVersion, VersionNext
<1>8. CASE CreateVersion(u)
  <2>1. CASE Ends(u) /\ SameRows
    BY <1>4, <1>5, <1>7, <2>1 DEF SameRows, rows
  <2>2. ASSUME NEW v \in Versions, Created(u, v) PROVE ThreadsInv'
    <3>1. req[u].number > 0 /\ req[u].number \in Nat
      BY <1>1, <1>8, CreateVersionIs DEF Shape, Request
    <3>2. \A w \in Versions : HasVersion(w) => VersionNext(w)
      BY <1>1, <2>2, <3>1 DEF Created, HasVersion, VersionNext
    <3>3. comment' = comment /\ page' = page /\ req'[u].pc # "post"
      BY <2>2 DEF Created
    <3>4. ThreadsIntact'
      BY <1>6, <3>2, <3>3
    <3> QED BY <1>4, <3>3, <3>4
  <2> QED BY <1>1, <1>8, <2>1, <2>2, CreateVersionIs
<1>9. CASE AddSpread(u)
  <2>1. CASE Ends(u) /\ SameRows
    BY <1>4, <1>5, <1>7, <2>1 DEF SameRows, rows
  <2>2. ASSUME NEW p \in Pages, NEW f \in Files, Added(u, p, f) PROVE ThreadsInv'
    <3>1. \A q \in Pages : Live(q) => page'[q].version = page[q].version
      BY <1>1, <2>2 DEF Added, FreePage, Live
    <3>2. comment' = comment /\ version' = version /\ req'[u].pc # "post"
      BY <2>2 DEF Added
    <3>3. ThreadsIntact'
      BY <1>6, <3>1, <3>2 DEF HasVersion, VersionNext
    <3> QED BY <1>4, <3>2, <3>3
  <2> QED BY <1>1, <1>9, <2>1, <2>2, AddSpreadIs
<1>10. CASE DropVersion(u)
  <2> DEFINE v == req[u].version
  <2> DEFINE C == {c \in Comments : comment[c].version = v}
  <2>1. /\ End(u, "dropVersion") /\ version' = [version EXCEPT ![v] = 0]
        /\ page' = Unpaged(v) /\ comment' = Swept(Unpaged(v), C)
    BY <1>10 DEF DropVersion, Unpaged
  <2>2. \A p \in Pages : Unpaged(v)[p].version \in {page[p].version, NoVersion}
    BY NoRows DEF Unpaged
  <2>3. \A c \in Comments : c \notin C /\ HasVersion(comment[c].version)
                            => VersionNext(comment[c].version)
    BY <1>1, <2>1 DEF HasVersion, VersionNext
  <2>4. ThreadsIntact'
    <3>1. C \in SUBSET Comments
      OBVIOUS
    <3> HIDE DEF C, v
    <3> QED BY <1>1, <2>1, <2>2, <2>3, <3>1, SweptIntact
  <2> QED BY <1>1, <1>4, <1>5, <2>1, <2>4, EndIs
<1>11. CASE DropPage(u)
  <2>1. CASE Ends(u) /\ SameRows
    BY <1>4, <1>5, <1>7, <2>1 DEF SameRows, rows
  <2>2. CASE /\ Walks(u, "list") /\ page' = Without(req[u].page)
             /\ comment' = Swept(Without(req[u].page), {}) /\ version' = version
    <3>1. \A p \in Pages : Without(req[u].page)[p].version \in {page[p].version, NoVersion}
      BY <1>1, NoRows DEF Without
    <3>2. \A c \in Comments : HasVersion(comment[c].version) => VersionNext(comment[c].version)
      BY <2>2 DEF HasVersion, VersionNext
    <3>3. ThreadsIntact'
      BY <1>1, <2>2, <3>1, <3>2, SweptIntact
    <3> QED BY <1>4, <2>2, <3>3 DEF Walks
  <2> QED BY <1>1, <1>11, <2>1, <2>2, DropPageIs
<1>12. CASE Renumber(u) \/ Reorder(u)
  <2>1. page' = Renumbered(req[u].list, req[u].version) /\ req[u].pc \in {"renumber", "reorder"}
        /\ version' = version /\ comment' = comment /\ Ends(u)
    BY <1>1, <1>12, EndIs DEF Renumber, Reorder
  <2>2. req[u].version \in Versions /\ req[u].list \in Seq(Pages)
    BY <1>1, <2>1 DEF Shape, Request
  <2>3. \A p \in Pages : page'[p].version = page[p].version
    BY <1>1, <2>1, <2>2, RenumberedRows
  <2>4. ThreadsIntact'
    BY <1>6, <2>1, <2>3 DEF HasVersion, VersionNext
  <2> QED BY <1>4, <1>5, <2>1, <2>4
<1>13. CASE Repoint(u)
  <2>1. End(u, "repoint") /\ version' = version /\ comment' = comment
        /\ (page' = page \/ page' = [page EXCEPT ![req[u].page].file = req[u].file])
    BY <1>13 DEF Repoint
  <2>2. \A p \in Pages : page'[p].version = page[p].version
    BY <1>1, <2>1 DEF Page
  <2>3. ThreadsIntact'
    BY <1>6, <2>1, <2>2 DEF HasVersion, VersionNext
  <2> QED BY <1>1, <1>4, <1>5, <2>1, <2>3, EndIs
<1>14. CASE DropAlbum(u)
  <2>1. ThreadsIntact'
    BY <1>14, NoRows DEF DropAlbum, ThreadsIntact, Alive
  <2> QED BY <1>1, <1>4, <1>5, <1>14, <2>1, EndIs DEF DropAlbum
<1>15. CASE CheckComment(u)
  <2>1. comment' = comment /\ page' = page /\ version' = version
    BY <1>15 DEF CheckComment, rows
  <2>2. ThreadsIntact'
    BY <1>7, <2>1
  <2>3. CASE Ends(u)
    BY <1>4, <1>5, <2>2, <2>3
  <2>4. CASE ~Ends(u)
    <3> DEFINE c == req[u].comment
    <3> DEFINE d == req'[u].comment
    <3>1. /\ ParentOk(c)
          /\ c.page # NoPage => page[c.page].version = c.version
          /\ d.version = c.version /\ d.page = c.page /\ d.parent = c.parent
      BY <1>1, <1>15, <2>4, CheckCommentIs DEF SamePlace
    <3>2. c.parent # NoComment => comment[c.parent].version = c.version /\ comment[c.parent].parent = NoComment
      BY <3>1 DEF ParentOk
    <3>3. Checked(u)'
      <4> HIDE DEF c
      <4> QED BY <2>1, <3>1, <3>2 DEF Checked
    <3> QED BY <1>4, <2>2, <3>3
  <2> QED BY <2>3, <2>4
<1>16. CASE PostComment(u) \/ PostNote(u)
  <2> DEFINE c == req[u].comment
  <2>1. /\ Insert(c) /\ page' = page /\ version' = version /\ req'[u].pc # "post"
        /\ req[u].pc \in {"post", "note"}
    BY <1>1, <1>5, <1>16, EndIs, PostNoteIs DEF PostComment, Walks
  <2>2. ASSUME NEW d \in Comments, Inserted(c, d) PROVE ThreadsIntact'
    <3>1. /\ c.page # NoPage => Live(c.page)
          /\ c.parent # NoComment => Alive(c.parent)
      BY <2>2 DEF Inserted
    <3>2. /\ c.page # NoPage => page[c.page].version = c.version
          /\ c.parent # NoComment =>
               comment[c.parent].version = c.version /\ comment[c.parent].parent = NoComment
      <4>1. CASE req[u].pc = "post"
        BY <1>1, <3>1, <4>1 DEF Checked
      <4>2. CASE req[u].pc = "note"
        BY <1>1, <4>2 DEF Shape
      <4> QED BY <2>1, <4>1, <4>2
    <3>3. c \in Comment
      BY <1>1
    <3> HIDE DEF c
    <3> QED BY <1>1, <2>1, <2>2, <3>2, <3>3, InsertedIntact
  <2>3. ThreadsIntact'
    BY <1>1, <1>7, <2>1, <2>2, InsertIs
  <2> QED BY <1>4, <2>1, <2>3
<1>17. CASE DropComment(u)
  <2> DEFINE C == {req[u].comment.parent}
  <2>1. /\ End(u, "uncomment") /\ comment' = Swept(page, C) /\ page' = page /\ version' = version
    BY <1>17 DEF DropComment
  <2>2. C \in SUBSET Comments
    BY <1>1, <2>1, EndIs DEF Shape
  <2>3. ThreadsIntact'
    <3>1. \A c \in Comments : HasVersion(comment[c].version) => VersionNext(comment[c].version)
      BY <2>1 DEF HasVersion, VersionNext
    <3> HIDE DEF C
    <3> QED BY <1>1, <2>1, <2>2, <3>1, SweptIntact
  <2> QED BY <1>1, <1>4, <1>5, <2>1, <2>3, EndIs
<1>18. CASE Resolve(u)
  <2> DEFINE c == req[u].comment.parent
  <2>1. /\ End(u, "resolve") /\ page' = page /\ version' = version
        /\ comment' = comment \/ comment' = [comment EXCEPT ![c].resolved = req[u].comment.resolved]
    BY <1>18 DEF Resolve
  <2>2. \A d \in Comments : /\ comment'[d].version = comment[d].version /\ comment'[d].page = comment[d].page
                            /\ comment'[d].parent = comment[d].parent
    BY <1>1, <2>1 DEF Comment
  <2>3. ThreadsIntact'
    <3> SUFFICES ASSUME NEW d \in Comments, AliveNext(d)
                 PROVE  /\ VersionNext(comment'[d].version)
                        /\ comment'[d].page # NoPage => page'[comment'[d].page].version = comment'[d].version
                        /\ comment'[d].parent # NoComment =>
                             /\ AliveNext(comment'[d].parent) /\ comment'[comment'[d].parent].parent = NoComment
                             /\ comment'[comment'[d].parent].version = comment'[d].version
      BY DEF ThreadsIntact, Alive, AliveNext, HasVersion, VersionNext
    <3>1. Alive(d)
      BY <2>2 DEF Alive, AliveNext
    <3>2. /\ HasVersion(comment[d].version)
          /\ comment[d].page # NoPage => page[comment[d].page].version = comment[d].version
          /\ comment[d].parent # NoComment =>
               /\ Alive(comment[d].parent) /\ comment[comment[d].parent].parent = NoComment
               /\ comment[comment[d].parent].version = comment[d].version
      BY <1>1, <3>1 DEF ThreadsIntact
    <3> QED BY <2>1, <2>2, <3>2 DEF HasVersion, VersionNext, Alive, AliveNext
  <2> QED BY <1>1, <1>4, <1>5, <2>1, <2>3, EndIs
<1>19. CASE SpreadsDone(u) \/ Resend(u) \/ Unlink(u) \/ Unlinked(u) \/ ListRemaining(u) \/ SetStatus(u)
  <2>1. comment' = comment /\ page' = page /\ version' = version
    BY <1>19 DEF SpreadsDone, Resend, Unlink, Unlinked, ListRemaining, SetStatus, rows
  <2>2. req'[u].pc # "post"
    BY <1>1, <1>5, <1>19, EndIs, GotoIs, UnlinkIs, UnlinkedIs, ListIs, SetStatusIs
       DEF SpreadsDone, Resend, Walks
  <2> QED BY <1>4, <1>7, <2>1, <2>2
<1> QED
  BY <1>8, <1>9, <1>10, <1>11, <1>12, <1>13, <1>14, <1>15, <1>16, <1>17, <1>18, <1>19 DEF Proceed

\* A request that has just begun has touched no row.
LEMMA RowsStarted ==
  ASSUME Kept, PagesInv, ThreadsInv, NEW u \in Users, Started(u)
  PROVE  PagesInv' /\ ThreadsInv'
<1>1. page' = page /\ version' = version /\ comment' = comment /\ OthersStay(u)
  BY DEF Started, SameRows, rows
<1>2. PagesInv'
  BY <1>1 DEF PagesInv, Live, HasVersion
<1>3. ThreadsIntact'
  BY <1>1 DEF ThreadsInv, ThreadsIntact, Alive, HasVersion
<1>4. req'[u].pc # "post"
  BY DEF Started, Opening, Removing, Replacing, Reviewed, Commented
<1>5. ASSUME NEW w \in Users \ {u} PROVE Checked(w)'
  <2>1. Checked(w) /\ req'[w] = req[w]
    BY <1>1 DEF ThreadsInv, OthersStay
  <2> QED BY <1>1, <2>1 DEF Checked, Live, Alive
<1>6. Checked(u)'
  BY <1>4 DEF Checked
<1> QED BY <1>2, <1>3, <1>5, <1>6 DEF ThreadsInv

-----------------------------------------------------------------------------
(* What each step does, as the rest of the proof needs it.                 *)

\* Where a request goes on from where it is.
Continues(u) ==
  \/ req[u].pc = "spread" /\ req'[u].pc = "spread" /\ \E p \in Pages, f \in Files : Added(u, p, f)
  \/ req[u].pc = "spread" /\ req'[u].pc = "resend" /\ SameRows
  \/ /\ req[u].pc = "unlink" /\ req'[u].pc = "unlink"
     /\ Range(req'[u].todo) \subseteq Range(req[u].todo)
     /\ \E f \in Range(req[u].todo) : disk' = disk \ {f}
     /\ UNCHANGED <<album, version, page, comment>>
  \/ /\ req[u].pc = "unlink" /\ req'[u].pc = req[u].then /\ SameRows
     /\ req[u].then \in {"dropVersion", "dropPage", "repoint"}
  \/ /\ req[u].pc = "dropPage" /\ req'[u].pc = "list"
     /\ Live(req[u].page) /\ page' = Without(req[u].page)
     /\ comment' = Swept(Without(req[u].page), {}) /\ UNCHANGED <<album, version, disk>>
  \/ /\ req[u].pc = "list" /\ req'[u].pc = "renumber" /\ SameRows
     /\ IsInjective(req'[u].list) /\ Range(req'[u].list) = PagesOf(req[u].version)
  \/ req[u].pc = "check" /\ req'[u].pc = "post" /\ CheckComment(u) /\ SameRows
  \/ /\ req[u].pc = "note" /\ req'[u].pc = "changes" /\ Insert(req[u].comment)
     /\ UNCHANGED <<album, version, page, disk>>

LEMMA ProceedIs ==
  ASSUME Kept, PagesInv, NEW u \in Users, Proceed(u)
  PROVE  /\ OthersStay(u) /\ SameBounds
         /\ \/ Ends(u)
            \/ req[u].pc = "newVersion" /\ \E v \in Versions : Created(u, v)
            \/ Carries(u) /\ req'[u].version = req[u].version /\ Continues(u)
<1>1. TypeOK /\ Shape(u) /\ OthersStay(u) /\ SameBounds
  BY SafeTypes DEF Kept
<1> DEFINE Goal == \/ Ends(u)
                   \/ req[u].pc = "newVersion" /\ \E v \in Versions : Created(u, v)
                   \/ Carries(u) /\ req'[u].version = req[u].version /\ Continues(u)
<1> SUFFICES Goal
  BY <1>1
<1>2. CASE CreateVersion(u)
  BY <1>1, <1>2, CreateVersionIs
<1>3. CASE AddSpread(u)
  <2>1. ASSUME NEW p \in Pages, NEW f \in Files, Added(u, p, f) PROVE Goal
    BY <1>1, <1>3, <2>1, AddSpreadIs DEF Added, Continues
  <2> QED BY <1>1, <1>3, <2>1, AddSpreadIs
<1>4. CASE SpreadsDone(u)
  BY <1>1, <1>4, GotoIs DEF SpreadsDone, Walks, Continues, SameRows
<1>5. CASE Unlink(u)
  BY <1>1, <1>5, UnlinkIs DEF Continues
<1>6. CASE Unlinked(u)
  BY <1>1, <1>6, UnlinkedIs DEF Walks, Continues
<1>7. CASE DropPage(u)
  BY <1>1, <1>7, DropPageIs DEF Walks, Continues
<1>8. CASE ListRemaining(u)
  BY <1>1, <1>8, ListIs DEF Continues
<1>9. CASE CheckComment(u)
  BY <1>1, <1>9, CheckCommentIs DEF Continues
<1>10. CASE PostNote(u)
  BY <1>1, <1>10, PostNoteIs DEF Walks, Continues
<1>11. CASE SetStatus(u)
  BY <1>1, <1>11, SetStatusIs
<1>12. CASE \/ Resend(u) \/ DropVersion(u) \/ Renumber(u) \/ Reorder(u) \/ Repoint(u) \/ DropAlbum(u)
            \/ PostComment(u) \/ DropComment(u) \/ Resolve(u)
  BY <1>1, <1>12, EndIs DEF Resend, DropVersion, Renumber, Reorder, Repoint, DropAlbum,
       PostComment, DropComment, Resolve
<1> QED
  BY <1>2, <1>3, <1>4, <1>5, <1>6, <1>7, <1>8, <1>9, <1>10, <1>11, <1>12 DEF Proceed

-----------------------------------------------------------------------------
(* Pins.                                                                   *)

\* Comments keep their place and pin, or go.
PinsStay ==
  \A c \in Comments : AliveNext(c) =>
    Alive(c) /\ SamePlace(comment'[c], comment[c]) /\ comment'[c].pin = comment[c].pin

LEMMA PinsStayIs ==
  ASSUME TypeOK, PagesInv, NEW u \in Users, Proceed(u)
  PROVE  PinsStay \/ (Insert(req[u].comment) /\ (PostComment(u) \/ PostNote(u)))
<1>1. comment \in [Comments -> Comment]
  BY DEF TypeOK
<1>2. CASE comment' = comment
  BY <1>2 DEF PinsStay, AliveNext, Alive, SamePlace
<1>3. ASSUME NEW pages, NEW C, comment' = Swept(pages, C) PROVE PinsStay
  BY <1>3, SweptIs, NoRows DEF PinsStay, AliveNext, Alive, SamePlace
<1>4. CASE DropVersion(u)
  BY <1>3, <1>4 DEF DropVersion
<1>5. CASE DropPage(u)
  BY <1>2, <1>3, <1>5, DropPageIs DEF SameRows, rows
<1>6. CASE DropComment(u)
  BY <1>3, <1>6 DEF DropComment
<1>7. CASE PostComment(u) \/ PostNote(u)
  BY <1>7 DEF PostComment, PostNote
<1>8. CASE Resolve(u)
  <2>1. comment' = comment
        \/ comment' = [comment EXCEPT ![req[u].comment.parent].resolved = req[u].comment.resolved]
    BY <1>8 DEF Resolve
  <2>2. \A c \in Comments : /\ comment'[c].version = comment[c].version
                            /\ comment'[c].page = comment[c].page /\ comment'[c].pin = comment[c].pin
    BY <1>1, <2>1 DEF Comment
  <2> QED BY <2>2 DEF PinsStay, AliveNext, Alive, SamePlace
<1>9. CASE DropAlbum(u)
  BY <1>9, NoRows DEF DropAlbum, PinsStay, AliveNext
<1>10. CASE CreateVersion(u) \/ AddSpread(u)
  BY <1>2, <1>10, CreateVersionIs, AddSpreadIs DEF SameRows, rows, Created, Added
<1>11. CASE \/ SpreadsDone(u) \/ Resend(u) \/ Unlink(u) \/ Unlinked(u) \/ ListRemaining(u)
            \/ SetStatus(u) \/ CheckComment(u) \/ Renumber(u) \/ Reorder(u) \/ Repoint(u)
  BY <1>2, <1>11 DEF SpreadsDone, Resend, Unlink, Unlinked, ListRemaining, SetStatus, CheckComment,
       Renumber, Reorder, Repoint, rows
<1> QED
  BY <1>4, <1>5, <1>6, <1>7, <1>8, <1>9, <1>10, <1>11 DEF Proceed

LEMMA PinsFollow ==
  ASSUME PinsStay, NEW w \in Users, req'[w].pc # "post" \/ (PinFree(w) /\ req'[w] = req[w])
  PROVE  PinFree(w)'
<1> SUFFICES ASSUME req'[w].pc = "post", req'[w].comment.pin > 0, NEW d \in Comments, AliveNext(d),
                    SamePlace(comment'[d], req'[w].comment)
             PROVE  comment'[d].pin # req'[w].comment.pin
  BY DEF PinFree, Alive, AliveNext, SamePlace
<1>1. PinFree(w) /\ req'[w] = req[w]
  OBVIOUS
<1>2. Alive(d) /\ SamePlace(comment[d], req[w].comment) /\ comment'[d].pin = comment[d].pin
  BY <1>1 DEF PinsStay, SamePlace
<1> QED BY <1>1, <1>2 DEF PinFree

LEMMA PinsKept ==
  ASSUME Kept, PagesInv, PinsInv, NEW u \in Users, Proceed(u)
  PROVE  PinsInv'
<1>1. TypeOK /\ Shape(u) /\ OthersStay(u) /\ races' = races /\ req[u].comment \in Comment
  BY ProceedIs DEF Kept, SameBounds, TypeOK, Request
<1> SUFFICES ASSUME "pins" \notin races
             PROVE  /\ PinsDistinct' /\ \A w \in Users : PinFree(w)'
                    /\ \A v, w \in Users : Commenting(v)' /\ Commenting(w)' => v = w
  BY <1>1 DEF PinsInv
<1>2. /\ PinsDistinct /\ \A w \in Users : PinFree(w)
      /\ \A v, w \in Users : Commenting(v) /\ Commenting(w) => v = w
  BY DEF PinsInv
<1>3. \A w \in Users \ {u} : req'[w] = req[w]
  BY <1>1 DEF OthersStay
<1>4. req'[u].pc \in {"check", "post"} => CheckComment(u) /\ req[u].pc = "check" /\ SameRows
  BY ProceedIs, IdleIs DEF Ends, Created, Continues
<1>5. \A v, w \in Users : Commenting(v)' /\ Commenting(w)' => v = w
  BY <1>2, <1>3, <1>4 DEF Commenting
<1>6. ASSUME CheckComment(u), req'[u].pc = "post" PROVE PinFree(u)'
  <2> DEFINE c == req[u].comment
  <2> DEFINE d == req'[u].comment
  <2>1. SamePlace(d, c) /\ d.pin = Pinned(c) /\ comment' = comment
    BY <1>1, <1>6, CheckCommentIs, IdleIs DEF Ends, SameRows, rows
  <2> HIDE DEF c
  <2>2. d.pin > 0 => d.pin = NextPin(c)
    BY <2>1 DEF Pinned
  <2>3. \A e \in Comments : Alive(e) /\ SamePlace(comment[e], c) => comment[e].pin # NextPin(c)
    BY <1>1, NextPinIsFree
  <2> QED BY <2>1, <2>2, <2>3 DEF PinFree, Alive, SamePlace
<1>7. CASE PinsStay
  <2>1. PinsDistinct'
    <3> SUFFICES ASSUME NEW c \in Comments, NEW d \in Comments, AliveNext(c), AliveNext(d), c # d,
                        SamePlace(comment'[c], comment'[d]), comment'[c].pin > 0
                 PROVE  comment'[c].pin # comment'[d].pin
      BY DEF PinsDistinct, Alive, AliveNext, SamePlace
    <3>1. /\ Alive(c) /\ Alive(d) /\ SamePlace(comment[c], comment[d])
          /\ comment'[c].pin = comment[c].pin /\ comment'[d].pin = comment[d].pin
      BY <1>7 DEF PinsStay, SamePlace
    <3> QED BY <1>2, <3>1 DEF PinsDistinct, SamePlace
  <2>2. \A w \in Users \ {u} : PinFree(w)'
    BY <1>2, <1>3, <1>7, PinsFollow
  <2>3. PinFree(u)'
    <3>1. CASE req'[u].pc = "post"
      BY <1>4, <1>6, <3>1
    <3>2. CASE req'[u].pc # "post"
      BY <1>7, <3>2, PinsFollow
    <3> QED BY <3>1, <3>2
  <2> QED BY <1>5, <2>1, <2>2, <2>3
<1>8. CASE Insert(req[u].comment) /\ (PostComment(u) \/ PostNote(u))
  <2> DEFINE c == req[u].comment
  <2>1. req'[u].pc # "post"
    BY <1>1, <1>8, EndIs, PostNoteIs, IdleIs DEF PostComment, Ends, Walks
  <2>2. CASE UNCHANGED comment
    <3>1. PinsStay
      BY <2>2 DEF PinsStay, AliveNext, Alive, SamePlace
    <3> QED BY <1>7, <3>1
  <2>3. ASSUME NEW d \in Comments, Inserted(c, d)
        PROVE  PinsDistinct' /\ \A w \in Users : PinFree(w)'
    <3>1. comment'[d] = c /\ \A e \in Comments \ {d} : comment'[e] = comment[e]
      BY <1>1, <2>3 DEF Inserted, TypeOK
    <3>2. \/ req[u].pc = "note" /\ c.pin = 0
          \/ req[u].pc = "post" /\ PinFree(u)
      BY <1>1, <1>2, <1>8, EndIs, PostNoteIs DEF PostComment, Shape
    <3>3. c.pin > 0 => /\ req[u].pc = "post"
                       /\ \A e \in Comments : Alive(e) /\ SamePlace(comment[e], c) => comment[e].pin # c.pin
      <4>1. CASE c.pin = 0
        BY <4>1
      <4>2. CASE req[u].pc = "post" /\ PinFree(u)
        BY <4>2 DEF PinFree
      <4> QED BY <3>2, <4>1, <4>2
    <3>4. c.pin \in Nat /\ \A e \in Comments : comment[e].pin \in Nat
      BY <1>1 DEF Comment, TypeOK
    <3> HIDE DEF c
    <3>5. \A e \in Comments \ {d} : AliveNext(e) => Alive(e)
      BY <3>1 DEF AliveNext, Alive
    <3>6. PinsDistinct'
      <4> SUFFICES ASSUME NEW a \in Comments, NEW b \in Comments, AliveNext(a), AliveNext(b), a # b,
                          SamePlace(comment'[a], comment'[b]), comment'[a].pin > 0
                   PROVE  comment'[a].pin # comment'[b].pin
        BY DEF PinsDistinct, Alive, AliveNext, SamePlace
      <4>1. CASE a = d
        BY <3>1, <3>3, <3>5, <4>1 DEF SamePlace
      <4>2. CASE b = d
        <5>1. comment'[a] = comment[a] /\ comment'[b] = c /\ Alive(a) /\ SamePlace(comment[a], c)
          BY <3>1, <3>5, <4>2
        <5>2. CASE c.pin > 0
          BY <3>3, <5>1, <5>2
        <5>3. CASE c.pin = 0
          BY <5>1, <5>3
        <5> QED BY <3>4, <5>2, <5>3
      <4>3. CASE a # d /\ b # d
        BY <1>2, <3>1, <3>5, <4>3 DEF PinsDistinct, SamePlace
      <4> QED BY <4>1, <4>2, <4>3
    <3>7. ASSUME NEW w \in Users PROVE PinFree(w)'
      <4>1. CASE w = u
        BY <2>1, <4>1 DEF PinFree
      <4>2. CASE w # u
        <5> SUFFICES ASSUME req[w].pc = "post", req[w].comment.pin > 0,
                            NEW e \in Comments, AliveNext(e), SamePlace(comment'[e], req[w].comment)
                     PROVE  comment'[e].pin # req[w].comment.pin
          BY <1>3, <4>2 DEF PinFree, Alive, AliveNext, SamePlace
        <5>1. PinFree(w) /\ Commenting(w)
          BY <1>2 DEF Commenting
        <5>2. ~(c.pin > 0)
          BY <1>2, <3>3, <4>2, <5>1 DEF Commenting
        <5>3. CASE e = d
          BY <3>1, <5>2, <5>3
        <5>4. CASE e # d
          BY <3>1, <3>5, <5>1, <5>4 DEF PinFree
        <5> QED BY <5>3, <5>4
      <4> QED BY <4>1, <4>2
    <3> QED BY <3>6, <3>7
  <2> QED BY <1>1, <1>5, <1>8, <2>2, <2>3, InsertIs
<1> QED BY <1>1, <1>7, <1>8, PinsStayIs

LEMMA PinsStarted ==
  ASSUME PinsInv, NEW u \in Users, Started(u)
  PROVE  PinsInv'
<1>1. comment' = comment /\ races \subseteq races' /\ Alone(u)
      /\ \A w \in Users \ {u} : req'[w] = req[w]
  BY DEF Started, SameRows, rows, OthersStay
<1>2. req'[u].pc # "post"
  BY DEF Started, Opening, Removing, Replacing, Reviewed, Commented
<1> SUFFICES ASSUME "pins" \notin races'
             PROVE  /\ PinsDistinct' /\ \A w \in Users : PinFree(w)'
                    /\ \A v, w \in Users : Commenting(v)' /\ Commenting(w)' => v = w
  BY DEF PinsInv
<1>3. /\ PinsDistinct /\ \A w \in Users : PinFree(w)
      /\ \A v, w \in Users : Commenting(v) /\ Commenting(w) => v = w
  BY <1>1 DEF PinsInv
<1>4. PinsDistinct'
  BY <1>1, <1>3 DEF PinsDistinct, Alive
<1>5. \A w \in Users : PinFree(w)'
  BY <1>1, <1>2, <1>3 DEF PinFree, Alive, SamePlace
<1>6. req'[u].pc = "check" => \A w \in Users \ {u} : ~Commenting(w)
  BY <1>1 DEF Alone
<1>7. \A v, w \in Users : Commenting(v)' /\ Commenting(w)' => v = w
  BY <1>1, <1>2, <1>3, <1>6 DEF Commenting
<1> QED BY <1>4, <1>5, <1>7

-----------------------------------------------------------------------------
(* The review.                                                             *)

\* Who writes a status has read the one it replaces.
LEMMA StatusIs ==
  ASSUME TypeOK, NEW u \in Users, Proceed(u)
  PROVE  \/ album'.status = album.status
         \/ /\ Ends(u)
            /\ \/ req[u].pc \in {"send", "reopen", "approve", "changes"}
               \/ req[u].pc = "resend" /\ req[u].saw = "CHANGES_REQUESTED"
<1>1. CASE Resend(u)
  BY <1>1, EndIs DEF Resend
<1>2. CASE SetStatus(u)
  BY <1>2, SetStatusIs DEF SetsStatus
<1>3. CASE DropAlbum(u)
  BY <1>3 DEF DropAlbum, TypeOK
<1>4. CASE album' = album
  BY <1>4
<1>5. CASE CreateVersion(u) \/ AddSpread(u) \/ DropPage(u)
  BY <1>4, <1>5, CreateVersionIs, AddSpreadIs, DropPageIs DEF SameRows, rows, Created, Added
<1>6. CASE \/ SpreadsDone(u) \/ Unlink(u) \/ Unlinked(u) \/ DropVersion(u) \/ ListRemaining(u)
           \/ Renumber(u) \/ Reorder(u) \/ Repoint(u) \/ CheckComment(u) \/ PostComment(u)
           \/ PostNote(u) \/ DropComment(u) \/ Resolve(u)
  BY <1>4, <1>6 DEF SpreadsDone, Unlink, Unlinked, DropVersion, ListRemaining, Renumber, Reorder,
       Repoint, CheckComment, PostComment, PostNote, DropComment, Resolve, rows
<1> QED BY <1>1, <1>2, <1>3, <1>5, <1>6 DEF Proceed

LEMMA ReviewKept ==
  ASSUME Kept, PagesInv, ReviewInv, NEW u \in Users, Proceed(u)
  PROVE  ReviewInv'
<1>1. TypeOK /\ races' = races /\ \A w \in Users \ {u} : req'[w] = req[w]
  BY ProceedIs DEF Kept, SameBounds, OthersStay
<1>2. /\ Adding(u)' => Adding(u) /\ req'[u].saw = req[u].saw
      /\ req'[u].pc \notin {"send", "reopen", "note", "approve"}
      /\ req'[u].pc = "changes" => req[u].pc = "note"
      /\ Busy(u)' => Busy(u) /\ ~Ends(u)
  <2>1. CASE Ends(u)
    BY <2>1, IdleIs DEF Ends, Adding, Busy
  <2>2. CASE req[u].pc = "newVersion" /\ \E v \in Versions : Created(u, v)
    BY <2>2, IdleIs DEF Created, Carries, Adding, Busy, Ends
  <2>3. CASE Carries(u) /\ Continues(u)
    BY <2>3, IdleIs DEF Carries, Continues, Adding, Busy, Ends
  <2> QED BY <2>1, <2>2, <2>3, ProceedIs
<1>3. \A w \in Users : req'[w].pc \in {"note", "changes", "approve"} => w \in Clients
  BY <1>1, <1>2 DEF ReviewInv
<1>4. \A w \in Users : Adding(w)' \/ req'[w].pc \in {"send", "reopen"} => w \in Studio
  BY <1>1, <1>2 DEF ReviewInv, Adding
<1> SUFFICES ASSUME races \cap {"side", "override"} = {}
             PROVE  /\ \A v, w \in Users : Busy(v)' /\ Busy(w)' /\ (v \in Clients <=> w \in Clients)
                                           => v = w
                    /\ \A w \in Users : Reading(w)'
  BY <1>1, <1>3, <1>4 DEF ReviewInv
<1>5. /\ \A v, w \in Users : Busy(v) /\ Busy(w) /\ (v \in Clients <=> w \in Clients) => v = w
      /\ \A w \in Users : Reading(w)
  BY DEF ReviewInv
<1>6. \A w \in Users : Busy(w)' => Busy(w)
  BY <1>1, <1>2 DEF Busy
<1>7. ASSUME NEW w \in Users \ {u}, album'.status # album.status PROVE Reading(w)'
  <2>1. \/ req[u].pc \in {"send", "reopen", "approve", "changes"}
        \/ req[u].pc = "resend" /\ req[u].saw = "CHANGES_REQUESTED"
    BY <1>1, <1>7, StatusIs
  <2>2. Busy(u)
    BY <2>1 DEF Busy
  <2>3. Reading(u) /\ Reading(w) /\ req'[w] = req[w]
    BY <1>1, <1>5
  <2>4. CASE ~Busy(w)
    BY <2>3, <2>4 DEF Busy, Reading, Adding
  <2>5. CASE Busy(w)
    <3>1. ~(u \in Clients <=> w \in Clients)
      BY <1>5, <2>2, <2>5
    <3>2. Clients \cap Studio = {} /\ Users = Studio \cup Clients
      BY SlotsAssumption DEF Users
    <3>3. CASE u \in Clients
      <4>1. album.status = "SENT"
        BY <2>1, <2>3, <3>2, <3>3 DEF Reading, ReviewInv, Adding
      <4>2. w \notin Clients
        BY <3>1, <3>3
      <4> QED BY <2>3, <4>1, <4>2 DEF Reading, ReviewInv, Adding
    <3>4. CASE u \notin Clients
      <4>1. album.status # "SENT"
        BY <2>1, <2>3, <3>4 DEF Reading, ReviewInv, Adding
      <4>2. w \in Clients /\ w \notin Studio
        BY <3>1, <3>2, <3>4
      <4> QED BY <2>3, <4>1, <4>2 DEF Reading, ReviewInv, Adding
    <3> QED BY <3>3, <3>4
  <2> QED BY <2>4, <2>5
<1>8. ASSUME NEW w \in Users \ {u}, album'.status = album.status PROVE Reading(w)'
  BY <1>1, <1>5, <1>8 DEF Reading, Adding
<1>9. Reading(u)'
  <2>1. CASE Ends(u)
    BY <2>1, IdleIs DEF Ends, Reading, Adding
  <2>2. CASE ~Ends(u)
    <3>1. album'.status = album.status
      BY <1>1, <2>2, StatusIs
    <3> QED BY <1>2, <1>5, <3>1 DEF Reading
  <2> QED BY <2>1, <2>2
<1> QED BY <1>5, <1>6, <1>7, <1>8, <1>9

LEMMA ReviewStarted ==
  ASSUME ReviewInv, NEW u \in Users, Started(u)
  PROVE  ReviewInv'
<1>1. /\ album' = album /\ races \subseteq races' /\ Alone(u) /\ req'[u].saw = album.status
      /\ \A w \in Users \ {u} : req'[w] = req[w]
  BY DEF Started, SameRows, rows, OthersStay
<1>2. /\ Adding(u)' => req'[u].pc = "newVersion" /\ u \in Studio
      /\ req'[u].pc = "send" => u \in Studio /\ album.status = "DRAFT"
      /\ req'[u].pc = "reopen" => u \in Studio /\ u \in Owners /\ album.status = "APPROVED"
      /\ req'[u].pc \in {"note", "changes", "approve"} => u \in Clients /\ album.status = "SENT"
  BY DEF Started, Opening, Removing, Replacing, Reviewed, Commented, Adding, Studio
<1>3. \A w \in Users : req'[w].pc \in {"note", "changes", "approve"} => w \in Clients
  BY <1>1, <1>2 DEF ReviewInv
<1>4. \A w \in Users : Adding(w)' \/ req'[w].pc \in {"send", "reopen"} => w \in Studio
  BY <1>1, <1>2 DEF ReviewInv, Adding
<1> SUFFICES ASSUME races' \cap {"side", "override"} = {}
             PROVE  /\ \A v, w \in Users : Busy(v)' /\ Busy(w)' /\ (v \in Clients <=> w \in Clients)
                                           => v = w
                    /\ \A w \in Users : Reading(w)'
  BY <1>3, <1>4 DEF ReviewInv
<1>5. /\ \A v, w \in Users : Busy(v) /\ Busy(w) /\ (v \in Clients <=> w \in Clients) => v = w
      /\ \A w \in Users : Reading(w)
  BY <1>1 DEF ReviewInv
<1>6. \A w \in Users \ {u} : (u \in Clients <=> w \in Clients) => ~Busy(w)
  BY <1>1 DEF Alone
<1>7. \A v, w \in Users : Busy(v)' /\ Busy(w)' /\ (v \in Clients <=> w \in Clients) => v = w
  BY <1>1, <1>5, <1>6 DEF Busy
<1>8. \A w \in Users : Reading(w)'
  BY <1>1, <1>2, <1>5 DEF Reading, Adding
<1> QED BY <1>7, <1>8

-----------------------------------------------------------------------------
(* The numbers of the spreads.                                             *)

PagesNext(v) == {p \in Pages : page'[p].version = v}
NumbersNext(v) == {page'[p].number : p \in PagesNext(v)}
ContiguousNext(v) == NumbersNext(v) = 1..Cardinality(PagesNext(v))

\* What becomes of the spreads of a version: they stay and their numbers remain
\* 1..N or become so, they go, one goes and its request repairs, or one is added.
Steady(u, v) ==
  /\ PagesNext(v) = PagesOf(v)
  /\ Contiguous(v) \/ (req[u].pc = "renumber" /\ Repairing(u, v)) => ContiguousNext(v)
  /\ req[u].pc = "spread" /\ req'[u].pc = "spread" => req[u].version # v
Emptied(u, v) == Ends(u) /\ PagesNext(v) = {} /\ ~VersionNext(v)
Thinned(u, v) == Deleting(u) /\ req[u].version = v /\ req'[u].version = v /\ req'[u].pc = "list"
Extended(u, v) ==
  /\ Uploading(u) /\ req[u].version = v /\ HasVersion(v) /\ ContiguousNext(v)
  /\ Cardinality(PagesNext(v)) = Cardinality(PagesOf(v)) + 1
  /\ req'[u].pc = "spread" /\ req'[u].version = v /\ req'[u].number = req[u].number + 1

LEMMA SteadyIs ==
  ASSUME NEW u \in Users, NEW v \in Versions, req[u].pc # "renumber",
         req[u].pc = "spread" /\ req'[u].pc = "spread" => req[u].version # v,
         \A p \in Pages : page'[p].version = v \/ page[p].version = v =>
           page'[p].version = page[p].version /\ page'[p].number = page[p].number
  PROVE  Steady(u, v)
<1>1. PagesNext(v) = PagesOf(v) /\ \A p \in PagesOf(v) : page'[p].number = page[p].number
  BY DEF PagesNext, PagesOf
<1>2. NumbersNext(v) = {page[p].number : p \in PagesOf(v)}
  BY <1>1 DEF NumbersNext
<1> QED BY <1>1, <1>2 DEF Steady, Contiguous, ContiguousNext

\* The numbers after a renumbering or a reorder.
LEMMA RenumberSteady ==
  ASSUME Kept, PagesInv, NumbersInv, crashes = 0, races \cap {"spread", "twice"} = {},
         NEW u \in Users, NEW v \in Versions, Renumber(u) \/ Reorder(u)
  PROVE  Steady(u, v)
<1> DEFINE L == req[u].list
<1> DEFINE w == req[u].version
<1>1. TypeOK /\ Shape(u)
  BY DEF Kept
<1>2. page' = Renumbered(L, w) /\ req[u].pc \in {"renumber", "reorder"} /\ Ends(u)
  BY <1>1, EndIs DEF Renumber, Reorder
<1>3. w \in Versions /\ L \in Seq(Pages)
  BY <1>1, <1>2 DEF Shape, TypeOK, Request
<1>4. req'[u].pc # "spread"
  BY <1>2, IdleIs DEF Ends
<1>5. IsInjective(L)
  BY <1>2 DEF NumbersInv
<1> HIDE DEF L, w
<1>6. \A p \in Pages : /\ page'[p].version = page[p].version
                       /\ page[p].version # w => page'[p] = page[p]
  BY <1>1, <1>2, <1>3, RenumberedRows
<1>7. PagesNext(v) = PagesOf(v)
  BY <1>6 DEF PagesNext, PagesOf
<1>8. CASE v = w
  <2>1. Contiguous(v) \/ Range(L) = PagesOf(v)
          => {page'[p].number : p \in PagesOf(v)} = 1..Cardinality(PagesOf(v))
    BY <1>1, <1>2, <1>3, <1>5, <1>8, RenumberedAll
  <2>2. req[u].pc = "renumber" /\ Repairing(u, v) => Range(L) = PagesOf(v)
    BY DEF Repairing, L
  <2> QED BY <1>4, <1>7, <2>1, <2>2 DEF Steady, ContiguousNext, NumbersNext
<1>9. CASE v # w
  <2>1. \A p \in PagesOf(v) : page'[p].number = page[p].number
    BY <1>6, <1>9 DEF PagesOf
  <2>2. NumbersNext(v) = {page[p].number : p \in PagesOf(v)}
    BY <1>7, <2>1 DEF NumbersNext
  <2>3. ~Repairing(u, v)
    BY <1>9 DEF Repairing, w
  <2> QED BY <1>4, <1>7, <2>2, <2>3 DEF Steady, Contiguous, ContiguousNext
<1> QED BY <1>8, <1>9

LEMMA AddedExtends ==
  ASSUME Kept, PagesInv, NumbersInv, crashes = 0, races \cap {"spread", "twice"} = {},
         NEW u \in Users, req[u].pc = "spread", NEW p \in Pages, NEW f \in Files, Added(u, p, f),
         NEW v \in Versions
  PROVE  Steady(u, v) \/ Extended(u, v)
<1> DEFINE n == req[u].number
<1>1. /\ page' = [page EXCEPT ![p] = [version |-> req[u].version, number |-> n, file |-> f]]
      /\ page[p].version = NoVersion /\ page \in [Pages -> Page] /\ HasVersion(req[u].version)
  BY DEF Added, FreePage, Kept, TypeOK
<1>2. /\ page'[p].version = req[u].version /\ page'[p].number = n
      /\ \A q \in Pages \ {p} : page'[q] = page[q]
  BY <1>1
<1>3. CASE v # req[u].version
  <2>1. NoVersion # v
    BY SlotsAssumption
  <2>2. \A q \in Pages : page'[q].version = v \/ page[q].version = v =>
          page'[q].version = page[q].version /\ page'[q].number = page[q].number
    BY <1>1, <1>2, <1>3, <2>1
  <2> QED BY <1>3, <2>2, SteadyIs
<1>4. CASE v = req[u].version
  <2> DEFINE S == PagesOf(v)
  <2>1. Contiguous(v) /\ n = Cardinality(S) + 1
    BY <1>1, <1>4 DEF NumbersInv, Uploading
  <2>2. p \notin S
    BY <1>1, SlotsAssumption DEF PagesOf
  <2>3. PagesNext(v) = S \cup {p}
    BY <1>2, <1>4 DEF PagesNext, PagesOf
  <2>4. IsFiniteSet(S) /\ Cardinality(S) \in Nat /\ S \in SUBSET Pages
    BY PagesOfVersion
  <2>5. {page[q].number : q \in S} = 1..Cardinality(S)
    BY <2>1 DEF Contiguous
  <2> HIDE DEF S, n
  <2>6. Cardinality(S \cup {p}) = Cardinality(S) + 1
    BY <2>2, <2>4, FS_AddElement
  <2>7. NumbersNext(v) = {page[q].number : q \in S} \cup {n}
    BY <1>2, <2>2, <2>3, <2>4 DEF NumbersNext
  <2>8. ContiguousNext(v)
    <3>1. (1..Cardinality(S)) \cup {n} = 1..(Cardinality(S) + 1)
      BY <2>1, <2>4
    <3> QED BY <2>3, <2>5, <2>6, <2>7, <3>1 DEF ContiguousNext
  <2> QED BY <1>1, <1>4, <2>3, <2>6, <2>8 DEF Extended, Uploading, Added, S
<1> QED BY <1>3, <1>4

LEMMA NumbersStep ==
  ASSUME Kept, PagesInv, NumbersInv, crashes = 0, races \cap {"spread", "twice"} = {},
         NEW u \in Users, NEW v \in Versions, Proceed(u)
  PROVE  Steady(u, v) \/ Emptied(u, v) \/ Thinned(u, v) \/ Extended(u, v)
<1>1. TypeOK /\ Shape(u) /\ page \in [Pages -> Page] /\ v # NoVersion
      /\ version \in [Versions -> Nat]
  BY SlotsAssumption DEF Kept, TypeOK
<1>2. ASSUME page' = page, req[u].pc # "renumber", req'[u].pc # "spread" PROVE Steady(u, v)
  BY <1>2, SteadyIs
<1>3. Ends(u) => req'[u].pc # "spread"
  BY IdleIs DEF Ends
<1>4. CASE CreateVersion(u)
  BY <1>1, <1>3, <1>4, CreateVersionIs, SteadyIs DEF SameRows, rows, Created
<1>5. CASE AddSpread(u)
  <2>1. CASE Ends(u) /\ SameRows
    BY <1>1, <1>2, <1>3, <1>5, <2>1, AddSpreadIs DEF SameRows, rows
  <2> QED BY <1>1, <1>5, <2>1, AddSpreadIs, AddedExtends
<1>6. CASE DropVersion(u)
  <2>1. /\ page' = Unpaged(req[u].version) /\ version' = [version EXCEPT ![req[u].version] = 0]
        /\ req[u].pc = "dropVersion" /\ Ends(u)
    BY <1>1, <1>6, EndIs DEF DropVersion, Unpaged
  <2>2. CASE v = req[u].version
    BY <1>1, <2>1, <2>2, NoRows DEF Emptied, PagesNext, Unpaged, VersionNext
  <2>3. CASE v # req[u].version
    <3>1. \A p \in Pages : page'[p].version = v \/ page[p].version = v =>
            page'[p].version = page[p].version /\ page'[p].number = page[p].number
      BY <1>1, <2>1, <2>3, NoRows DEF Unpaged
    <3> QED BY <1>3, <2>1, <3>1, SteadyIs
  <2> QED BY <2>2, <2>3
<1>7. CASE DropPage(u)
  <2>1. req[u].pc = "dropPage"
    BY <1>1, <1>7, DropPageIs
  <2>2. CASE Ends(u) /\ SameRows
    BY <1>2, <1>3, <2>1, <2>2 DEF SameRows, rows
  <2>3. CASE Walks(u, "list") /\ Live(req[u].page) /\ page' = Without(req[u].page)
    <3>1. On(u, "dropPage") /\ Deleting(u)
      BY <1>1, <2>1 DEF On, Deleting, Shape
    <3>2. req[u].page \in Pages /\ page[req[u].page].version = req[u].version
      BY <1>1, <2>3, <3>1 DEF Shape, Live
    <3>3. CASE v = req[u].version
      BY <2>3, <3>1, <3>3 DEF Thinned, Walks
    <3>4. CASE v # req[u].version
      <4>1. \A p \in Pages : page'[p].version = v \/ page[p].version = v =>
              page'[p].version = page[p].version /\ page'[p].number = page[p].number
        BY <1>1, <2>3, <3>2, <3>4, NoRows DEF Without
      <4> QED BY <2>1, <2>3, <4>1, SteadyIs DEF Walks
    <3> QED BY <3>3, <3>4
  <2> QED BY <1>1, <1>7, <2>2, <2>3, DropPageIs
<1>8. CASE Renumber(u) \/ Reorder(u)
  BY <1>8, RenumberSteady
<1>9. CASE Repoint(u)
  <2>1. /\ End(u, "repoint")
        /\ page' = page \/ page' = [page EXCEPT ![req[u].page].file = req[u].file]
    BY <1>9 DEF Repoint
  <2>2. \A p \in Pages : page'[p].version = page[p].version /\ page'[p].number = page[p].number
    BY <1>1, <2>1 DEF Page
  <2>3. req[u].pc = "repoint" /\ Ends(u)
    BY <1>1, <2>1, EndIs
  <2> QED BY <1>3, <2>2, <2>3, SteadyIs
<1>10. CASE DropAlbum(u)
  <2>1. /\ Ends(u) /\ version' = [w \in Versions |-> 0] /\ page' = [p \in Pages |-> NoPageRow]
    BY <1>1, <1>10, EndIs DEF DropAlbum
  <2> QED BY <1>1, <2>1, NoRows DEF Emptied, PagesNext, VersionNext
<1>11. CASE \/ SpreadsDone(u) \/ Resend(u) \/ Unlink(u) \/ Unlinked(u) \/ ListRemaining(u)
            \/ SetStatus(u) \/ CheckComment(u) \/ PostComment(u) \/ PostNote(u)
            \/ DropComment(u) \/ Resolve(u)
  <2>1. page' = page
    BY <1>11 DEF SpreadsDone, Resend, Unlink, Unlinked, ListRemaining, SetStatus, CheckComment,
       PostComment, PostNote, DropComment, Resolve, rows
  <2>2. req[u].pc # "renumber"
    BY <1>11 DEF SpreadsDone, Resend, Unlink, Unlinked, ListRemaining, SetStatus, CheckComment,
       PostComment, PostNote, DropComment, Resolve, Goto, End, Step
  <2>3. req'[u].pc # "spread"
    BY <1>1, <1>3, <1>11, EndIs, GotoIs, UnlinkIs, UnlinkedIs, ListIs, SetStatusIs, CheckCommentIs,
       PostNoteIs DEF SpreadsDone, Resend, PostComment, DropComment, Resolve, Walks
  <2> QED BY <1>2, <2>1, <2>2, <2>3
<1> QED
  BY <1>4, <1>5, <1>6, <1>7, <1>8, <1>9, <1>10, <1>11 DEF Proceed

\* NumbersInv, once there is neither a crash nor a race of the kinds it excepts.
NumbersHold ==
  /\ \A v \in Versions : Contiguous(v) \/ \E u \in Users : Repairing(u, v)
  /\ \A u \in Users : req[u].pc \in {"renumber", "reorder"} => IsInjective(req[u].list)
  /\ \A u \in Users : Uploading(u) /\ HasVersion(req[u].version) =>
       Contiguous(req[u].version) /\ req[u].number = Cardinality(PagesOf(req[u].version)) + 1
  /\ \A u, w \in Users : Uploading(u) /\ req[w].version = req[u].version =>
       /\ Uploading(w) => u = w
       /\ ~Deleting(w)

LEMMA FreeIsEmpty ==
  ASSUME Kept, PagesInv, NEW v \in Versions, FreeVersion(v)
  PROVE  PagesOf(v) = {} /\ \A u \in Users : req[u].version # v
<1>1. ASSUME NEW p \in Pages, page[p].version = v PROVE FALSE
  <2>1. Live(p) /\ ~HasVersion(v)
    BY <1>1, SlotsAssumption DEF Live, HasVersion, FreeVersion
  <2> QED BY <1>1, <2>1 DEF PagesInv
<1> QED BY <1>1 DEF PagesOf, FreeVersion

LEMMA NumbersKept ==
  ASSUME Kept, PagesInv, NumbersInv, NEW u \in Users, Proceed(u)
  PROVE  NumbersInv'
<1>1. TypeOK /\ crashes' = crashes /\ races' = races /\ \A w \in Users \ {u} : req'[w] = req[w]
  BY ProceedIs DEF Kept, SameBounds, OthersStay
<1> SUFFICES ASSUME crashes = 0, races \cap {"spread", "twice"} = {} PROVE NumbersHold'
  BY <1>1 DEF NumbersInv, NumbersHold
<1>2. NumbersHold
  BY DEF NumbersInv, NumbersHold
<1>3. \A v \in Versions : Steady(u, v) \/ Emptied(u, v) \/ Thinned(u, v) \/ Extended(u, v)
  BY NumbersStep
<1>4. \A v : PagesOf(v)' = PagesNext(v) /\ (Contiguous(v)' <=> ContiguousNext(v))
             /\ (HasVersion(v)' <=> VersionNext(v))
  BY DEF PagesOf, PagesNext, Contiguous, ContiguousNext, NumbersNext, HasVersion, VersionNext
<1>5. /\ req'[u].pc \notin {"reorder", "newVersion", "idle"} => ~Ends(u)
      /\ req'[u].pc = "renumber" =>
           /\ req[u].pc = "list" /\ req'[u].version = req[u].version
           /\ IsInjective(req'[u].list) /\ Range(req'[u].list) = PagesOf(req[u].version)
      /\ req'[u].pc # "reorder"
      /\ Ends(u) => ~Uploading(u)' /\ ~Deleting(u)'
      /\ req[u].pc = "list" => req'[u].pc = "renumber"
      /\ Deleting(u)' => Deleting(u) /\ req'[u].version = req[u].version
      /\ Uploading(u)' =>
           \/ Uploading(u) /\ req'[u].version = req[u].version
           \/ req[u].pc = "newVersion" /\ \E v \in Versions : Created(u, v)
  <2>1. CASE Ends(u)
    <3>1. req[u].pc # "list"
      <4>1. ASSUME ListRemaining(u) PROVE FALSE
        BY <1>1, <2>1, <4>1, ListIs, IdleIs DEF Ends, Kept
      <4>2. CASE CreateVersion(u) \/ AddSpread(u) \/ DropPage(u) \/ CheckComment(u) \/ PostNote(u) \/ SetStatus(u)
        BY <1>1, <4>2 DEF CreateVersion, AddSpread, DropPage, CheckComment, PostNote, SetStatus, End, Goto, Step
      <4> QED BY <4>1, <4>2 DEF Proceed, SpreadsDone, Resend, Unlink, Unlinked, DropVersion, Renumber,
                Reorder, Repoint, DropAlbum, PostComment, DropComment, Resolve, End, Goto, Step
    <3> QED BY <2>1, <3>1, IdleIs DEF Ends, Uploading, Deleting
  <2>2. CASE req[u].pc = "newVersion" /\ \E v \in Versions : Created(u, v)
    BY <2>2, IdleIs DEF Created, Carries, Uploading, Deleting, Ends
  <2>3. CASE Carries(u) /\ req'[u].version = req[u].version /\ Continues(u)
    BY <2>3, IdleIs DEF Carries, Continues, Uploading, Deleting, Ends
  <2> QED BY <2>1, <2>2, <2>3, ProceedIs
<1>6. ASSUME NEW v \in Versions, Created(u, v)
      PROVE  /\ req'[u].version = v /\ req'[u].number = 1 /\ PagesNext(v) = {} /\ PagesOf(v) = {}
             /\ \A w \in Users : req[w].version # v
             /\ \A x : x # v /\ VersionNext(x) => HasVersion(x)
  BY <1>1, <1>6, FreeIsEmpty DEF Created, PagesNext, PagesOf, VersionNext, HasVersion, TypeOK
<1>7. Cardinality({}) = 0 /\ IsFiniteSet({})
  BY FS_EmptySet
<1>8. ASSUME NEW v \in Versions PROVE ContiguousNext(v) \/ \E w \in Users : Repairing(w, v)'
  <2>1. CASE Steady(u, v)
    <3>1. CASE Contiguous(v)
      BY <2>1, <3>1 DEF Steady
    <3>2. ASSUME NEW w \in Users, Repairing(w, v), w # u PROVE Repairing(w, v)'
      BY <1>1, <1>4, <2>1, <3>2 DEF Steady, Repairing
    <3>3. ASSUME Repairing(u, v) PROVE ContiguousNext(v) \/ Repairing(u, v)'
      <4>1. CASE req[u].pc = "list"
        BY <1>4, <1>5, <2>1, <3>3, <4>1 DEF Repairing, Steady
      <4>2. CASE req[u].pc = "renumber"
        BY <2>1, <3>3, <4>2 DEF Steady
      <4> QED BY <3>3, <4>1, <4>2 DEF Repairing
    <3> QED BY <1>2, <3>1, <3>2, <3>3 DEF NumbersHold
  <2>2. CASE Emptied(u, v)
    BY <1>7, <2>2 DEF Emptied, ContiguousNext, NumbersNext
  <2>3. CASE Thinned(u, v)
    BY <2>3 DEF Thinned, Repairing
  <2>4. CASE Extended(u, v)
    BY <2>4 DEF Extended
  <2> QED BY <1>3, <2>1, <2>2, <2>3, <2>4
<1>9. ASSUME NEW w \in Users, req'[w].pc \in {"renumber", "reorder"} PROVE IsInjective(req'[w].list)
  BY <1>1, <1>2, <1>5, <1>9 DEF NumbersHold
<1>10. ASSUME NEW w \in Users, Uploading(w)', VersionNext(req'[w].version)
       PROVE  /\ ContiguousNext(req'[w].version)
              /\ req'[w].number = Cardinality(PagesNext(req'[w].version)) + 1
  <2> DEFINE v == req'[w].version
  <2>1. v \in Versions /\ VersionNext(v)
    BY <1>10 DEF VersionNext
  <2> HIDE DEF v
  <2>2. CASE w # u
    <3>1. Uploading(w) /\ req'[w] = req[w] /\ req[w].version = v
      BY <1>1, <1>10, <2>2 DEF Uploading, v
    <3>2. HasVersion(v)
      <4>1. ASSUME NEW x \in Versions, Created(u, x) PROVE HasVersion(v)
        BY <1>6, <2>1, <3>1, <4>1
      <4>2. CASE version' = version \/ ~\E x \in Versions : version'[x] > 0 /\ version[x] = 0
        BY <1>1, <2>1, <4>2 DEF HasVersion, VersionNext, TypeOK
      <4>3. CASE DropVersion(u) \/ DropAlbum(u)
        <5>1. \A x \in Versions : version'[x] = version[x] \/ version'[x] = 0
          BY <1>1, <4>3 DEF DropVersion, DropAlbum, TypeOK
        <5> QED BY <2>1, <5>1 DEF HasVersion, VersionNext
      <4>4. CASE CreateVersion(u)
        BY <1>1, <4>1, <4>2, <4>4, CreateVersionIs DEF SameRows, rows
      <4>5. CASE AddSpread(u) \/ DropPage(u)
        BY <1>1, <4>2, <4>5, AddSpreadIs, DropPageIs DEF SameRows, rows, Added
      <4> QED BY <4>2, <4>3, <4>4, <4>5 DEF Proceed, SpreadsDone, Resend, Unlink, Unlinked, ListRemaining,
                Renumber, Reorder, Repoint, SetStatus, CheckComment, PostComment, PostNote, DropComment,
                Resolve, rows
    <3>3. Contiguous(v) /\ req[w].number = Cardinality(PagesOf(v)) + 1
      BY <1>2, <3>1, <3>2 DEF NumbersHold
    <3>4. ~Thinned(u, v) /\ ~Extended(u, v)
      BY <1>2, <2>2, <3>1 DEF NumbersHold, Thinned, Extended
    <3>5. Steady(u, v)
      BY <1>3, <2>1, <3>4 DEF Emptied
    <3> QED BY <3>1, <3>3, <3>5 DEF Steady, v
  <2>3. CASE w = u
    <3>1. ASSUME NEW x \in Versions, Created(u, x)
          PROVE  ContiguousNext(v) /\ req'[u].number = Cardinality(PagesNext(v)) + 1
      BY <1>6, <1>7, <2>3, <3>1 DEF ContiguousNext, NumbersNext, v
    <3>2. CASE Uploading(u) /\ req[u].version = v
      <4>1. req'[u].pc = "spread" /\ req[u].pc = "spread"
        BY <1>10, <2>3, <3>2 DEF Uploading
      <4>2. Extended(u, v)
        <5>1. ~Ends(u)
          BY <4>1, IdleIs DEF Ends
        <5> QED BY <1>3, <2>1, <3>2, <4>1, <5>1 DEF Steady, Emptied, Thinned
      <4>3. HasVersion(v) /\ req[u].number = Cardinality(PagesOf(v)) + 1
        BY <1>2, <3>2, <4>2 DEF NumbersHold, Extended
      <4> QED BY <2>3, <4>2, <4>3 DEF Extended, v
    <3> QED BY <1>5, <1>10, <2>3, <3>1, <3>2 DEF v
  <2> QED BY <2>2, <2>3 DEF v
<1>11. ASSUME NEW a \in Users, NEW b \in Users, Uploading(a)', req'[b].version = req'[a].version
       PROVE  (Uploading(b)' => a = b) /\ ~Deleting(b)'
  <2>1. CASE a = b
    BY <1>11, <2>1 DEF Uploading, Deleting
  <2>2. CASE a # b /\ a # u /\ b # u
    <3>1. Uploading(a) /\ req[b].version = req[a].version /\ req'[b] = req[b]
      BY <1>1, <1>11, <2>2 DEF Uploading
    <3> QED BY <1>2, <2>2, <3>1 DEF NumbersHold, Uploading, Deleting
  <2>3. CASE a # b /\ a = u
    <3>1. req'[b] = req[b]
      BY <1>1, <2>3
    <3>2. ASSUME NEW x \in Versions, Created(u, x) PROVE FALSE
      BY <1>6, <1>11, <2>3, <3>1, <3>2
    <3>3. Uploading(a) /\ req[a].version = req'[a].version
      BY <1>5, <1>11, <2>3, <3>2
    <3> QED BY <1>2, <1>11, <2>3, <3>1, <3>3 DEF NumbersHold, Uploading, Deleting
  <2>4. CASE a # b /\ b = u
    <3>1. Uploading(a) /\ req'[a] = req[a]
      BY <1>1, <1>11, <2>4 DEF Uploading
    <3>2. ASSUME NEW x \in Versions, Created(u, x) PROVE FALSE
      BY <1>6, <1>11, <2>4, <3>1, <3>2
    <3>3. Uploading(u)' \/ Deleting(u)' => req[u].version = req[a].version
      BY <1>5, <1>11, <2>4, <3>1, <3>2
    <3>4. req[u].version = req[a].version => ~Uploading(u) /\ ~Deleting(u)
      BY <1>2, <2>4, <3>1 DEF NumbersHold
    <3> QED BY <1>5, <2>4, <3>2, <3>3, <3>4
  <2> QED BY <2>1, <2>2, <2>3, <2>4
<1> QED BY <1>4, <1>8, <1>9, <1>10, <1>11 DEF NumbersHold

LEMMA NumbersStarted ==
  ASSUME Kept, PagesInv, NumbersInv, NEW u \in Users, Started(u)
  PROVE  NumbersInv'
<1>1. /\ page' = page /\ version' = version /\ crashes' = crashes /\ races \subseteq races'
      /\ Alone(u) /\ req[u].pc = "idle" /\ \A w \in Users \ {u} : req'[w] = req[w]
  BY DEF Started, SameRows, rows, OthersStay
<1> SUFFICES ASSUME crashes = 0, races' \cap {"spread", "twice"} = {} PROVE NumbersHold'
  BY <1>1 DEF NumbersInv, NumbersHold
<1>2. NumbersHold
  BY <1>1 DEF NumbersInv, NumbersHold
<1>3. req'[u].pc \notin {"spread", "list", "renumber"}
      /\ (req'[u].pc = "reorder" => IsInjective(req'[u].list))
      /\ (Deleting(u)' => \A w \in Users \ {u} :
            ~(req[w].pc = "spread" /\ req[w].version = req'[u].version))
  BY <1>1 DEF Started, Opening, Removing, Replacing, Reviewed, Commented, Alone, Deleting
<1>4. ASSUME NEW v \in Versions PROVE Contiguous(v)' \/ \E w \in Users : Repairing(w, v)'
  <2>1. CASE Contiguous(v)
    BY <1>1, <2>1 DEF Contiguous, PagesOf
  <2>2. ASSUME NEW w \in Users, Repairing(w, v) PROVE Repairing(w, v)'
    BY <1>1, <2>2 DEF Repairing, PagesOf
  <2> QED BY <1>2, <2>1, <2>2 DEF NumbersHold
<1>5. ASSUME NEW w \in Users, req'[w].pc \in {"renumber", "reorder"} PROVE IsInjective(req'[w].list)
  BY <1>1, <1>2, <1>3, <1>5 DEF NumbersHold
<1>6. ASSUME NEW w \in Users, Uploading(w)' PROVE Uploading(w) /\ req'[w] = req[w]
  BY <1>1, <1>3, <1>6 DEF Uploading
<1>7. ASSUME NEW w \in Users, Uploading(w)', HasVersion(req[w].version)
      PROVE  Contiguous(req[w].version) /\ req[w].number = Cardinality(PagesOf(req[w].version)) + 1
  BY <1>2, <1>6, <1>7 DEF NumbersHold
<1>8. ASSUME NEW a \in Users, NEW b \in Users, Uploading(a)', req'[b].version = req'[a].version
      PROVE  (Uploading(b)' => a = b) /\ ~Deleting(b)'
  <2>1. Uploading(a) /\ req'[a] = req[a] /\ a # u
    BY <1>1, <1>6, <1>8 DEF Uploading
  <2>2. CASE b = u
    BY <1>3, <1>6, <1>8, <2>1, <2>2 DEF Uploading
  <2>3. CASE b # u
    <3>1. req'[b] = req[b] /\ req[b].version = req[a].version
      BY <1>1, <1>8, <2>1, <2>3
    <3>2. (Uploading(b) => a = b) /\ ~Deleting(b)
      BY <1>2, <2>1, <3>1 DEF NumbersHold
    <3> QED BY <3>1, <3>2 DEF Uploading, Deleting
  <2> QED BY <2>2, <2>3
<1>9. \A v : PagesOf(v)' = PagesOf(v) /\ (Contiguous(v)' <=> Contiguous(v))
             /\ (HasVersion(v)' <=> HasVersion(v))
  BY <1>1 DEF PagesOf, Contiguous, HasVersion
<1>10. ASSUME NEW w \in Users, Uploading(w)', HasVersion(req'[w].version)
       PROVE  /\ Contiguous(req'[w].version)
              /\ req'[w].number = Cardinality(PagesOf(req'[w].version)) + 1
  <2>1. Uploading(w) /\ req'[w] = req[w]
    BY <1>6, <1>10
  <2>2. HasVersion(req[w].version)
    BY <1>10, <2>1
  <2> QED BY <1>7, <1>10, <2>1, <2>2
<1> QED BY <1>4, <1>5, <1>8, <1>9, <1>10 DEF NumbersHold

-----------------------------------------------------------------------------
(* The files of the spreads.                                               *)

\* What a request keeps from others, it kept before; what it takes, it took.
LEMMA ReservedIs ==
  ASSUME Kept, PagesInv, NEW u \in Users, Proceed(u), NEW w \in Users
  PROVE  /\ \A f \in Files : Reserved(w, f)' => Reserved(w, f)
         /\ req'[w].pc = "unlink" => req[w].pc = "unlink" /\ Range(req'[w].todo) \subseteq Range(req[w].todo)
<1>1. CASE w # u
  BY <1>1, ProceedIs DEF OthersStay, Reserved, On
<1>2. CASE w = u
  <2>1. CASE Ends(u)
    BY <1>2, <2>1, IdleIs DEF Ends, Reserved, On
  <2>2. CASE \E v \in Versions : Created(u, v)
    BY <1>2, <2>2 DEF Created, Reserved, On
  <2>3. CASE Carries(u) /\ Continues(u)
    BY <1>2, <2>3 DEF Carries, Continues, Reserved, On
  <2> QED BY <2>1, <2>2, <2>3, ProceedIs
<1> QED BY <1>1, <1>2

LEMMA TakingIs ==
  ASSUME Kept, PagesInv, NEW u \in Users, Proceed(u), NEW w \in Users, NEW p \in Pages, Taking(w, p),
         w # u \/ ~Repoint(u), Live(p), page'[p].version = page[p].version
  PROVE  Taking(w, p)'
<1>1. CASE w # u
  <2>1. req'[w] = req[w]
    BY <1>1, ProceedIs DEF OthersStay
  <2> QED BY <2>1 DEF Taking, On
<1>2. CASE w = u
  <2>1. TypeOK /\ Shape(u) /\ page \in [Pages -> Page]
    BY DEF Kept, TypeOK
  <2>2. On(u, "dropVersion") \/ On(u, "dropPage") \/ On(u, "repoint")
    BY <1>2 DEF Taking
  <2>3. CASE Unlink(u)
    BY <1>2, <2>1, <2>3, UnlinkIs DEF Carries, Taking, On
  <2>4. CASE Unlinked(u)
    BY <1>2, <2>1, <2>4, UnlinkedIs DEF Walks, Carries, Taking, On
  <2>5. CASE DropVersion(u)
    <3>1. req[u].pc = "dropVersion" /\ page' = Unpaged(req[u].version)
      BY <2>1, <2>5, EndIs DEF DropVersion, Unpaged
    <3>2. page[p].version = req[u].version
      BY <1>2, <3>1 DEF Taking, On
    <3> QED BY <3>1, <3>2, NoRows DEF Unpaged, Live
  <2>6. CASE DropPage(u)
    <3>1. req[u].pc = "dropPage"
      BY <2>1, <2>6, DropPageIs
    <3>2. p = req[u].page
      BY <1>2, <2>1, <3>1 DEF Taking, On, Shape
    <3> QED BY <2>1, <2>6, <3>2, NoRows, DropPageIs DEF Without, Live
  <2>7. CASE \/ CreateVersion(u) \/ AddSpread(u) \/ SpreadsDone(u) \/ Resend(u) \/ ListRemaining(u)
             \/ Renumber(u) \/ Reorder(u) \/ SetStatus(u) \/ DropAlbum(u) \/ CheckComment(u)
             \/ PostComment(u) \/ PostNote(u) \/ DropComment(u) \/ Resolve(u)
    <3>1. req[u].pc \notin {"unlink", "dropVersion", "dropPage", "repoint"}
      BY <2>1, <2>7, CreateVersionIs, AddSpreadIs, PostNoteIs, CheckCommentIs
         DEF SpreadsDone, Resend, ListRemaining, Renumber, Reorder, SetStatus, DropAlbum,
             PostComment, DropComment, Resolve, Goto, End, Step
    <3> QED BY <2>2, <3>1 DEF On
  <2> QED BY <1>2, <2>3, <2>4, <2>5, <2>6, <2>7 DEF Proceed
<1> QED BY <1>1, <1>2

\* FilesInv, in the state after the step.
FilesGo(u) ==
  /\ crashes = 0 => \A p \in Pages : page'[p].version # NoVersion /\ page'[p].file \notin disk' =>
       \E w \in Users : Taking(w, p)'
  /\ \A w \in Users, p \in Pages :
       req'[w].pc = "unlink" /\ page'[p].version # NoVersion /\ page'[p].file \in Range(req'[w].todo)
       => Taking(w, p)'
  /\ \A w \in Users, f \in Files : Reserved(w, f)' =>
       \A p \in Pages : page'[p].version # NoVersion => page'[p].file # f

LEMMA FilesGoOn ==
  ASSUME Kept, PagesInv, FilesInv, NEW u \in Users, Proceed(u), FilesGo(u)
  PROVE  FilesInv'
<1>1. crashes' = crashes
  BY ProceedIs DEF SameBounds
<1>2. ASSUME NEW w \in Users, NEW f \in Files, Reserved(w, f)'
      PROVE  /\ \A x \in Users : Reserved(x, f)' => x = w
             /\ \A x \in Users : req'[x].pc = "unlink" => f \notin Range(req'[x].todo)
  <2>1. Reserved(w, f)
    BY <1>2, ReservedIs
  <2>2. /\ \A x \in Users : Reserved(x, f) => x = w
        /\ \A x \in Users : req[x].pc = "unlink" => f \notin Range(req[x].todo)
    BY <2>1 DEF FilesInv
  <2>3. \A x \in Users : /\ Reserved(x, f)' => Reserved(x, f)
                         /\ req'[x].pc = "unlink" => req[x].pc = "unlink" /\ Range(req'[x].todo) \subseteq Range(req[x].todo)
    BY ReservedIs
  <2> QED BY <2>2, <2>3
<1>3. \A p : Live(p)' <=> page'[p].version # NoVersion
  BY DEF Live
<1> QED BY <1>1, <1>2, <1>3 DEF FilesInv, FilesGo

\* When the rows that are there keep their files.
LEMMA FilesStay ==
  ASSUME Kept, PagesInv, FilesInv, NEW u \in Users, Proceed(u), ~Repoint(u),
         \A p \in Pages : page'[p].version # NoVersion =>
           page'[p].version = page[p].version /\ page'[p].file = page[p].file,
         \/ disk \subseteq disk'
         \/ req[u].pc = "unlink" /\ \E f \in Range(req[u].todo) : disk' = disk \ {f}
  PROVE  FilesInv'
<1>1. \A w \in Users : /\ \A f \in Files : Reserved(w, f)' => Reserved(w, f)
                       /\ req'[w].pc = "unlink" => req[w].pc = "unlink" /\ Range(req'[w].todo) \subseteq Range(req[w].todo)
  BY ReservedIs
<1>2. \A w \in Users, p \in Pages : Taking(w, p) /\ page'[p].version # NoVersion => Taking(w, p)'
  BY TakingIs DEF Live
<1>3. ASSUME crashes = 0, NEW p \in Pages, page'[p].version # NoVersion, page'[p].file \notin disk'
      PROVE  \E w \in Users : Taking(w, p)'
  <2>1. Live(p) /\ page[p].file \notin disk'
    BY <1>3 DEF Live
  <2>2. CASE page[p].file \notin disk
    BY <1>2, <1>3, <2>1, <2>2 DEF FilesInv
  <2>3. CASE page[p].file \in disk
    <3>1. req[u].pc = "unlink" /\ page[p].file \in Range(req[u].todo)
      BY <2>1, <2>3
    <3> QED BY <1>2, <1>3, <2>1, <3>1 DEF FilesInv
  <2> QED BY <2>2, <2>3
<1>4. ASSUME NEW w \in Users, NEW p \in Pages, req'[w].pc = "unlink", page'[p].version # NoVersion,
             page'[p].file \in Range(req'[w].todo)
      PROVE  Taking(w, p)'
  BY <1>1, <1>2, <1>4 DEF FilesInv, Live
<1>5. ASSUME NEW w \in Users, NEW f \in Files, Reserved(w, f)', NEW p \in Pages,
             page'[p].version # NoVersion
      PROVE  page'[p].file # f
  BY <1>1, <1>5 DEF FilesInv, Live
<1>6. FilesGo(u)
  BY <1>3, <1>4, <1>5 DEF FilesGo
<1> QED BY <1>6, FilesGoOn

LEMMA FilesKept ==
  ASSUME Kept, PagesInv, FilesInv, NEW u \in Users, Proceed(u)
  PROVE  FilesInv'
<1>1. TypeOK /\ Shape(u) /\ page \in [Pages -> Page] /\ NoVersion \notin Versions
  BY SlotsAssumption DEF Kept, TypeOK
<1>2. ASSUME ~Repoint(u), page' = page, disk' = disk PROVE FilesInv'
  BY <1>2, FilesStay
<1>3. CASE AddSpread(u) /\ ~Repoint(u)
  <2>1. CASE SameRows
    BY <1>2, <1>3, <2>1 DEF SameRows, rows
  <2>2. ASSUME NEW p \in Pages, NEW f \in Files, Added(u, p, f) PROVE FilesInv'
    <3>1. /\ page'[p].version = req[u].version /\ page'[p].file = f /\ disk' = disk \cup {f}
          /\ \A q \in Pages \ {p} : page'[q] = page[q]
          /\ FreeFile(f)
      BY <1>1, <2>2 DEF Added
    <3>2. \A w \in Users : /\ \A g \in Files : Reserved(w, g)' => Reserved(w, g)
                           /\ req'[w].pc = "unlink" => req[w].pc = "unlink" /\ Range(req'[w].todo) \subseteq Range(req[w].todo)
      BY ReservedIs
    <3>3. \A w \in Users, q \in Pages \ {p} : Taking(w, q) /\ Live(q) => Taking(w, q)'
      BY <1>3, <3>1, TakingIs
    <3>4. \A w \in Users : f # req[w].file /\ f \notin Range(req[w].todo)
      BY <3>1 DEF FreeFile
    <3>5. ASSUME crashes = 0, NEW q \in Pages, page'[q].version # NoVersion, page'[q].file \notin disk'
          PROVE  \E w \in Users : Taking(w, q)'
      <4>1. q # p /\ Live(q) /\ page[q].file \notin disk
        BY <3>1, <3>5 DEF Live
      <4> QED BY <3>3, <3>5, <4>1 DEF FilesInv
    <3>6. ASSUME NEW w \in Users, NEW q \in Pages, req'[w].pc = "unlink", page'[q].version # NoVersion,
                 page'[q].file \in Range(req'[w].todo)
          PROVE  Taking(w, q)'
      <4>1. page'[q].file \in Range(req[w].todo) /\ req[w].pc = "unlink"
        BY <3>2, <3>6
      <4>2. q # p
        BY <3>1, <3>4, <4>1
      <4>3. Live(q) /\ page'[q] = page[q]
        BY <3>1, <3>6, <4>2 DEF Live
      <4> QED BY <3>3, <4>1, <4>2, <4>3 DEF FilesInv
    <3>7. ASSUME NEW w \in Users, NEW g \in Files, Reserved(w, g)', NEW q \in Pages,
                 page'[q].version # NoVersion
          PROVE  page'[q].file # g
      <4>1. Reserved(w, g)
        BY <3>2, <3>7
      <4>2. CASE q = p
        BY <3>1, <3>4, <4>1, <4>2 DEF Reserved
      <4>3. CASE q # p
        BY <3>1, <3>7, <4>1, <4>3 DEF FilesInv, Live
      <4> QED BY <4>2, <4>3
    <3>8. FilesGo(u)
      BY <3>5, <3>6, <3>7 DEF FilesGo
    <3> QED BY <3>8, FilesGoOn
  <2> QED BY <1>1, <1>3, <2>1, <2>2, AddSpreadIs
<1>4. CASE Repoint(u)
  <2> DEFINE p == req[u].page
  <2> DEFINE f == req[u].file
  <2>1. /\ End(u, "repoint") /\ disk' = disk \cup {f}
        /\ page' = IF page[p].version = NoVersion THEN page ELSE [page EXCEPT ![p].file = f]
    BY <1>4 DEF Repoint
  <2>2. req[u].pc = "repoint" /\ Ends(u) /\ req[u].then = "repoint"
    BY <1>1, <2>1, EndIs DEF Shape
  <2>3. p \in Pages /\ f \in Files /\ Reserved(u, f) /\ \A q \in Pages : Taking(u, q) => q = p
    BY <1>1, <2>2 DEF Shape, Reserved, On, Taking
  <2>4. \A q \in Pages : /\ page'[q].version = page[q].version
                         /\ q # p => page'[q].file = page[q].file
                         /\ q = p /\ Live(q) => page'[q].file = f
    BY <1>1, <2>1, <2>3 DEF Page, Live
  <2>5. /\ \A w \in Users : Reserved(w, f) => w = u
        /\ \A w \in Users : req[w].pc = "unlink" => f \notin Range(req[w].todo)
    BY <2>3 DEF FilesInv
  <2>6. /\ \A g \in Files : ~Reserved(u, g)'
        /\ req'[u].pc # "unlink"
    BY <2>2, IdleIs DEF Ends, Reserved, On
  <2> HIDE DEF p, f
  <2>7. \A w \in Users : /\ \A g \in Files : Reserved(w, g)' => Reserved(w, g)
                         /\ req'[w].pc = "unlink" => req[w].pc = "unlink" /\ Range(req'[w].todo) \subseteq Range(req[w].todo)
    BY ReservedIs
  <2>8. \A w \in Users \ {u}, q \in Pages : Taking(w, q) /\ Live(q) => Taking(w, q)'
    BY <2>4, TakingIs
  <2>9. ASSUME crashes = 0, NEW q \in Pages, page'[q].version # NoVersion, page'[q].file \notin disk'
        PROVE  \E w \in Users : Taking(w, q)'
    <3>1. Live(q) /\ q # p /\ page[q].file \notin disk
      BY <2>1, <2>4, <2>9 DEF Live
    <3>2. PICK w \in Users : Taking(w, q)
      BY <2>9, <3>1 DEF FilesInv
    <3>3. w # u
      BY <2>3, <3>1, <3>2
    <3> QED BY <2>8, <3>1, <3>2, <3>3
  <2>10. ASSUME NEW w \in Users, NEW q \in Pages, req'[w].pc = "unlink", page'[q].version # NoVersion,
                page'[q].file \in Range(req'[w].todo)
         PROVE  Taking(w, q)'
    <3>1. w # u /\ req[w].pc = "unlink" /\ page'[q].file \in Range(req[w].todo)
      BY <2>6, <2>7, <2>10
    <3>2. Live(q) /\ q # p
      BY <2>4, <2>5, <2>10, <3>1 DEF Live
    <3> QED BY <2>4, <2>8, <3>1, <3>2 DEF FilesInv
  <2>11. ASSUME NEW w \in Users, NEW g \in Files, Reserved(w, g)', NEW q \in Pages,
                page'[q].version # NoVersion
         PROVE  page'[q].file # g
    <3>1. Reserved(w, g) /\ w # u
      BY <2>6, <2>7, <2>11
    <3>2. g # f
      BY <2>5, <3>1
    <3> QED BY <2>4, <2>11, <3>1, <3>2 DEF FilesInv, Live
  <2>12. FilesGo(u)
    BY <2>9, <2>10, <2>11 DEF FilesGo
  <2> QED BY <2>12, FilesGoOn
<1>5. CASE Unlink(u) /\ ~Repoint(u)
  BY <1>1, <1>5, UnlinkIs, FilesStay
<1>6. CASE DropVersion(u) /\ ~Repoint(u)
  <2>1. page' = Unpaged(req[u].version) /\ disk' = disk
    BY <1>6 DEF DropVersion, Unpaged
  <2>2. \A p \in Pages : page'[p].version # NoVersion => page'[p] = page[p]
    BY <2>1, NoRows DEF Unpaged
  <2> QED BY <1>6, <2>1, <2>2, FilesStay
<1>7. CASE DropPage(u) /\ ~Repoint(u)
  <2>1. CASE SameRows
    BY <1>2, <1>7, <2>1 DEF SameRows, rows
  <2>2. CASE page' = Without(req[u].page) /\ disk' = disk
    <3>1. \A p \in Pages : page'[p].version # NoVersion => page'[p] = page[p]
      BY <1>1, <2>2, NoRows DEF Without
    <3> QED BY <1>7, <2>2, <3>1, FilesStay
  <2> QED BY <1>1, <1>7, <2>1, <2>2, DropPageIs
<1>8. CASE (Renumber(u) \/ Reorder(u)) /\ ~Repoint(u)
  <2>1. page' = Renumbered(req[u].list, req[u].version) /\ req[u].pc \in {"renumber", "reorder"}
        /\ disk' = disk
    BY <1>1, <1>8, EndIs DEF Renumber, Reorder
  <2>2. req[u].version \in Versions /\ req[u].list \in Seq(Pages)
    BY <1>1, <2>1 DEF Shape, TypeOK, Request
  <2>3. \A p \in Pages : page'[p].version = page[p].version /\ page'[p].file = page[p].file
    BY <1>1, <2>1, <2>2, RenumberedRows
  <2> QED BY <1>8, <2>1, <2>3, FilesStay
<1>9. CASE DropAlbum(u) /\ ~Repoint(u)
  <2>1. disk' = disk /\ \A p \in Pages : page'[p].version = NoVersion
    BY <1>9, NoRows DEF DropAlbum
  <2> QED BY <1>9, <2>1, FilesStay
<1>10. CASE CreateVersion(u) /\ ~Repoint(u)
  BY <1>1, <1>2, <1>10, CreateVersionIs DEF SameRows, rows, Created
<1>11. CASE /\ \/ SpreadsDone(u) \/ Resend(u) \/ Unlinked(u) \/ ListRemaining(u)
               \/ SetStatus(u) \/ CheckComment(u) \/ PostComment(u) \/ PostNote(u)
               \/ DropComment(u) \/ Resolve(u)
            /\ ~Repoint(u)
  BY <1>2, <1>11 DEF SpreadsDone, Resend, Unlinked, ListRemaining, SetStatus, CheckComment,
       PostComment, PostNote, DropComment, Resolve, rows
<1> QED
  BY <1>3, <1>4, <1>5, <1>6, <1>7, <1>8, <1>9, <1>10, <1>11 DEF Proceed

LEMMA FilesStarted ==
  ASSUME Kept, PagesInv, FilesInv, NEW u \in Users, Started(u)
  PROVE  FilesInv'
<1>1. /\ page' = page /\ disk' = disk /\ crashes' = crashes /\ req[u].pc = "idle"
      /\ \A w \in Users \ {u} : req'[w] = req[w]
      /\ Opening(u, req'[u])
  BY DEF Started, SameRows, rows, OthersStay
<1> DEFINE r == req'[u]
<1>2. \A w \in Users, p \in Pages : Taking(w, p) => Taking(w, p)'
  <2>1. \A p \in Pages : ~Taking(u, p)
    BY <1>1 DEF Taking, On
  <2> QED BY <1>1, <2>1 DEF Taking, On
<1>3. r.pc = "unlink" => Removing(u, r) \/ Replacing(u, r)
  <2> HIDE DEF r
  <2>1. Opening(u, r)
    BY <1>1 DEF r
  <2> QED BY <2>1 DEF Opening, Reviewed, Commented
<1>4. ASSUME NEW p \in Pages, r.pc = "unlink", Live(p), page[p].file \in Range(r.todo)
      PROVE  Taking(u, p)'
  <2>1. CASE Removing(u, r) /\ r.then = "dropVersion"
    <3>1. PICK q \in PagesOf(r.version) : page[q].file = page[p].file
      BY <1>4, <2>1 DEF Removing
    <3>2. Live(q) /\ q \in Pages /\ page[q].version = r.version
      BY <2>1, SlotsAssumption DEF Removing, PagesOf, Live
    <3>3. p = q
      BY <1>4, <3>1, <3>2 DEF PagesInv
    <3> QED BY <1>1, <1>4, <2>1, <3>2, <3>3 DEF Taking, On
  <2>2. CASE (Removing(u, r) /\ r.then = "dropPage") \/ Replacing(u, r)
    <3>1. /\ r.page \in Pages /\ Live(r.page) /\ Range(r.todo) = {page[r.page].file}
          /\ r.then \in {"dropPage", "repoint"}
      BY <2>2 DEF Removing, Replacing
    <3>2. p = r.page
      BY <1>4, <3>1 DEF PagesInv
    <3> QED BY <1>4, <3>1, <3>2 DEF Taking, On
  <2> QED BY <1>3, <1>4, <2>1, <2>2 DEF Removing
<1>5. r.pc = "unlink" =>
        \A g \in Range(r.todo) : \E p \in Pages : Live(p) /\ page[p].file = g
  <2> HIDE DEF r
  <2>1. Removing(u, r) => \A g \in Range(r.todo) : \E p \in Pages : Live(p) /\ page[p].file = g
    BY SlotsAssumption DEF Removing, PagesOf, Live
  <2>2. Replacing(u, r) => \A g \in Range(r.todo) : \E p \in Pages : Live(p) /\ page[p].file = g
    BY DEF Replacing
  <2> QED BY <1>3, <2>1, <2>2
<1>6. \A f \in Files : Reserved(u, f)' => f = r.file /\ FreeFile(f)
  <2>1. ASSUME On(u, "repoint")' PROVE Replacing(u, r)
    <3>1. r.then = "repoint"
      BY <2>1 DEF On
    <3> HIDE DEF r
    <3>2. Opening(u, r)
      BY <1>1 DEF r
    <3> QED BY <3>1, <3>2 DEF Opening, Removing
  <2> QED BY <2>1 DEF Reserved, Replacing
<1>7. \A w \in Users \ {u}, f \in Files : Reserved(w, f)' <=> Reserved(w, f)
  BY <1>1 DEF Reserved, On
<1>8. ASSUME crashes = 0, NEW p \in Pages, Live(p), page[p].file \notin disk
      PROVE  \E w \in Users : Taking(w, p)'
  BY <1>2, <1>8 DEF FilesInv
<1>9. ASSUME NEW w \in Users, NEW p \in Pages, req'[w].pc = "unlink", Live(p),
             page[p].file \in Range(req'[w].todo)
      PROVE  Taking(w, p)'
  <2>1. CASE w = u
    BY <1>4, <1>9, <2>1
  <2>2. CASE w # u
    BY <1>1, <1>2, <1>9, <2>2 DEF FilesInv
  <2> QED BY <2>1, <2>2
<1>10. ASSUME NEW w \in Users, NEW f \in Files, Reserved(w, f)'
       PROVE  /\ \A p \in Pages : Live(p) => page[p].file # f
              /\ \A x \in Users : Reserved(x, f)' => x = w
              /\ \A x \in Users : req'[x].pc = "unlink" => f \notin Range(req'[x].todo)
  <2>1. CASE w = u
    <3>1. FreeFile(f)
      BY <1>6, <1>10, <2>1
    <3>2. \A p \in Pages : page[p].file # f
      BY <3>1 DEF FreeFile
    <3>3. \A x \in Users : f # req[x].file /\ f \notin Range(req[x].todo)
      BY <3>1 DEF FreeFile
    <3>4. \A x \in Users \ {u} : ~Reserved(x, f)'
      BY <1>7, <3>3 DEF Reserved
    <3>5. req'[u].pc = "unlink" => f \notin Range(req'[u].todo)
      BY <1>5, <3>2
    <3> QED BY <1>1, <2>1, <3>2, <3>3, <3>4, <3>5
  <2>2. CASE w # u
    <3>1. Reserved(w, f)
      BY <1>7, <1>10, <2>2
    <3>2. /\ \A p \in Pages : Live(p) => page[p].file # f
          /\ \A x \in Users : Reserved(x, f) => x = w
          /\ \A x \in Users : req[x].pc = "unlink" => f \notin Range(req[x].todo)
      BY <3>1 DEF FilesInv
    <3>3. ~Reserved(u, f)'
      <4>1. f = req[w].file
        BY <3>1 DEF Reserved
      <4>2. ~FreeFile(f)
        BY <4>1 DEF FreeFile
      <4> QED BY <1>6, <4>2
    <3>4. req'[u].pc = "unlink" => f \notin Range(req'[u].todo)
      BY <1>5, <3>2
    <3> QED BY <1>1, <1>7, <3>2, <3>3, <3>4
  <2> QED BY <2>1, <2>2
<1>11. \A p : Live(p)' <=> Live(p)
  BY <1>1 DEF Live
<1> QED BY <1>1, <1>8, <1>9, <1>10, <1>11 DEF FilesInv

-----------------------------------------------------------------------------
(* All of it.                                                              *)

LEMMA StartInv ==
  ASSUME IInv, NEW u \in Users, Start(u)
  PROVE  IInv'
<1>1. Started(u)
  BY StartIs DEF IInv, Kept
<1> QED
  BY <1>1, StartKept, RowsStarted, PinsStarted, ReviewStarted, NumbersStarted, FilesStarted DEF IInv

LEMMA ProceedInv ==
  ASSUME IInv, NEW u \in Users, Proceed(u)
  PROVE  IInv'
BY ProceedKept, PagesKept, ThreadsKept, PinsKept, ReviewKept, NumbersKept, FilesKept DEF IInv

LEMMA NumbersSame ==
  ASSUME NumbersHold, page' = page, version' = version, req' = req
  PROVE  NumbersHold'
<1>1. \A v : PagesOf(v)' = PagesOf(v) /\ (Contiguous(v)' <=> Contiguous(v))
             /\ (HasVersion(v)' <=> HasVersion(v))
  BY DEF PagesOf, Contiguous, HasVersion
<1>2. \A v \in Versions : Contiguous(v) \/ \E u \in Users : Repairing(u, v)'
  BY <1>1 DEF NumbersHold, Repairing
<1> QED BY <1>1, <1>2 DEF NumbersHold, Uploading, Deleting

\* The platform's override changes the status alone.
LEMMA ForceInv ==
  ASSUME IInv, NEW status \in Statuses, ForceStatus(status)
  PROVE  IInv'
<1>1. /\ album.live /\ requests < MaxRequests /\ requests' = requests + 1
      /\ album' = [album EXCEPT !.status = status, !.locked = status = "APPROVED"]
      /\ races' = races \cup {x \in {"override"} : \E u \in Users : req[u].pc # "idle"}
      /\ UNCHANGED <<version, page, disk, comment, req, crashes>>
  BY DEF ForceStatus
<1>2. Kept /\ Kept'
  <2>1. album' \in [live : BOOLEAN, status : Statuses, locked : BOOLEAN]
    <3>1. (status = "APPROVED") \in BOOLEAN
      OBVIOUS
    <3> DEFINE locked == status = "APPROVED"
    <3>2. album' = [album EXCEPT !.status = status, !.locked = locked] /\ locked \in BOOLEAN
      BY <1>1
    <3> HIDE DEF locked
    <3> QED BY <3>2 DEF IInv, Kept, TypeOK
  <2>2. requests' \in 0..MaxRequests
    BY <1>1, SlotsAssumption DEF IInv, Kept, TypeOK
  <2>3. races' \subseteq Races
    BY <1>1 DEF IInv, Kept, TypeOK, Races
  <2>4. TypeOK'
    BY <1>1, <2>1, <2>2, <2>3 DEF IInv, Kept, TypeOK
  <2> QED BY <1>1, <2>4 DEF IInv, Kept, Shape, On, Deleting
<1>3. PagesInv'
  BY <1>1 DEF IInv, PagesInv, Live, HasVersion
<1>4. ThreadsInv'
  BY <1>1 DEF IInv, ThreadsInv, ThreadsIntact, Checked, Alive, HasVersion, Live
<1>5. PinsInv'
  <2>1. "pins" \notin races' => "pins" \notin races
    BY <1>1
  <2> QED BY <1>1, <2>1 DEF IInv, PinsInv, PinsDistinct, PinFree, Commenting, Alive, SamePlace
<1>6. ReviewInv'
  <2>1. races' \cap {"side", "override"} = {} =>
          races \cap {"side", "override"} = {} /\ \A u \in Users : req[u].pc = "idle"
    BY <1>1
  <2> QED BY <1>1, <2>1 DEF IInv, ReviewInv, Busy, Adding, Reading
<1>7. NumbersInv'
  <2>1. races' \cap {"spread", "twice"} = {} => races \cap {"spread", "twice"} = {}
    BY <1>1
  <2>2. NumbersHold => NumbersHold'
    BY <1>1, NumbersSame
  <2> QED BY <1>1, <2>1, <2>2 DEF IInv, NumbersInv, NumbersHold
<1>8. FilesInv'
  BY <1>1 DEF IInv, FilesInv, Taking, Reserved, On, Live
<1> QED BY <1>2, <1>3, <1>4, <1>5, <1>6, <1>7, <1>8 DEF IInv

\* A crash ends every request where it is.
LEMMA CrashInv ==
  ASSUME IInv, Crash
  PROVE  IInv'
<1>1. /\ crashes < MaxCrashes /\ crashes' = crashes + 1 /\ req' = [u \in Users |-> Idle]
      /\ UNCHANGED <<album, version, page, disk, comment, requests, races>>
  BY DEF Crash, rows
<1>2. crashes' \in 0..MaxCrashes /\ crashes' # 0
  BY <1>1, SlotsAssumption DEF IInv, Kept, TypeOK
<1>3. \A u \in Users : req'[u] = Idle
  BY <1>1
<1>4. Kept'
  <2>1. TypeOK'
    BY <1>1, <1>2, IdleIs DEF IInv, Kept, TypeOK
  <2>2. \A u \in Users : Shape(u)'
    BY <1>3, IdleIs DEF Shape, On, Deleting
  <2> QED BY <2>1, <2>2 DEF Kept
<1>5. PagesInv'
  BY <1>1 DEF IInv, PagesInv, Live, HasVersion
<1>6. ThreadsInv'
  <2>1. ThreadsIntact'
    BY <1>1 DEF IInv, ThreadsInv, ThreadsIntact, Alive, HasVersion
  <2>2. \A u \in Users : Checked(u)'
    BY <1>3, IdleIs DEF Checked
  <2> QED BY <2>1, <2>2 DEF ThreadsInv
<1>7. PinsInv'
  <2>1. "pins" \notin races => PinsDistinct'
    BY <1>1 DEF IInv, PinsInv, PinsDistinct, Alive
  <2>2. \A u \in Users : PinFree(u)' /\ ~Commenting(u)'
    BY <1>3, IdleIs DEF PinFree, Commenting
  <2> QED BY <1>1, <2>1, <2>2 DEF PinsInv
<1>8. ReviewInv'
  BY <1>3, IdleIs DEF ReviewInv, Busy, Adding, Reading
<1>9. NumbersInv'
  BY <1>2 DEF NumbersInv
<1>10. FilesInv'
  BY <1>2, <1>3, IdleIs DEF FilesInv, Reserved, On
<1> QED BY <1>4, <1>5, <1>6, <1>7, <1>8, <1>9, <1>10 DEF IInv

\* A drafted, sent, changed or approved album that nobody works on, with a thread.
LEMMA ThreadIs ==
  ASSUME NEW v, Some(Versions) = {v}, v \in Versions,
         comment = [c \in Comments |-> IF c \in DOMAIN Thread THEN Thread[c] ELSE NoCommentRow]
  PROVE  /\ comment \in [Comments -> Comment] /\ {1, 2, 3} \subseteq Comments
         /\ \A c \in Comments \ {1, 2, 3} : comment[c] = NoCommentRow
         /\ \A c \in {1, 2, 3} : comment[c].version = v /\ comment[c].page = 1
         /\ comment[1].parent = NoComment /\ comment[2].parent = NoComment /\ comment[3].parent = 1
         /\ comment[1].pin = 1 /\ comment[2].pin = 2 /\ comment[3].pin = 0
<1> DEFINE first == CHOOSE x \in Versions : TRUE
<1> DEFINE by(u, parent, pin) == [NoCommentRow EXCEPT !.version = first,
                                    !.page = 1, !.parent = parent, !.pin = pin, !.author = u]
<1> DEFINE aClient == CHOOSE u \in Clients : TRUE
<1> DEFINE anOwner == CHOOSE u \in Owners : TRUE
<1>1. first = v
  BY DEF Some
<1>2. aClient \in Users /\ anOwner \in Users
  BY SlotsAssumption DEF Users, Studio
<1>3. {1, 2, 3} \subseteq Comments /\ 1 \in Pages
  <2>1. 1..3 \subseteq Comments /\ 1 \in 1..3 /\ 2 \in 1..3 /\ 3 \in 1..3
    BY SlotsAssumption
  <2>2. 1 \in 1..Spreads /\ 1..Spreads \subseteq Pages
    BY SlotsAssumption
  <2> QED BY <2>1, <2>2
<1>4. Thread = <<by(aClient, NoComment, 1), by(aClient, NoComment, 2), by(anOwner, 1, 0)>>
  BY DEF Thread
<1> HIDE DEF by, aClient, anOwner, first
<1>6. DOMAIN Thread = {1, 2, 3} /\ Thread[1] = by(aClient, NoComment, 1)
      /\ Thread[2] = by(aClient, NoComment, 2) /\ Thread[3] = by(anOwner, 1, 0)
  BY <1>4
<1>7. /\ comment[1] = by(aClient, NoComment, 1) /\ comment[2] = by(aClient, NoComment, 2)
      /\ comment[3] = by(anOwner, 1, 0) /\ \A c \in Comments \ {1, 2, 3} : comment[c] = NoCommentRow
  BY <1>3, <1>6
<1>8. /\ \A c \in {1, 2, 3} : comment[c] \in Comment /\ comment[c].version = v /\ comment[c].page = 1
      /\ comment[1].parent = NoComment /\ comment[2].parent = NoComment /\ comment[3].parent = 1
      /\ comment[1].pin = 1 /\ comment[2].pin = 2 /\ comment[3].pin = 0
  <2>1. /\ comment[1] \in Comment /\ comment[1].version = v /\ comment[1].page = 1
        /\ comment[1].parent = NoComment /\ comment[1].pin = 1
    <3> DEFINE row == by(aClient, NoComment, 1)
    <3>1. aClient \in Users /\ NoComment \in Comments \cup {NoComment} /\ 1 \in Nat
      BY <1>2, <1>3
    <3>2. /\ row \in Comment /\ row.version = v /\ row.page = 1
          /\ row.parent = NoComment /\ row.pin = 1
      BY <1>1, <1>3, <3>1, NoRows DEF by, Comment
    <3>3. comment[1] = row
      BY <1>7
    <3> HIDE DEF row
    <3> QED BY <3>2, <3>3
  <2>2. /\ comment[2] \in Comment /\ comment[2].version = v /\ comment[2].page = 1
        /\ comment[2].parent = NoComment /\ comment[2].pin = 2
    <3> DEFINE row == by(aClient, NoComment, 2)
    <3>1. aClient \in Users /\ NoComment \in Comments \cup {NoComment} /\ 2 \in Nat
      BY <1>2, <1>3
    <3>2. /\ row \in Comment /\ row.version = v /\ row.page = 1
          /\ row.parent = NoComment /\ row.pin = 2
      BY <1>1, <1>3, <3>1, NoRows DEF by, Comment
    <3>3. comment[2] = row
      BY <1>7
    <3> HIDE DEF row
    <3> QED BY <3>2, <3>3
  <2>3. /\ comment[3] \in Comment /\ comment[3].version = v /\ comment[3].page = 1
        /\ comment[3].parent = 1 /\ comment[3].pin = 0
    <3> DEFINE row == by(anOwner, 1, 0)
    <3>1. anOwner \in Users /\ 1 \in Comments \cup {NoComment} /\ 0 \in Nat
      BY <1>2, <1>3
    <3>2. /\ row \in Comment /\ row.version = v /\ row.page = 1
          /\ row.parent = 1 /\ row.pin = 0
      BY <1>1, <1>3, <3>1, NoRows DEF by, Comment
    <3>3. comment[3] = row
      BY <1>7
    <3> HIDE DEF row
    <3> QED BY <3>2, <3>3
  <2> QED BY <2>1, <2>2, <2>3
<1>9. comment \in [Comments -> Comment]
  <2>1. \A c \in Comments : comment[c] \in Comment
    BY <1>7, <1>8, NoRows
  <2>2. comment = [c \in Comments |-> comment[c]]
    OBVIOUS
  <2> QED BY <2>1, <2>2
<1> QED BY <1>3, <1>7, <1>8, <1>9

LEMMA InitInv == Init => IInv
<1> SUFFICES ASSUME Init PROVE IInv
  OBVIOUS
<1>1. PICK v \in Some(Versions), S \in {1..Spreads} :
        /\ version = [w \in Versions |-> IF w = v THEN 1 ELSE 0]
        /\ page = [p \in Pages |-> IF p \in S
                     THEN [version |-> v, number |-> p, file |-> p] ELSE NoPageRow]
        /\ disk = S
  BY DEF Init
<1>2. v \in Versions /\ Some(Versions) = {v} /\ v # NoVersion
  BY SlotsAssumption DEF Some
<1>3. /\ S = 1..Spreads /\ Spreads \in Nat /\ Spreads > 0 /\ S \subseteq Pages /\ S \subseteq Files
      /\ S \subseteq Nat \ {0} /\ 1 \in S
  BY SlotsAssumption
<1>4. /\ requests = 0 /\ crashes = 0 /\ races = {} /\ req = [u \in Users |-> Idle]
      /\ comment = [c \in Comments |-> IF c \in DOMAIN Thread THEN Thread[c] ELSE NoCommentRow]
  BY DEF Init
<1>5. \A u \in Users : req[u] = Idle
  BY <1>4
<1>6. /\ \A p \in S : page[p] = [version |-> v, number |-> p, file |-> p]
      /\ \A p \in Pages \ S : page[p] = NoPageRow
      /\ version[v] = 1 /\ HasVersion(v)
  BY <1>1, <1>2, <1>3 DEF HasVersion
<1>7. /\ \A p \in Pages : page[p].version # NoVersion <=> p \in S
      /\ \A p \in S : page[p].version = v /\ page[p].number = p /\ page[p].file = p
  <2>1. ASSUME NEW p \in S PROVE page[p].version = v /\ page[p].number = p /\ page[p].file = p
    <3>1. page[p] = [version |-> v, number |-> p, file |-> p]
      BY <1>6
    <3> QED BY <3>1
  <2>2. \A p \in Pages \ S : page[p].version = NoVersion
    BY <1>6, NoRows
  <2> QED BY <1>2, <2>1, <2>2
<1>8. Kept
  <2>1. album \in [live : BOOLEAN, status : Statuses, locked : BOOLEAN]
    BY DEF Init
  <2>2. \A p \in Pages : page[p] \in Page
    <3>1. ASSUME NEW p \in S PROVE page[p] \in Page
      <4>1. p \in Nat /\ p \in Files /\ v \in Versions
        BY <1>2, <1>3
      <4>2. page[p] = [version |-> v, number |-> p, file |-> p]
        BY <1>6
      <4> QED BY <4>1, <4>2 DEF Page
    <3> QED BY <1>6, <3>1, NoRows
  <2>3. page \in [Pages -> Page] /\ version \in [Versions -> Nat]
    BY <1>1, <2>2
  <2>4. comment \in [Comments -> Comment]
    BY <1>2, <1>4, ThreadIs
  <2>5. TypeOK
    <3>1. req \in [Users -> Request] /\ disk \subseteq Files
      BY <1>1, <1>3, <1>4, IdleIs
    <3>2. requests \in 0..MaxRequests /\ crashes \in 0..MaxCrashes /\ races \subseteq Races
      BY <1>4, SlotsAssumption
    <3> QED BY <2>1, <2>3, <2>4, <3>1, <3>2 DEF TypeOK
  <2>6. \A u \in Users : Shape(u)
    BY <1>5, IdleIs DEF Shape, On, Deleting
  <2> QED BY <2>5, <2>6 DEF Kept
<1>9. PagesInv
  BY <1>3, <1>6, <1>7 DEF PagesInv, Live
<1>10. /\ {1, 2, 3} \subseteq Comments /\ NoComment \notin Comments
       /\ \A c \in Comments : Alive(c) <=> c \in {1, 2, 3}
       /\ \A c \in {1, 2, 3} : comment[c].version = v /\ comment[c].page = 1
       /\ comment[1].parent = NoComment /\ comment[2].parent = NoComment /\ comment[3].parent = 1
       /\ comment[1].pin = 1 /\ comment[2].pin = 2 /\ comment[3].pin = 0
  BY <1>2, <1>4, ThreadIs, NoRows, SlotsAssumption DEF Alive
<1>11. ThreadsInv
  <2>1. page[1].version = v
    BY <1>3, <1>7
  <2>2. ThreadsIntact
    BY <1>6, <1>10, <2>1 DEF ThreadsIntact, Alive
  <2>3. \A u \in Users : Checked(u)
    BY <1>5, IdleIs DEF Checked
  <2> QED BY <2>2, <2>3 DEF ThreadsInv
<1>12. PinsInv
  <2>1. PinsDistinct
    BY <1>10 DEF PinsDistinct
  <2>2. \A u \in Users : PinFree(u) /\ ~Commenting(u)
    BY <1>5, IdleIs DEF PinFree, Commenting
  <2> QED BY <2>1, <2>2 DEF PinsInv
<1>13. ReviewInv
  BY <1>5, IdleIs DEF ReviewInv, Busy, Adding, Reading
<1>14. NumbersInv
  <2>1. ASSUME NEW w \in Versions PROVE Contiguous(w)
    <3>1. CASE w = v
      <4>1. PagesOf(w) = S
        BY <1>2, <1>3, <1>7, <3>1 DEF PagesOf
      <4>2. {page[p].number : p \in S} = S
        BY <1>7
      <4>3. Cardinality(1..Spreads) = Spreads
        BY <1>3, FS_Interval
      <4> QED BY <1>3, <4>1, <4>2, <4>3 DEF Contiguous
    <3>2. CASE w # v
      <4>1. PagesOf(w) = {}
        BY <1>7, <3>2, SlotsAssumption DEF PagesOf
      <4> QED BY <4>1, FS_EmptySet DEF Contiguous
    <3> QED BY <3>1, <3>2
  <2>2. \A u \in Users : req[u].pc = "idle"
    BY <1>5, IdleIs
  <2> QED BY <2>1, <2>2 DEF NumbersInv, Uploading, Deleting
<1>15. FilesInv
  BY <1>1, <1>5, <1>7, IdleIs DEF FilesInv, Live, Reserved, On
<1> QED BY <1>8, <1>9, <1>11, <1>12, <1>13, <1>14, <1>15 DEF IInv

LEMMA NextInv ==
  ASSUME IInv, [Next]_vars
  PROVE  IInv'
<1>1. CASE Crash
  BY <1>1, CrashInv
<1>2. ASSUME NEW status \in Statuses, ForceStatus(status) PROVE IInv'
  BY <1>2, ForceInv
<1>3. ASSUME NEW u \in Users, Start(u) \/ Proceed(u) PROVE IInv'
  BY <1>3, StartInv, ProceedInv
<1>4. CASE UNCHANGED vars
  <2>1. /\ album' = album /\ version' = version /\ page' = page /\ disk' = disk /\ comment' = comment
        /\ req' = req /\ requests' = requests /\ crashes' = crashes /\ races' = races
    BY <1>4 DEF vars
  <2>2. Kept'
    BY <2>1 DEF IInv, Kept, TypeOK, Shape, On, Deleting
  <2>3. PagesInv'
    BY <2>1 DEF IInv, PagesInv, Live, HasVersion
  <2>4. ThreadsInv'
    BY <2>1 DEF IInv, ThreadsInv, ThreadsIntact, Checked, Alive, HasVersion, Live
  <2>5. PinsInv'
    BY <2>1 DEF IInv, PinsInv, PinsDistinct, PinFree, Commenting, Alive, SamePlace
  <2>6. ReviewInv'
    BY <2>1 DEF IInv, ReviewInv, Busy, Adding, Reading
  <2>7. NumbersInv'
    <3>1. NumbersHold => NumbersHold'
      BY <2>1, NumbersSame
    <3> QED BY <2>1, <3>1 DEF IInv, NumbersInv, NumbersHold
  <2>8. FilesInv'
    BY <2>1 DEF IInv, FilesInv, Taking, Reserved, On, Live
  <2> QED BY <2>2, <2>3, <2>4, <2>5, <2>6, <2>7, <2>8 DEF IInv
<1> QED BY <1>1, <1>2, <1>3, <1>4 DEF Next

\* The inductive invariant holds of every state an album gets into.
THEOREM Invariance == Spec => []IInv
<1>1. Init => IInv
  BY InitInv
<1>2. IInv /\ [Next]_vars => IInv'
  BY NextInv
<1> QED BY <1>1, <1>2, PTL DEF Spec

\* Comments hang on what exists and pins keep their numbers apart, for any number
\* of versions, spreads, comments and people, whatever is deleted or restarted
\* while createComment is under way (albums.js:936-989, clientAlbums.js).
THEOREM AlbumInvariant == Spec => []AlbumInv
<1>1. IInv => AlbumInv
  <2> SUFFICES ASSUME IInv PROVE AlbumInv
    OBVIOUS
  <2>1. TypeOK /\ ThreadsIntact
    BY DEF IInv, Kept, ThreadsInv
  <2>2. PinsDistinct
    BY DEF IInv, PinsInv, PinsDistinct
  <2> QED BY <2>1, <2>2 DEF AlbumInv
<1> QED BY <1>1, Invariance, PTL

\* Once nothing is under way and nothing was killed, each spread has its file, and
\* a version's spreads are numbered 1..N, however uploads, deletions, reorders and
\* replacements of any number of people met, unless one deleted from a version that
\* was being filled or a list named a spread twice (albums.js:668-697, 774-776).
THEOREM SpreadsStay == Spec => []SpreadsHold
<1>1. IInv => SpreadsHold
  <2> SUFFICES ASSUME IInv, Quiet, crashes = 0
               PROVE  /\ races \cap {"spread", "twice"} = {} => \A v \in Versions : Contiguous(v)
                      /\ \A p \in Pages : page[p].version # NoVersion => page[p].file \in disk
    BY DEF SpreadsHold, Contiguous
  <2>1. \A u \in Users : req[u].pc = "idle"
    BY DEF Quiet
  <2>2. races \cap {"spread", "twice"} = {} => \A v \in Versions : Contiguous(v)
    BY <2>1 DEF IInv, NumbersInv, Repairing
  <2>3. \A p \in Pages : page[p].version # NoVersion => page[p].file \in disk
    BY <2>1 DEF IInv, FilesInv, Taking, On, Live
  <2> QED BY <2>2, <2>3
<1> QED BY <1>1, Invariance, PTL

\* What a step may never do: undo a client's approval because a request that read
\* the album before it goes on after it (albums.js:522, 586, 832; admin.js:1152).
LEMMA ApprovalKept ==
  ASSUME IInv, [Next]_vars, races \cap {"side", "override"} = {}, album.status = "APPROVED",
         album'.status # "APPROVED"
  PROVE  \/ \E u \in Owners : req[u].pc = "reopen"
         \/ \E status \in Statuses : ForceStatus(status)
<1>1. CASE Crash \/ UNCHANGED vars
  BY <1>1 DEF Crash, rows, vars
<1>2. ASSUME NEW u \in Users, Start(u) PROVE FALSE
  <2>1. Started(u)
    BY <1>2, StartIs DEF IInv, Kept
  <2> QED BY <2>1 DEF Started, SameRows, rows
<1>3. ASSUME NEW u \in Users, Proceed(u) PROVE u \in Owners /\ req[u].pc = "reopen"
  <2>1. \/ req[u].pc \in {"send", "reopen", "approve", "changes"}
        \/ req[u].pc = "resend" /\ req[u].saw = "CHANGES_REQUESTED"
    BY <1>3, StatusIs DEF IInv, Kept
  <2>2. Reading(u)
    BY DEF IInv, ReviewInv
  <2> QED BY <2>1, <2>2 DEF Reading, Adding
<1> QED BY <1>1, <1>2, <1>3 DEF Next

\* As long as each side sends one request at a time and no override meets one, an
\* approval is undone by the owner's reopening or the override and by nothing else.
THEOREM ApprovalHolds == Spec => ApprovalStands
<1> DEFINE A == races \cap {"side", "override"} = {} /\ album.status = "APPROVED"
                  /\ album'.status # "APPROVED"
                => \/ \E u \in Owners : req[u].pc = "reopen"
                   \/ \E status \in Statuses : ForceStatus(status)
<1>1. IInv /\ [Next]_vars => [A]_vars
  BY ApprovalKept
<1>2. Spec => [][A]_vars
  <2> HIDE DEF A
  <2> QED BY <1>1, Invariance, PTL DEF Spec
<1> QED BY <1>2 DEF ApprovalStands

=============================================================================
