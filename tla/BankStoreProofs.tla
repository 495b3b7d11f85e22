--------------------------- MODULE BankStoreProofs ---------------------------
(***************************************************************************)
(* What holds of a bank's files for any number of builders, cells and      *)
(* process numbers.                                                        *)
(***************************************************************************)
EXTENDS BankStore, TLAPS

Inodes == Processes \cup {None}

TypeInv ==
    /\ serial \in BOOLEAN /\ oneBox \in BOOLEAN /\ force \in SUBSET Builders
    /\ at \in [Processes -> Kinds \cup {"idle", "done", "failed", "dead"}]
    /\ stage \in [Processes -> {"look", "open", "write", "replace"}]
    /\ temp \in [Kinds -> [Numbers -> Inodes]] /\ file \in [Kinds -> Inodes]
    /\ text \in [Kinds -> [Processes -> [by : Inodes, whole : BOOLEAN]]]
    /\ number \in [Processes -> Numbers \cup {None}]
    /\ thread \in [Processes -> Numbers \cup {None}]
    /\ handle \in [Processes -> Inodes]
    /\ manifest \in [Processes -> Inodes \cup {Cut}]
    /\ cases \in [Processes -> Inodes \cup {Cut}]
    /\ vectors \in [Processes -> Inodes \cup {Cut}]

\* Where a process can be, and with what in hand.
StageInv ==
    \A p \in Processes :
        /\ at[p] = "idle" => stage[p] = "look"
        /\ p \in Cells => at[p] # "node" /\ (at[p] \in {"cases", "manifest"} => stage[p] = "look")
        /\ p \in Live => number[p] \in Numbers /\ thread[p] \in Numbers
        /\ p \in Live /\ stage[p] \in {"write", "replace"} => handle[p] \in Processes
        /\ vectors[p] # None => at[p] = "done" /\ vectors[p] = cases[p]

\* Whose names differ.
NamesInv ==
    \A p, q \in Live : p # q =>
        /\ oneBox => number[p] # number[q]
        /\ serial => ~(p \in Builders /\ q \in Builders)

\* The kinds of file whose temporary names are the writer's own.
Named == IF serial THEN Kinds ELSE Kinds \ {"node"}

\* p has not opened a file of kind k yet.
NotOpened(p, k) ==
    \/ at[p] = "idle"
    \/ at[p] = k /\ stage[p] \in {"look", "open"}
    \/ at[p] = "node" /\ k # "node"
    \/ at[p] = "cases" /\ k \in {"manifest", "index"}
    \/ at[p] = "manifest" /\ k = "index"
    \/ p \in Cells /\ at[p] \in {"manifest", "cases"}

Writing(p, k) == at[p] = k /\ stage[p] \in {"write", "replace"}

\* Of one kind: an inode has one name, a writer has its own under its name, and
\* what is in place is whole.
KindInv(k) ==
    /\ \A m, n \in Numbers : temp[k][m] # None /\ temp[k][m] = temp[k][n] => m = n
    /\ \A n \in Numbers : temp[k][n] # None => temp[k][n] # file[k]
    /\ \A p \in Processes : NotOpened(p, k) =>
          file[k] # p /\ \A n \in Numbers : temp[k][n] # p
    /\ \A p \in Processes : Writing(p, k) =>
          /\ temp[k][NameOf(p, k)] = handle[p] /\ text[k][handle[p]].by = p
          /\ stage[p] = "replace" => text[k][handle[p]].whole
    /\ Exists(k) => Whole(k)

FilesInv == oneBox => \A k \in Named : KindInv(k)

LEMMA NoneIsNobody ==
    /\ None \notin Processes /\ Cut \notin Processes /\ None # Cut
    /\ Builders \cap Cells = {}
  BY ProcessesAssumption DEF Processes

----------------------------------------------------------------------------
(* Types. *)

Places == /\ at \in [Processes -> Kinds \cup {"idle", "done", "failed", "dead"}]
          /\ stage \in [Processes -> {"look", "open", "write", "replace"}]
          /\ number \in [Processes -> Numbers \cup {None}]
          /\ thread \in [Processes -> Numbers \cup {None}]

LEMMA MovesTyped ==
    ASSUME Places, NEW p \in Processes,
           \/ \E k \in Kinds, s \in {"look", "open", "write", "replace"} : Goto(p, k, s)
           \/ \E how \in {"done", "failed", "dead"} : End(p, how)
    PROVE  Places'
  BY DEF Places, Goto, End

LEMMA TypeStep ==
    ASSUME TypeInv, StageInv, [Next]_vars
    PROVE  TypeInv'
  <1> USE DEF TypeInv, Inodes
  <1>1. ASSUME NEW b \in Builders, NEW n \in Numbers, NEW t \in Numbers, StartBuild(b, n, t)
        PROVE  TypeInv'
    <2>1. b \in Processes /\ b \in Inodes
      BY DEF Processes
    <2>2. QED BY <1>1, <2>1 DEF StartBuild, Start, setting, disk, Kinds
  <1>2. ASSUME NEW c \in Cells, NEW n \in Numbers, StartCell(c, n)
        PROVE  TypeInv'
    <2>1. c \in Processes
      BY DEF Processes
    <2>2. QED BY <1>2, <2>1 DEF StartCell, Start, setting, disk, memory, Kinds
  <1>3. ASSUME NEW p \in Processes, NEW k \in Kinds, OpenTemp(p, k)
        PROVE  TypeInv'
    <2>1. PICK inode \in Processes :
              /\ temp' = [temp EXCEPT ![k][NameOf(p, k)] = inode]
              /\ handle' = [handle EXCEPT ![p] = inode]
              /\ text' = [text EXCEPT ![k][inode] = [by |-> p, whole |-> FALSE]]
      BY <1>3 DEF OpenTemp
    <2>2. NameOf(p, k) \in Numbers
      BY <1>3 DEF OpenTemp, NameOf, StageInv, Live
    <2>3. temp' \in [Kinds -> [Numbers -> Inodes]] /\ handle' \in [Processes -> Inodes]
      BY <2>1, <2>2
    <2>4. text' \in [Kinds -> [Processes -> [by : Inodes, whole : BOOLEAN]]]
      BY <2>1
    <2>5. QED BY <1>3, <2>3, <2>4 DEF OpenTemp, Goto, setting, memory
  <1>4. ASSUME NEW p \in Processes, NEW k \in Kinds, WriteTemp(p, k)
        PROVE  TypeInv'
    <2>1. PICK whole \in BOOLEAN : text' = [text EXCEPT ![k][handle[p]] = [by |-> p, whole |-> whole]]
      BY <1>4 DEF WriteTemp
    <2>2. text' \in [Kinds -> [Processes -> [by : Inodes, whole : BOOLEAN]]]
      BY <2>1
    <2>3. QED BY <1>4, <2>2 DEF WriteTemp, Goto, setting, memory
  <1>5. ASSUME NEW p \in Processes, NEW k \in Kinds, Replace(p, k)
        PROVE  TypeInv'
    <2> DEFINE inode == temp[k][NameOf(p, k)]
    <2>1. NameOf(p, k) \in Numbers
      BY <1>5 DEF Replace, NameOf, StageInv, Live
    <2>2. inode \in Inodes
      BY <2>1
    <2>3. handle' \in [Processes -> Inodes] /\ UNCHANGED <<setting, manifest, cases>>
      BY <1>5 DEF Replace
    <2>4. CASE inode = None /\ End(p, "failed") /\ UNCHANGED <<disk, vectors>>
      BY <2>3, <2>4 DEF End, disk, setting
    <2>5. CASE /\ file' = [file EXCEPT ![k] = inode]
               /\ temp' = [temp EXCEPT ![k][NameOf(p, k)] = None]
               /\ \E next \in AfterFile(k) : Goto(p, next[1], next[2])
               /\ vectors' = IF k = "index" THEN [vectors EXCEPT ![p] = cases[p]] ELSE vectors
               /\ UNCHANGED text
      <3>1. /\ at' \in [Processes -> Kinds \cup {"idle", "done", "failed", "dead"}]
            /\ stage' \in [Processes -> {"look", "open", "write", "replace"}]
            /\ UNCHANGED <<number, thread>>
        BY <2>5 DEF AfterFile, Goto, Kinds
      <3>2. file' \in [Kinds -> Inodes] /\ temp' \in [Kinds -> [Numbers -> Inodes]]
        BY <2>1, <2>2, <2>5
      <3>3. vectors' \in [Processes -> Inodes \cup {Cut}]
        BY <2>5
      <3>4. QED BY <2>3, <2>5, <3>1, <3>2, <3>3 DEF setting
    <2>6. QED BY <1>5, <2>4, <2>5 DEF Replace
  <1>6. ASSUME NEW p \in Processes,
               RefuseBuild(p) \/ GetNode(p) \/ LoadManifest(p) \/ LoadCases(p) \/ ReadIndex(p) \/ Dies(p)
        PROVE  TypeInv'
    <2>1. CASE RefuseBuild(p) \/ GetNode(p) \/ Dies(p)
      BY <2>1 DEF RefuseBuild, GetNode, Dies, End, Goto, setting, disk, memory, Kinds
    <2>2. By("manifest") \in Inodes /\ By("cases") \in Inodes
      BY DEF By, Exists, Kinds
    <2>3. CASE LoadManifest(p)
      <3>1. Places'
        BY <2>3, MovesTyped DEF LoadManifest, Kinds, Places
      <3>2. manifest' \in [Processes -> Inodes \cup {Cut}]
        BY <2>2, <2>3 DEF LoadManifest
      <3>3. QED BY <2>3, <3>1, <3>2 DEF LoadManifest, setting, disk, Places
    <2>4. CASE LoadCases(p)
      <3>1. Places'
        BY <2>4, MovesTyped DEF LoadCases, Kinds, Places
      <3>2. cases' \in [Processes -> Inodes \cup {Cut}]
        BY <2>2, <2>4 DEF LoadCases
      <3>3. QED BY <2>4, <3>1, <3>2 DEF LoadCases, setting, disk, Places
    <2>5. CASE ReadIndex(p)
      <3>1. Places'
        BY <2>5, MovesTyped DEF ReadIndex, Kinds, Places
      <3>2. vectors' \in [Processes -> Inodes \cup {Cut}]
        BY <2>5 DEF ReadIndex, Usable, IndexCases
      <3>3. QED BY <2>5, <3>1, <3>2 DEF ReadIndex, setting, disk, Places
    <2>6. QED BY <1>6, <2>1, <2>3, <2>4, <2>5
  <1>7. CASE UNCHANGED vars
    BY <1>7 DEF vars, setting, disk, memory
  <1>8. QED BY <1>1, <1>2, <1>3, <1>4, <1>5, <1>6, <1>7 DEF Next

----------------------------------------------------------------------------
(* Processes. *)

\* One step of one process: the others stay where they are.
LEMMA OthersStay ==
    ASSUME TypeInv, StageInv, NEW p \in Processes,
           \A q \in Processes \ {p} :
              /\ at'[q] = at[q] /\ stage'[q] = stage[q] /\ number'[q] = number[q]
              /\ thread'[q] = thread[q] /\ handle'[q] = handle[q]
              /\ cases'[q] = cases[q] /\ vectors'[q] = vectors[q],
           /\ at'[p] = "idle" => stage'[p] = "look"
           /\ p \in Cells => at'[p] # "node" /\ (at'[p] \in {"cases", "manifest"} => stage'[p] = "look")
           /\ at'[p] \in Kinds => number'[p] \in Numbers /\ thread'[p] \in Numbers
           /\ at'[p] \in Kinds /\ stage'[p] \in {"write", "replace"} => handle'[p] \in Processes
           /\ vectors'[p] # None => at'[p] = "done" /\ vectors'[p] = cases'[p]
    PROVE  StageInv'
  <1>1. ASSUME NEW q \in Processes, q # p
        PROVE  /\ at'[q] = "idle" => stage'[q] = "look"
               /\ q \in Cells => at'[q] # "node"
                     /\ (at'[q] \in {"cases", "manifest"} => stage'[q] = "look")
               /\ at'[q] \in Kinds => number'[q] \in Numbers /\ thread'[q] \in Numbers
               /\ at'[q] \in Kinds /\ stage'[q] \in {"write", "replace"} => handle'[q] \in Processes
               /\ vectors'[q] # None => at'[q] = "done" /\ vectors'[q] = cases'[q]
    BY <1>1 DEF StageInv, Live
  <1>2. QED BY <1>1 DEF StageInv, Live

\* What a process that runs has in common with itself later.
LEMMA MoveOfLive ==
    ASSUME TypeInv, StageInv, NEW p \in Live
    PROVE  /\ p \in Processes /\ at[p] \in Kinds /\ vectors[p] = None
           /\ number[p] \in Numbers /\ thread[p] \in Numbers
           /\ at[p] = "node" => p \notin Cells
           /\ at[p] \in {"cases", "manifest"} /\ p \in Cells => stage[p] = "look"
  BY DEF StageInv, Live, Kinds

LEMMA StageStep ==
    ASSUME TypeInv, StageInv, [Next]_vars
    PROVE  StageInv'
  <1> USE DEF TypeInv
  <1>1. ASSUME NEW b \in Builders, NEW n \in Numbers, NEW t \in Numbers, StartBuild(b, n, t)
        PROVE  StageInv'
    <2>1. b \in Processes /\ b \notin Cells
      BY NoneIsNobody DEF Processes
    <2>2. at[b] = "idle" /\ stage[b] = "look" /\ vectors[b] = None
      BY <1>1, <2>1 DEF StartBuild, Start, StageInv
    <2>3. QED BY <1>1, <2>1, <2>2, OthersStay DEF StartBuild, Start, Kinds
  <1>2. ASSUME NEW c \in Cells, NEW n \in Numbers, StartCell(c, n)
        PROVE  StageInv'
    <2>1. c \in Processes
      BY DEF Processes
    <2>2. at[c] = "idle" /\ stage[c] = "look" /\ vectors[c] = None
      BY <1>2, <2>1 DEF StartCell, Start, StageInv
    <2>3. QED BY <1>2, <2>1, <2>2, OthersStay DEF StartCell, Start, Kinds, memory
  <1>3. ASSUME NEW p \in Processes, NEW k \in Kinds, OpenTemp(p, k)
        PROVE  StageInv'
    <2>1. p \in Live /\ at[p] = k /\ stage[p] = "open"
      BY <1>3 DEF OpenTemp, Live
    <2>2. PICK inode \in Processes : handle' = [handle EXCEPT ![p] = inode]
      BY <1>3 DEF OpenTemp
    <2>3. /\ at' = [at EXCEPT ![p] = k] /\ stage' = [stage EXCEPT ![p] = "write"]
          /\ UNCHANGED <<number, thread, cases, vectors>>
      BY <1>3 DEF OpenTemp, Goto, memory
    <2>4. QED BY <2>1, <2>2, <2>3, MoveOfLive, OthersStay DEF Kinds
  <1>4. ASSUME NEW p \in Processes, NEW k \in Kinds, WriteTemp(p, k)
        PROVE  StageInv'
    <2>1. p \in Live /\ at[p] = k /\ stage[p] = "write" /\ handle[p] \in Processes
      BY <1>4 DEF WriteTemp, Live, StageInv
    <2>2. /\ at' = [at EXCEPT ![p] = k] /\ stage' = [stage EXCEPT ![p] = "replace"]
          /\ UNCHANGED <<number, thread, handle, cases, vectors>>
      BY <1>4 DEF WriteTemp, Goto, memory
    <2>3. QED BY <2>1, <2>2, MoveOfLive, OthersStay DEF Kinds
  <1>5. ASSUME NEW p \in Processes, NEW k \in Kinds, Replace(p, k)
        PROVE  StageInv'
    <2>1. p \in Live /\ at[p] = k /\ stage[p] = "replace"
      BY <1>5 DEF Replace, Live
    <2>2. handle' = [handle EXCEPT ![p] = None] /\ cases' = cases
      BY <1>5 DEF Replace
    <2>3. CASE End(p, "failed") /\ UNCHANGED vectors
      BY <2>1, <2>2, <2>3, MoveOfLive, OthersStay DEF End, Kinds
    <2>4. CASE /\ \E next \in AfterFile(k) : Goto(p, next[1], next[2])
               /\ vectors' = IF k = "index" THEN [vectors EXCEPT ![p] = cases[p]] ELSE vectors
      <3>1. PICK next \in AfterFile(k) : Goto(p, next[1], next[2])
        BY <2>4
      <3>2. /\ at' = [at EXCEPT ![p] = next[1]] /\ stage' = [stage EXCEPT ![p] = next[2]]
            /\ UNCHANGED <<number, thread>>
        BY <3>1 DEF Goto
      <3>3. /\ next[1] \in {"cases", "manifest", "index", "done"} /\ next[2] \in {"open", "look"}
            /\ k = "index" => next[1] = "done"
            /\ next[1] \in {"cases", "manifest"} => k \in {"node", "cases"}
        BY <3>1 DEF AfterFile, Kinds
      <3>4. next[1] \in {"cases", "manifest"} => p \notin Cells
        BY <2>1, <3>3, MoveOfLive
      <3>5. vectors'[p] # None => at'[p] = "done" /\ vectors'[p] = cases'[p]
        BY <2>1, <2>2, <2>4, <3>2, <3>3, MoveOfLive
      <3>6. \A q \in Processes \ {p} : vectors'[q] = vectors[q]
        BY <2>4
      <3>7. /\ at'[p] \notin {"idle", "node"} /\ stage'[p] \notin {"write", "replace"}
            /\ number'[p] \in Numbers /\ thread'[p] \in Numbers
            /\ p \in Cells => at'[p] \notin {"cases", "manifest"}
        BY <2>1, <3>2, <3>3, <3>4, MoveOfLive
      <3>8. \A q \in Processes \ {p} :
               /\ at'[q] = at[q] /\ stage'[q] = stage[q] /\ number'[q] = number[q]
               /\ thread'[q] = thread[q] /\ handle'[q] = handle[q] /\ cases'[q] = cases[q]
        BY <2>2, <3>2
      <3>9. QED BY <3>5, <3>6, <3>7, <3>8, OthersStay
    <2>5. QED BY <1>5, <2>3, <2>4 DEF Replace
  <1>6. ASSUME NEW p \in Processes, RefuseBuild(p) PROVE StageInv'
    <2>1. at[p] = "idle" /\ vectors[p] = None
      BY <1>6 DEF RefuseBuild, StageInv
    <2>2. QED BY <1>6, <2>1, OthersStay DEF RefuseBuild, End, Kinds, memory
  <1>7. ASSUME NEW p \in Processes, Dies(p) PROVE StageInv'
    <2>1. p \in Live
      BY <1>7 DEF Dies
    <2>2. QED BY <1>7, <2>1, MoveOfLive, OthersStay DEF Dies, End, Kinds, memory
  <1>8. ASSUME NEW p \in Processes, GetNode(p) PROVE StageInv'
    <2>1. p \in Live /\ at[p] = "node" /\ UNCHANGED <<handle, cases, vectors>>
      BY <1>8 DEF GetNode, Live, Kinds, memory
    <2>2. p \notin Cells
      BY <2>1, MoveOfLive
    <2>3. QED BY <1>8, <2>1, <2>2, MoveOfLive, OthersStay DEF GetNode, Goto, End, Kinds
  <1>9. ASSUME NEW p \in Processes, LoadManifest(p) PROVE StageInv'
    <2>1. p \in Live /\ UNCHANGED <<handle, cases, vectors>>
      BY <1>9 DEF LoadManifest, Live, Kinds
    <2>2. CASE Goto(p, "cases", "look")
      BY <2>1, <2>2, MoveOfLive, OthersStay DEF Goto, Kinds
    <2>3. CASE End(p, "failed")
      BY <2>1, <2>3, MoveOfLive, OthersStay DEF End, Kinds
    <2>4. QED BY <1>9, <2>2, <2>3 DEF LoadManifest
  <1>10. ASSUME NEW p \in Processes, LoadCases(p) PROVE StageInv'
    <2>1. p \in Live /\ UNCHANGED <<handle, vectors>>
      BY <1>10 DEF LoadCases, Live, Kinds
    <2>2. \A q \in Processes \ {p} : cases'[q] = cases[q]
      BY <1>10 DEF LoadCases
    <2>3. CASE Goto(p, "index", "look")
      BY <2>1, <2>2, <2>3, MoveOfLive, OthersStay DEF Goto, Kinds
    <2>4. CASE End(p, "failed")
      BY <2>1, <2>2, <2>4, MoveOfLive, OthersStay DEF End, Kinds
    <2>5. QED BY <1>10, <2>3, <2>4 DEF LoadCases
  <1>11. ASSUME NEW p \in Processes, ReadIndex(p) PROVE StageInv'
    <2>1. p \in Live /\ UNCHANGED <<handle, cases>>
      BY <1>11 DEF ReadIndex, Live, Kinds
    <2>2. Usable(p) => IndexCases = cases[p]
      BY DEF Usable, IndexCases
    <2>3. CASE End(p, "done") /\ vectors' = [vectors EXCEPT ![p] = cases[p]]
      BY <2>1, <2>3, MoveOfLive, OthersStay DEF End, Kinds
    <2>4. CASE Goto(p, "index", "open") /\ UNCHANGED vectors
      BY <2>1, <2>4, MoveOfLive, OthersStay DEF Goto, Kinds
    <2>5. QED BY <1>11, <2>2, <2>3, <2>4 DEF ReadIndex
  <1>12. CASE UNCHANGED vars
    BY <1>12 DEF vars, setting, disk, memory, StageInv, Live
  <1>13. QED
    BY <1>1, <1>2, <1>3, <1>4, <1>5, <1>6, <1>7, <1>8, <1>9, <1>10, <1>11, <1>12 DEF Next

LEMMA StageInvariant == Spec => [](TypeInv /\ StageInv)
  <1>1. ASSUME Init PROVE TypeInv /\ StageInv
    BY <1>1 DEF Init, TypeInv, StageInv, Live, Inodes, Kinds, NoText
  <1>2. TypeInv /\ StageInv /\ [Next]_vars => TypeInv' /\ StageInv'
    BY TypeStep, StageStep
  <1>3. QED BY <1>1, <1>2, PTL DEF Spec

\* The embeddings a query is answered with are those of the cases it chooses
\* from, even between processes that share their numbers (retrievers.py
\* _bank_vectors).
THEOREM VectorsAreTheirs == Spec => []VectorsFitCases
  <1>1. StageInv => VectorsFitCases
    BY DEF StageInv, VectorsFitCases
  <1>2. QED BY <1>1, StageInvariant, PTL

----------------------------------------------------------------------------
(* Names. *)

LEMMA StartedNames ==
    ASSUME TypeInv, NamesInv, NEW p \in Processes, NEW n \in Numbers, NEW t \in Numbers,
           NEW k \in Kinds, Start(p, n, t, k), serial /\ p \in Builders => Live \cap Builders = {},
           UNCHANGED setting
    PROVE  NamesInv'
  <1>1. /\ number' = [number EXCEPT ![p] = n] /\ at' = [at EXCEPT ![p] = k]
        /\ serial' = serial /\ oneBox' = oneBox
        /\ oneBox => \A q \in Live : number[q] # n
    BY DEF Start, setting
  <1>2. \A q \in Live' : q = p \/ (q # p /\ q \in Live /\ number'[q] = number[q])
    BY <1>1 DEF Live, TypeInv
  <1>3. number'[p] = n
    BY <1>1 DEF TypeInv
  <1>4. QED BY <1>1, <1>2, <1>3 DEF NamesInv

LEMMA NamesStay ==
    ASSUME NamesInv, UNCHANGED setting, \A q \in Live' : q \in Live /\ number'[q] = number[q]
    PROVE  NamesInv'
  BY DEF NamesInv, setting

LEMMA NamesStep ==
    ASSUME TypeInv, NamesInv, [Next]_vars
    PROVE  NamesInv'
  <1>1. ASSUME NEW b \in Builders, NEW n \in Numbers, NEW t \in Numbers, StartBuild(b, n, t)
        PROVE  NamesInv'
    BY <1>1, StartedNames DEF StartBuild, Processes, Kinds
  <1>2. ASSUME NEW c \in Cells, NEW n \in Numbers, StartCell(c, n)
        PROVE  NamesInv'
    <2>1. c \in Processes /\ c \notin Builders
      BY NoneIsNobody DEF Processes
    <2>2. QED BY <1>2, <2>1, StartedNames DEF StartCell, Kinds
  <1>3. ASSUME NEW p \in Processes, at[p] \in Kinds, UNCHANGED setting,
               \/ \E k \in Kinds \cup {"done"}, s \in {"look", "open", "write", "replace"} : Goto(p, k, s)
               \/ \E how \in {"done", "failed", "dead"} : End(p, how)
        PROVE  NamesInv'
    <2>1. \A q \in Live' : q \in Live /\ number'[q] = number[q]
      BY <1>3 DEF Goto, End, Live, Kinds, TypeInv
    <2>2. QED BY <1>3, <2>1, NamesStay
  <1>4. ASSUME NEW p \in Processes, NEW k \in Kinds, OpenTemp(p, k) \/ WriteTemp(p, k)
        PROVE  NamesInv'
    BY <1>3, <1>4 DEF OpenTemp, WriteTemp
  <1>5. ASSUME NEW p \in Processes, NEW k \in Kinds, Replace(p, k)
        PROVE  NamesInv'
    <2>1. \A next \in AfterFile(k) : next[1] \in Kinds \cup {"done"} /\ next[2] \in {"open", "look"}
      BY DEF AfterFile, Kinds
    <2>2. (\E next \in AfterFile(k) : Goto(p, next[1], next[2])) \/ End(p, "failed")
      BY <1>5 DEF Replace
    <2>3. at[p] \in Kinds /\ UNCHANGED setting
      BY <1>5 DEF Replace
    <2>4. QED BY <1>3, <2>1, <2>2, <2>3
  <1>6. ASSUME NEW p \in Processes, RefuseBuild(p) PROVE NamesInv'
    <2>1. \A q \in Live' : q \in Live /\ number'[q] = number[q]
      BY <1>6 DEF RefuseBuild, End, Live, Kinds, TypeInv
    <2>2. QED BY <1>6, <2>1, NamesStay DEF RefuseBuild
  <1>7. ASSUME NEW p \in Processes, Dies(p) \/ GetNode(p) \/ LoadManifest(p)
        PROVE  NamesInv'
    BY <1>3, <1>7 DEF Dies, Live, GetNode, LoadManifest, Kinds
  <1>8. ASSUME NEW p \in Processes, LoadCases(p) \/ ReadIndex(p)
        PROVE  NamesInv'
    BY <1>3, <1>8 DEF LoadCases, ReadIndex, Kinds
  <1>9. CASE UNCHANGED vars
    BY <1>9 DEF vars, setting, NamesInv, Live
  <1>10. QED BY <1>1, <1>2, <1>4, <1>5, <1>6, <1>7, <1>8, <1>9 DEF Next

LEMMA NamesDiffer ==
    ASSUME TypeInv, StageInv, NamesInv, oneBox, NEW k \in Named,
           NEW p \in Processes, NEW q \in Processes, at[p] = k, at[q] = k, p # q
    PROVE  NameOf(p, k) # NameOf(q, k) /\ NameOf(p, k) \in Numbers /\ NameOf(q, k) \in Numbers
  <1>1. p \in Live /\ q \in Live /\ k \in Kinds
    BY DEF Live, Named
  <1>2. k = "node" => serial /\ p \in Builders /\ q \in Builders
    BY DEF Named, StageInv, Processes, Kinds
  <1>3. QED BY <1>1, <1>2, MoveOfLive DEF NamesInv, NameOf

----------------------------------------------------------------------------
(* Files. *)

\* Nobody goes back to a file.
LEMMA NobodyReopens ==
    ASSUME TypeInv, StageInv, Next
    PROVE  \A p \in Processes, k \in Kinds : NotOpened(p, k)' => NotOpened(p, k)
  <1> DEFINE Forward(p) == \A k \in Kinds : NotOpened(p, k)' => NotOpened(p, k)
  <1>1. ASSUME NEW p \in Processes,
               at' = [at EXCEPT ![p] = at'[p]], stage' = [stage EXCEPT ![p] = stage'[p]],
               Forward(p)
        PROVE  \A q \in Processes : Forward(q)
    BY <1>1 DEF NotOpened, TypeInv
  <1>2. ASSUME NEW p \in Processes, at[p] = "idle", UNCHANGED stage,
               NEW k \in Kinds, at' = [at EXCEPT ![p] = k]
        PROVE  \A q \in Processes : Forward(q)
    <2>1. Forward(p)
      BY <1>2 DEF NotOpened
    <2>2. QED BY <1>1, <1>2, <2>1 DEF TypeInv
  <1>3. ASSUME NEW p \in Processes, NEW how \in {"done", "failed", "dead"}, End(p, how)
        PROVE  \A q \in Processes : Forward(q)
    <2>1. at'[p] = how
      BY <1>3 DEF End, TypeInv
    <2>2. Forward(p)
      BY <2>1 DEF NotOpened, Kinds
    <2>3. QED BY <1>1, <1>3, <2>1, <2>2 DEF End, TypeInv
  <1>4. ASSUME NEW p \in Processes, at[p] \in Kinds,
               NEW k \in Kinds \cup {"done"}, NEW s \in {"look", "open", "write", "replace"},
               Goto(p, k, s),
               \/ k = at[p] /\ (s \in {"look", "open"} => stage[p] \in {"look", "open"})
               \/ k = "done"
               \/ <<at[p], k>> \in {<<"node", "cases">>, <<"cases", "manifest">>, <<"manifest", "index">>}
                  /\ p \notin Cells
               \/ p \in Cells /\ at[p] \in {"manifest", "cases"}
        PROVE  \A q \in Processes : Forward(q)
    <2>1. at'[p] = k /\ stage'[p] = s
      BY <1>4 DEF Goto, TypeInv
    <2>2. Forward(p)
      BY <1>4, <2>1 DEF NotOpened, Kinds
    <2>3. QED BY <1>1, <1>4, <2>1, <2>2 DEF Goto, TypeInv
  <1>5. ASSUME NEW p \in Processes, NEW k \in Kinds, Replace(p, k)
        PROVE  \A q \in Processes : Forward(q)
    <2>1. at[p] = k /\ stage[p] = "replace" /\ p \in Live
      BY <1>5 DEF Replace, Live
    <2>2. ASSUME NEW next \in AfterFile(k), Goto(p, next[1], next[2])
          PROVE  \A q \in Processes : Forward(q)
      <3>1. /\ next[1] \in Kinds \cup {"done"} /\ next[2] \in {"look", "open"}
            /\ \/ next[1] = "done"
               \/ <<k, next[1]>> \in {<<"node", "cases">>, <<"cases", "manifest">>, <<"manifest", "index">>}
        BY <2>2 DEF AfterFile, Kinds
      <3>2. next[1] # "done" => p \notin Cells
        BY <2>1, <3>1, MoveOfLive
      <3>3. QED BY <1>4, <2>1, <2>2, <3>1, <3>2
    <2>3. QED BY <1>3, <1>5, <2>2 DEF Replace
  <1>6. ASSUME NEW p \in Processes, NEW k \in Kinds, OpenTemp(p, k) \/ WriteTemp(p, k)
        PROVE  \A q \in Processes : Forward(q)
    BY <1>4, <1>6 DEF OpenTemp, WriteTemp
  <1>7. ASSUME NEW b \in Builders, NEW n \in Numbers, NEW t \in Numbers, StartBuild(b, n, t)
        PROVE  \A q \in Processes : Forward(q)
    BY <1>2, <1>7 DEF StartBuild, Start, Processes, Kinds
  <1>8. ASSUME NEW c \in Cells, NEW n \in Numbers, StartCell(c, n)
        PROVE  \A q \in Processes : Forward(q)
    BY <1>2, <1>8 DEF StartCell, Start, Processes, Kinds
  <1>9. ASSUME NEW p \in Processes, RefuseBuild(p) \/ Dies(p)
        PROVE  \A q \in Processes : Forward(q)
    BY <1>3, <1>9 DEF RefuseBuild, Dies
  <1>10. ASSUME NEW p \in Processes, GetNode(p)
        PROVE  \A q \in Processes : Forward(q)
    <2>1. at[p] = "node" /\ stage[p] = "look" /\ p \notin Cells
      BY <1>10 DEF GetNode, StageInv
    <2>2. CASE Goto(p, "node", "open")
      BY <1>4, <2>1, <2>2 DEF Kinds
    <2>3. CASE Goto(p, "cases", "open")
      BY <1>4, <2>1, <2>3 DEF Kinds
    <2>4. QED BY <1>3, <1>10, <2>2, <2>3 DEF GetNode
  <1>11. ASSUME NEW p \in Processes, LoadManifest(p) \/ LoadCases(p)
        PROVE  \A q \in Processes : Forward(q)
    <2>1. p \in Cells /\ at[p] \in {"manifest", "cases"}
      <3>1. CASE LoadManifest(p)
        BY <3>1 DEF LoadManifest
      <3>2. CASE LoadCases(p)
        BY <3>2 DEF LoadCases
      <3>3. QED BY <1>11, <3>1, <3>2
    <2>2. \/ Goto(p, "cases", "look") \/ Goto(p, "index", "look") \/ End(p, "failed")
      BY <1>11 DEF LoadManifest, LoadCases
    <2>3. QED BY <1>3, <1>4, <2>1, <2>2 DEF Kinds
  <1>12. ASSUME NEW p \in Processes, ReadIndex(p)
        PROVE  \A q \in Processes : Forward(q)
    <2>1. at[p] = "index" /\ stage[p] = "look"
      BY <1>12 DEF ReadIndex
    <2>2. CASE Goto(p, "index", "open")
      BY <1>4, <2>1, <2>2 DEF Kinds
    <2>3. QED BY <1>3, <1>12, <2>2 DEF ReadIndex
  <1>13. CASE UNCHANGED vars
    BY <1>13 DEF vars, NotOpened
  <1>14. QED
    BY <1>5, <1>6, <1>7, <1>8, <1>9, <1>10, <1>11, <1>12, <1>13 DEF Next

\* A step that leaves the files of kind k alone.
LEMMA KindStays ==
    ASSUME NEW k \in Kinds, KindInv(k),
           file'[k] = file[k], temp'[k] = temp[k], text'[k] = text[k],
           \A p \in Processes : NotOpened(p, k)' => NotOpened(p, k),
           \A p \in Processes : Writing(p, k)' =>
              /\ Writing(p, k) /\ stage'[p] = stage[p] /\ handle'[p] = handle[p]
              /\ NameOf(p, k)' = NameOf(p, k)
    PROVE  KindInv(k)'
  BY DEF KindInv, Exists, Whole

\* A process elsewhere keeps what it writes.
LEMMA WritersStay ==
    ASSUME TypeInv, NEW k \in Kinds, NEW p \in Processes,
           \/ \E j \in Kinds \cup {"done"}, s \in {"look", "open", "write", "replace"} : Goto(p, j, s)
           \/ \E how \in {"done", "failed", "dead"} : End(p, how)
           \/ \E n, t \in Numbers : \E j \in Kinds : Start(p, n, t, j) /\ stage[p] = "look",
           handle' = [handle EXCEPT ![p] = handle'[p]],
           Writing(p, k)' => Writing(p, k) /\ stage'[p] = stage[p] /\ handle'[p] = handle[p]
                             /\ NameOf(p, k)' = NameOf(p, k)
    PROVE  \A q \in Processes : Writing(q, k)' =>
              /\ Writing(q, k) /\ stage'[q] = stage[q] /\ handle'[q] = handle[q]
              /\ NameOf(q, k)' = NameOf(q, k)
  <1>1. ASSUME NEW q \in Processes, q # p
        PROVE  /\ at'[q] = at[q] /\ stage'[q] = stage[q] /\ handle'[q] = handle[q]
               /\ number'[q] = number[q] /\ thread'[q] = thread[q]
    BY <1>1 DEF Goto, End, Start, TypeInv
  <1>2. QED BY <1>1 DEF Writing, NameOf

\* The leftover of a dead process with the same number, or a file of its own: in
\* either case no other process has it.
LEMMA OpenKeeps ==
    ASSUME TypeInv, StageInv, NamesInv, oneBox, NEW k \in Named, KindInv(k),
           NEW p \in Processes, OpenTemp(p, k),
           \A q \in Processes : NotOpened(q, k)' => NotOpened(q, k)
    PROVE  KindInv(k)'
  <1> DEFINE n == NameOf(p, k)
  <1>1. /\ k \in Kinds /\ p \in Live /\ at[p] = k /\ stage[p] = "open" /\ NotOpened(p, k)
        /\ n \in Numbers
    BY MoveOfLive DEF OpenTemp, Named, Live, NotOpened, NameOf
  <1>2. PICK inode \in Processes :
            /\ inode = IF temp[k][n] = None THEN p ELSE temp[k][n]
            /\ temp' = [temp EXCEPT ![k][n] = inode]
            /\ handle' = [handle EXCEPT ![p] = inode]
            /\ text' = [text EXCEPT ![k][inode] = [by |-> p, whole |-> FALSE]]
    BY DEF OpenTemp
  <1>3. /\ file' = file /\ at' = [at EXCEPT ![p] = k] /\ stage' = [stage EXCEPT ![p] = "write"]
        /\ UNCHANGED <<number, thread>>
    BY DEF OpenTemp, Goto
  <1> DEFINE t == temp[k]
             u == temp'[k]
  <1>4. /\ t \in [Numbers -> Inodes] /\ u = [t EXCEPT ![n] = inode]
        /\ text'[k] = [text[k] EXCEPT ![inode] = [by |-> p, whole |-> FALSE]]
        /\ text[k] \in [Processes -> [by : Inodes, whole : BOOLEAN]]
    BY <1>1, <1>2 DEF TypeInv
  <1>5. /\ \A m \in Numbers : m # n => t[m] # inode
        /\ file[k] # inode /\ inode # None
    BY <1>1, <1>2, NoneIsNobody DEF KindInv
  <1> HIDE DEF n, t, u
  <1>6. \A l, m \in Numbers : u[l] # None /\ u[l] = u[m] => l = m
    BY <1>1, <1>4, <1>5 DEF KindInv, t
  <1>7. \A m \in Numbers : u[m] # None => u[m] # file'[k]
    BY <1>1, <1>3, <1>4, <1>5 DEF KindInv, t
  <1>8. ASSUME NEW q \in Processes, NotOpened(q, k)'
        PROVE  file'[k] # q /\ \A m \in Numbers : u[m] # q
    <2>1. NotOpened(q, k)
      BY <1>8
    <2>2. at'[p] = k /\ stage'[p] = "write"
      BY <1>3 DEF TypeInv
    <2>3. at[p] \in {"cases", "manifest"} => p \notin Cells
      BY <1>1, MoveOfLive
    <2>4. ~NotOpened(p, k)'
      BY <1>1, <2>2, <2>3 DEF NotOpened, Kinds
    <2>5. q # p
      BY <1>8, <2>4
    <2>6. file[k] # q /\ \A m \in Numbers : t[m] # q
      BY <2>1 DEF KindInv, t
    <2>7. inode # q
      BY <1>1, <1>2, <2>5, <2>6 DEF t
    <2>8. QED BY <1>1, <1>3, <1>4, <2>6, <2>7
  <1>9. ASSUME NEW q \in Processes, Writing(q, k)'
        PROVE  /\ u[NameOf(q, k)'] = handle'[q] /\ text'[k][handle'[q]].by = q
               /\ stage'[q] = "replace" => text'[k][handle'[q]].whole
    <2>1. NameOf(q, k)' = NameOf(q, k)
      BY <1>3 DEF NameOf
    <2>2. CASE q = p
      <3>1. handle'[q] = inode /\ stage'[q] = "write"
        BY <1>2, <1>3, <2>2 DEF TypeInv
      <3>2. u[n] = inode /\ text'[k][inode].by = p
        BY <1>1, <1>4
      <3>3. QED BY <2>1, <2>2, <3>1, <3>2 DEF n
    <2>3. CASE q # p
      <3>1. Writing(q, k) /\ stage'[q] = stage[q] /\ handle'[q] = handle[q] /\ at[q] = k
        BY <1>2, <1>3, <1>9, <2>3 DEF Writing, TypeInv
      <3>2. NameOf(q, k) # n /\ NameOf(q, k) \in Numbers
        BY <1>1, <2>3, <3>1, NamesDiffer DEF n
      <3>3. /\ t[NameOf(q, k)] = handle[q] /\ text[k][handle[q]].by = q
            /\ stage[q] = "replace" => text[k][handle[q]].whole
        BY <3>1 DEF KindInv, t
      <3>4. u[NameOf(q, k)] = handle[q] /\ handle[q] # inode
        BY <1>1, <1>4, <1>5, <3>2, <3>3
      <3>5. handle[q] \in Processes
        BY <1>1, <3>1 DEF StageInv, Live, Writing
      <3>6. text'[k][handle[q]] = text[k][handle[q]]
        BY <1>4, <3>4, <3>5
      <3>7. QED BY <2>1, <3>1, <3>3, <3>4, <3>6
    <2>4. QED BY <2>2, <2>3
  <1>10. (Exists(k) => Whole(k))'
    <2>1. ASSUME file[k] # None PROVE text'[k][file[k]].whole
      <3>1. text[k][file[k]].whole /\ file[k] \in Processes
        BY <1>1, <2>1 DEF KindInv, Exists, Whole, TypeInv, Inodes
      <3>2. QED BY <1>4, <1>5, <3>1
    <2>2. QED BY <1>3, <2>1 DEF Exists, Whole
  <1>11. QED BY <1>6, <1>7, <1>8, <1>9, <1>10 DEF KindInv, u

LEMMA WriteKeeps ==
    ASSUME TypeInv, StageInv, NamesInv, oneBox, NEW k \in Named, KindInv(k),
           NEW p \in Processes, WriteTemp(p, k),
           \A q \in Processes : NotOpened(q, k)' => NotOpened(q, k)
    PROVE  KindInv(k)'
  <1> DEFINE n == NameOf(p, k)
             inode == handle[p]
  <1>1. /\ k \in Kinds /\ p \in Live /\ at[p] = k /\ stage[p] = "write" /\ Writing(p, k)
        /\ n \in Numbers /\ inode \in Processes
    BY MoveOfLive DEF WriteTemp, Named, Live, Writing, NameOf, StageInv
  <1>2. temp[k][n] = inode /\ text[k][inode].by = p
    BY <1>1 DEF KindInv
  <1>3. /\ file' = file /\ temp' = temp /\ handle' = handle
        /\ at' = [at EXCEPT ![p] = k] /\ stage' = [stage EXCEPT ![p] = "replace"]
        /\ UNCHANGED <<number, thread>>
        /\ text' = [text EXCEPT ![k][inode] = [by |-> p, whole |-> TRUE]]
    BY <1>2 DEF WriteTemp, Goto
  <1>4. /\ text'[k] = [text[k] EXCEPT ![inode] = [by |-> p, whole |-> TRUE]]
        /\ text[k] \in [Processes -> [by : Inodes, whole : BOOLEAN]]
    BY <1>1, <1>3 DEF TypeInv
  <1>5. file[k] # inode
    BY <1>1, <1>2, NoneIsNobody DEF KindInv
  <1>6. ASSUME NEW q \in Processes, Writing(q, k)'
        PROVE  /\ temp[k][NameOf(q, k)'] = handle[q] /\ text'[k][handle[q]].by = q
               /\ stage'[q] = "replace" => text'[k][handle[q]].whole
    <2>1. NameOf(q, k)' = NameOf(q, k)
      BY <1>3 DEF NameOf
    <2>2. CASE q = p
      BY <1>1, <1>2, <1>4, <2>1, <2>2
    <2>3. CASE q # p
      <3>1. Writing(q, k) /\ stage'[q] = stage[q] /\ at[q] = k
        BY <1>3, <1>6, <2>3 DEF Writing, TypeInv
      <3>2. NameOf(q, k) # n /\ NameOf(q, k) \in Numbers
        BY <1>1, <2>3, <3>1, NamesDiffer
      <3>3. /\ temp[k][NameOf(q, k)] = handle[q] /\ text[k][handle[q]].by = q
            /\ stage[q] = "replace" => text[k][handle[q]].whole
        BY <3>1 DEF KindInv
      <3>4. handle[q] \in Processes
        BY <1>1, <3>1 DEF StageInv, Live, Writing
      <3>5. handle[q] # inode
        BY <1>1, <1>2, <3>2, <3>3, <3>4, NoneIsNobody DEF KindInv
      <3>6. QED BY <1>4, <2>1, <3>1, <3>3, <3>4, <3>5
    <2>4. QED BY <2>2, <2>3
  <1>7. (Exists(k) => Whole(k))'
    <2>1. ASSUME file[k] # None PROVE text'[k][file[k]].whole
      <3>1. text[k][file[k]].whole /\ file[k] \in Processes
        BY <1>1, <2>1 DEF KindInv, Exists, Whole, TypeInv, Inodes
      <3>2. QED BY <1>4, <1>5, <3>1
    <2>2. QED BY <1>3, <2>1 DEF Exists, Whole
  <1>8. QED BY <1>3, <1>6, <1>7 DEF KindInv

\* What is put in place is whole, and loses its name.
LEMMA ReplaceFacts ==
    ASSUME TypeInv, StageInv, oneBox, NEW k \in Named, KindInv(k),
           NEW p \in Processes, Replace(p, k)
    PROVE  /\ k \in Kinds /\ p \in Live /\ at[p] = k /\ NameOf(p, k) \in Numbers
           /\ handle[p] \in Processes /\ temp[k][NameOf(p, k)] = handle[p]
           /\ text[k][handle[p]].by = p /\ text[k][handle[p]].whole
           /\ file' = [file EXCEPT ![k] = handle[p]]
           /\ temp' = [temp EXCEPT ![k][NameOf(p, k)] = None]
           /\ handle' = [handle EXCEPT ![p] = None] /\ text' = text
           /\ \E next \in AfterFile(k) : Goto(p, next[1], next[2])
  <1>1. /\ k \in Kinds /\ p \in Live /\ at[p] = k /\ stage[p] = "replace" /\ Writing(p, k)
        /\ NameOf(p, k) \in Numbers /\ handle[p] \in Processes
    BY MoveOfLive DEF Replace, Named, Live, Writing, NameOf, StageInv
  <1>2. /\ temp[k][NameOf(p, k)] = handle[p] /\ text[k][handle[p]].by = p
        /\ text[k][handle[p]].whole
    BY <1>1 DEF KindInv
  <1>3. temp[k][NameOf(p, k)] # None
    BY <1>1, <1>2, NoneIsNobody
  <1>4. QED BY <1>1, <1>2, <1>3 DEF Replace

LEMMA ReplaceKeeps ==
    ASSUME TypeInv, StageInv, NamesInv, oneBox, NEW k \in Named, KindInv(k),
           NEW p \in Processes, Replace(p, k),
           \A q \in Processes : NotOpened(q, k)' => NotOpened(q, k)
    PROVE  KindInv(k)'
  <1> DEFINE n == NameOf(p, k)
             inode == handle[p]
  <1>1. /\ k \in Kinds /\ p \in Live /\ at[p] = k /\ n \in Numbers /\ inode \in Processes
        /\ temp[k][n] = inode /\ text[k][inode].whole
        /\ file' = [file EXCEPT ![k] = inode] /\ temp' = [temp EXCEPT ![k][n] = None]
        /\ handle' = [handle EXCEPT ![p] = None] /\ text' = text
        /\ \E next \in AfterFile(k) : Goto(p, next[1], next[2])
    BY ReplaceFacts
  <1>2. PICK next \in AfterFile(k) : Goto(p, next[1], next[2])
    BY <1>1
  <1>3. /\ at' = [at EXCEPT ![p] = next[1]] /\ stage' = [stage EXCEPT ![p] = next[2]]
        /\ UNCHANGED <<number, thread>> /\ next[2] \in {"open", "look"}
    <2>1. next[2] \in {"open", "look"}
      BY <1>1 DEF AfterFile, Kinds
    <2>2. QED BY <1>2, <2>1 DEF Goto
  <1> DEFINE t == temp[k]
             u == temp'[k]
  <1>4. /\ t \in [Numbers -> Inodes] /\ u = [t EXCEPT ![n] = None] /\ file'[k] = inode
        /\ t[n] = inode /\ inode # None
    BY <1>1, NoneIsNobody DEF TypeInv
  <1> HIDE DEF n, t, u, inode
  <1>5. \A l, m \in Numbers : u[l] # None /\ u[l] = u[m] => l = m
    BY <1>1, <1>4 DEF KindInv, t
  <1>6. \A m \in Numbers : u[m] # None => u[m] # file'[k]
    BY <1>1, <1>4 DEF KindInv, t
  <1>7. ASSUME NEW q \in Processes, NotOpened(q, k)'
        PROVE  file'[k] # q /\ \A m \in Numbers : u[m] # q
    <2>1. \A m \in Numbers : t[m] # q
      BY <1>7 DEF KindInv, t
    <2>2. q # None
      BY NoneIsNobody
    <2>3. QED BY <1>1, <1>4, <2>1, <2>2
  <1>8. ASSUME NEW q \in Processes, Writing(q, k)'
        PROVE  /\ u[NameOf(q, k)'] = handle'[q] /\ text[k][handle'[q]].by = q
               /\ stage'[q] = "replace" => text[k][handle'[q]].whole
    <2>1. NameOf(q, k)' = NameOf(q, k)
      BY <1>3 DEF NameOf
    <2>2. q # p
      BY <1>3, <1>8 DEF Writing, TypeInv
    <2>3. Writing(q, k) /\ stage'[q] = stage[q] /\ handle'[q] = handle[q] /\ at[q] = k
      BY <1>1, <1>3, <1>8, <2>2 DEF Writing, TypeInv
    <2>4. NameOf(q, k) # n /\ NameOf(q, k) \in Numbers
      BY <1>1, <2>2, <2>3, NamesDiffer DEF n
    <2>5. /\ t[NameOf(q, k)] = handle[q] /\ text[k][handle[q]].by = q
          /\ stage[q] = "replace" => text[k][handle[q]].whole
      BY <2>3 DEF KindInv, t
    <2>6. QED BY <1>4, <2>1, <2>3, <2>4, <2>5
  <1>9. (Exists(k) => Whole(k))'
    BY <1>1, <1>4 DEF Exists, Whole, inode
  <1>10. QED BY <1>1, <1>5, <1>6, <1>7, <1>8, <1>9 DEF KindInv, u

\* Another kind of file than the one p opens, writes or replaces.
LEMMA OtherKindStays ==
    ASSUME TypeInv, StageInv, NEW k \in Kinds, NEW j \in Kinds, j # k, KindInv(j),
           NEW p \in Processes, OpenTemp(p, k) \/ WriteTemp(p, k) \/ Replace(p, k),
           \A q \in Processes : NotOpened(q, j)' => NotOpened(q, j)
    PROVE  KindInv(j)'
  <1>1. at[p] = k /\ p \in Live /\ NameOf(p, k) \in Numbers
    BY MoveOfLive DEF OpenTemp, WriteTemp, Replace, Live, NameOf
  <1>2. file'[j] = file[j] /\ temp'[j] = temp[j] /\ text'[j] = text[j]
    <2>1. CASE OpenTemp(p, k)
      BY <2>1 DEF OpenTemp, TypeInv
    <2>2. CASE WriteTemp(p, k)
      BY <2>2 DEF WriteTemp, TypeInv
    <2>3. CASE Replace(p, k)
      BY <2>3 DEF Replace, disk, TypeInv
    <2>4. QED BY <2>1, <2>2, <2>3
  <1>3. handle' = [handle EXCEPT ![p] = handle'[p]]
    BY DEF OpenTemp, WriteTemp, Replace, TypeInv
  <1>4. CASE OpenTemp(p, k) \/ WriteTemp(p, k)
    <2>1. \E s \in {"look", "open", "write", "replace"} : Goto(p, k, s)
      BY <1>4 DEF OpenTemp, WriteTemp
    <2>2. at'[p] = k
      BY <2>1 DEF Goto, TypeInv
    <2>3. ~Writing(p, j)'
      BY <2>2 DEF Writing
    <2>4. QED BY <1>2, <1>3, <2>1, <2>3, WritersStay, KindStays
  <1>5. CASE Replace(p, k)
    <2>1. ASSUME NEW next \in AfterFile(k), Goto(p, next[1], next[2]) PROVE KindInv(j)'
      <3>1. next[1] \in Kinds \cup {"done"} /\ next[2] \in {"open", "look"}
        BY DEF AfterFile, Kinds
      <3>2. ~Writing(p, j)'
        BY <2>1, <3>1 DEF Goto, Writing, TypeInv
      <3>3. QED BY <1>2, <1>3, <2>1, <3>1, <3>2, WritersStay, KindStays
    <2>2. CASE End(p, "failed")
      <3>1. ~Writing(p, j)'
        BY <2>2 DEF End, Writing, TypeInv, Kinds
      <3>2. QED BY <1>2, <1>3, <2>2, <3>1, WritersStay, KindStays
    <2>3. QED BY <1>5, <2>1, <2>2 DEF Replace
  <1>6. QED BY <1>4, <1>5

\* A step that only starts, reads or ends.
LEMMA QuietKeeps ==
    ASSUME TypeInv, StageInv, NEW k \in Kinds, KindInv(k), NEW p \in Processes,
           UNCHANGED disk, \A q \in Processes : NotOpened(q, k)' => NotOpened(q, k),
           \/ /\ handle' = handle
              /\ \/ \E n, t \in Numbers : \E j \in Kinds : Start(p, n, t, j) /\ stage[p] = "look"
                 \/ \E j \in Kinds, s \in {"look", "open"} : Goto(p, j, s)
                 \/ \E how \in {"done", "failed"} : End(p, how)
           \/ Dies(p)
    PROVE  KindInv(k)'
  <1>1. file'[k] = file[k] /\ temp'[k] = temp[k] /\ text'[k] = text[k]
    BY DEF disk
  <1>2. ~Writing(p, k)' /\ handle' = [handle EXCEPT ![p] = handle'[p]]
    <2>1. CASE \E n, t \in Numbers : \E j \in Kinds : Start(p, n, t, j) /\ stage[p] = "look"
      BY <2>1 DEF Start, Writing, TypeInv
    <2>2. CASE handle' = handle /\ \E j \in Kinds, s \in {"look", "open"} : Goto(p, j, s)
      BY <2>2 DEF Goto, Writing, TypeInv
    <2>3. CASE handle' = handle /\ \E how \in {"done", "failed"} : End(p, how)
      BY <2>3 DEF End, Writing, TypeInv, Kinds
    <2>4. CASE Dies(p)
      BY <2>4 DEF Dies, End, Writing, TypeInv, Kinds
    <2>5. QED BY <2>1, <2>2, <2>3, <2>4 DEF Start
  <1>3. \A q \in Processes : Writing(q, k)' =>
              /\ Writing(q, k) /\ stage'[q] = stage[q] /\ handle'[q] = handle[q]
              /\ NameOf(q, k)' = NameOf(q, k)
    BY <1>2, WritersStay DEF Dies
  <1>4. QED BY <1>1, <1>3, KindStays

LEMMA FilesStep ==
    ASSUME TypeInv, StageInv, NamesInv, FilesInv, [Next]_vars
    PROVE  FilesInv'
  <1>1. CASE UNCHANGED vars
    BY <1>1 DEF vars, setting, disk, FilesInv, Named, KindInv, NotOpened, Writing, NameOf,
                Exists, Whole
  <1>2. CASE Next
    <2>1. UNCHANGED setting
      BY <1>2 DEF Next, StartBuild, StartCell, OpenTemp, WriteTemp, Replace, RefuseBuild,
                  GetNode, LoadManifest, LoadCases, ReadIndex, Dies, vars
    <2>2. SUFFICES ASSUME oneBox, NEW j \in Named PROVE KindInv(j)'
      BY <2>1 DEF FilesInv, Named, setting
    <2>3. KindInv(j) /\ j \in Kinds
      BY <2>2 DEF FilesInv, Named
    <2>4. \A q \in Processes : NotOpened(q, j)' => NotOpened(q, j)
      BY <1>2, <2>3, NobodyReopens
    <2>5. ASSUME NEW p \in Processes, NEW k \in Kinds,
                 OpenTemp(p, k) \/ WriteTemp(p, k) \/ Replace(p, k)
          PROVE  KindInv(j)'
      <3>1. CASE j = k
        BY <2>2, <2>3, <2>4, <2>5, <3>1, OpenKeeps, WriteKeeps, ReplaceKeeps
      <3>2. CASE j # k
        BY <2>3, <2>4, <2>5, <3>2, OtherKindStays
      <3>3. QED BY <3>1, <3>2
    <2>6. ASSUME NEW b \in Builders, NEW n \in Numbers, NEW t \in Numbers, StartBuild(b, n, t)
          PROVE  KindInv(j)'
      <3>1. b \in Processes
        BY DEF Processes
      <3>2. stage[b] = "look" /\ Start(b, n, t, "node") /\ UNCHANGED disk /\ handle' = handle
        BY <2>6, <3>1 DEF StartBuild, Start, StageInv
      <3>3. QED BY <2>3, <2>4, <3>1, <3>2, QuietKeeps DEF Kinds
    <2>7. ASSUME NEW c \in Cells, NEW n \in Numbers, StartCell(c, n) PROVE KindInv(j)'
      <3>1. c \in Processes
        BY DEF Processes
      <3>2. stage[c] = "look" /\ Start(c, n, n, "manifest") /\ UNCHANGED disk /\ handle' = handle
        BY <2>7, <3>1 DEF StartCell, Start, StageInv
      <3>3. QED BY <2>3, <2>4, <3>1, <3>2, QuietKeeps DEF Kinds
    <2>8. ASSUME NEW p \in Processes, RefuseBuild(p) \/ Dies(p) PROVE KindInv(j)'
      BY <2>3, <2>4, <2>8, QuietKeeps DEF RefuseBuild, Dies
    <2>9. ASSUME NEW p \in Processes, GetNode(p) PROVE KindInv(j)'
      <3>1. (\E i \in Kinds, s \in {"look", "open"} : Goto(p, i, s)) \/ End(p, "failed")
        BY <2>9 DEF GetNode, Kinds
      <3>2. QED BY <2>3, <2>4, <2>9, <3>1, QuietKeeps DEF GetNode
    <2>10. ASSUME NEW p \in Processes, LoadManifest(p) PROVE KindInv(j)'
      <3>1. (\E i \in Kinds, s \in {"look", "open"} : Goto(p, i, s)) \/ End(p, "failed")
        BY <2>10 DEF LoadManifest, Kinds
      <3>2. QED BY <2>3, <2>4, <2>10, <3>1, QuietKeeps DEF LoadManifest
    <2>11. ASSUME NEW p \in Processes, LoadCases(p) PROVE KindInv(j)'
      <3>1. (\E i \in Kinds, s \in {"look", "open"} : Goto(p, i, s)) \/ End(p, "failed")
        BY <2>11 DEF LoadCases, Kinds
      <3>2. QED BY <2>3, <2>4, <2>11, <3>1, QuietKeeps DEF LoadCases
    <2>12. ASSUME NEW p \in Processes, ReadIndex(p) PROVE KindInv(j)'
      <3>1. (\E i \in Kinds, s \in {"look", "open"} : Goto(p, i, s)) \/ End(p, "done")
        BY <2>12 DEF ReadIndex, Kinds
      <3>2. QED BY <2>3, <2>4, <2>12, <3>1, QuietKeeps DEF ReadIndex
    <2>13. CASE UNCHANGED vars
      <3>1. QED BY <1>1, <2>13, <2>1, <2>2 DEF FilesInv, Named, setting
    <2>14. QED
      BY <1>2, <2>5, <2>6, <2>7, <2>8, <2>9, <2>10, <2>11, <2>12, <2>13 DEF Next
  <1>3. QED BY <1>1, <1>2

StoreInv == TypeInv /\ StageInv /\ NamesInv /\ FilesInv

LEMMA StoreInvariant == Spec => []StoreInv
  <1>1. ASSUME Init PROVE TypeInv /\ StageInv
    BY <1>1 DEF Init, TypeInv, StageInv, Live, Inodes, Kinds, NoText
  <1>2. ASSUME Init PROVE NamesInv /\ FilesInv
    BY <1>2, NoneIsNobody
    DEF Init, NamesInv, Live, FilesInv, Named, KindInv, NotOpened, Writing, Exists, Kinds
  <1>3. StoreInv /\ [Next]_vars => StoreInv'
    BY TypeStep, StageStep, NamesStep, FilesStep DEF StoreInv
  <1>4. QED BY <1>1, <1>2, <1>3, PTL DEF Spec, StoreInv

\* Whatever the dead have left under a number that is used again, a reader sees a
\* whole file and a writer its own, as long as live writers differ in the number
\* their temporary names carry (writer.py NodeCache.put, bank.py build_bank,
\* retrievers.py _write_index).
THEOREM ReadersAreServedWhole == Spec => []ReadersSeeWhole
  <1>1. ASSUME StoreInv PROVE ReadersSeeWhole
    <2> SUFFICES ASSUME oneBox, NEW k \in Named
                 PROVE  /\ Exists(k) => Whole(k)
                        /\ \A p \in Processes :
                              at[p] = k /\ stage[p] = "replace" => temp[k][NameOf(p, k)] # None
      BY DEF ReadersSeeWhole, Named
    <2>1. KindInv(k) /\ k \in Kinds
      BY <1>1 DEF StoreInv, FilesInv, Named
    <2>2. ASSUME NEW p \in Processes, at[p] = k, stage[p] = "replace"
          PROVE  temp[k][NameOf(p, k)] # None
      <3>1. temp[k][NameOf(p, k)] = handle[p]
        BY <2>1, <2>2 DEF KindInv, Writing
      <3>2. handle[p] \in Processes
        BY <1>1, <2>1, <2>2 DEF StoreInv, StageInv, Live
      <3>3. QED BY <3>1, <3>2, NoneIsNobody
    <2>3. QED BY <2>1, <2>2 DEF KindInv
  <1>2. QED BY <1>1, StoreInvariant, PTL

----------------------------------------------------------------------------
(* One build. *)

\* Builds that do not overlap: a builder on its way was told to overwrite what is
\* there, one at its manifest wrote the cases, and cells of a bank that is never
\* forced load what belongs together.
BuildInv ==
    serial /\ oneBox =>
        /\ \A k \in {"cases", "manifest"} : Exists(k) => By(k) \in Builders
        /\ \A b \in Builders :
              /\ at[b] \in {"node", "cases", "manifest"} /\ Exists("manifest") => b \in force
              /\ at[b] = "manifest" => By("cases") = b
        /\ Exists("manifest") /\ By("cases") # By("manifest") =>
              By("cases") \in force /\ at[By("cases")] \in {"manifest", "dead"}
        /\ force = {} => \A c \in Cells :
              /\ manifest[c] # None => Exists("manifest") /\ manifest[c] = By("manifest")
              /\ cases[c] # None => cases[c] = manifest[c]
              /\ at[c] = "cases" => manifest[c] # None

\* A text that is in place is not touched; it can only be replaced.
LEMMA TextInPlace ==
    ASSUME StoreInv, serial, oneBox, NEW k \in Kinds, Next,
           \A p \in Processes : ~Replace(p, k)
    PROVE  By(k)' = By(k) /\ Exists(k)' = Exists(k)
  <1> USE DEF StoreInv
  <1>1. KindInv(k)
    BY DEF FilesInv, Named
  <1>2. ASSUME UNCHANGED disk PROVE By(k)' = By(k) /\ Exists(k)' = Exists(k)
    BY <1>2 DEF disk, By, Exists
  <1>3. ASSUME file'[k] = file[k], file[k] # None => text'[k][file[k]] = text[k][file[k]]
        PROVE  By(k)' = By(k) /\ Exists(k)' = Exists(k)
    BY <1>3 DEF By, Exists
  <1>4. file[k] # None => file[k] \in Processes
    BY DEF TypeInv, Inodes
  <1>5. ASSUME NEW p \in Processes, NEW j \in Kinds, OpenTemp(p, j)
        PROVE  By(k)' = By(k) /\ Exists(k)' = Exists(k)
    <2>1. PICK inode \in Processes :
              /\ inode = IF temp[j][NameOf(p, j)] = None THEN p ELSE temp[j][NameOf(p, j)]
              /\ text' = [text EXCEPT ![j][inode] = [by |-> p, whole |-> FALSE]]
      BY <1>5 DEF OpenTemp
    <2>2. file' = file
      BY <1>5 DEF OpenTemp
    <2>3. CASE j # k
      BY <1>3, <2>1, <2>2, <2>3 DEF TypeInv
    <2>4. CASE j = k
      <3>1. NameOf(p, k) \in Numbers /\ NotOpened(p, k)
        BY <1>5, <2>4, MoveOfLive DEF OpenTemp, NameOf, Live, NotOpened
      <3>2. inode # file[k]
        BY <1>1, <2>1, <2>4, <3>1 DEF KindInv
      <3>3. QED BY <1>3, <1>4, <2>1, <2>2, <2>4, <3>2 DEF TypeInv
    <2>5. QED BY <2>3, <2>4
  <1>6. ASSUME NEW p \in Processes, NEW j \in Kinds, WriteTemp(p, j)
        PROVE  By(k)' = By(k) /\ Exists(k)' = Exists(k)
    <2>1. PICK t : text' = [text EXCEPT ![j][handle[p]] = t]
      BY <1>6 DEF WriteTemp
    <2>2. file' = file
      BY <1>6 DEF WriteTemp
    <2>3. CASE j # k
      BY <1>3, <2>1, <2>2, <2>3 DEF TypeInv
    <2>4. CASE j = k
      <3>1. /\ NameOf(p, k) \in Numbers /\ Writing(p, k) /\ handle[p] \in Processes
        BY <1>6, <2>4, MoveOfLive DEF WriteTemp, NameOf, Live, Writing, StageInv
      <3>2. handle[p] # file[k]
        BY <1>1, <3>1, NoneIsNobody DEF KindInv
      <3>3. QED BY <1>3, <1>4, <2>1, <2>2, <2>4, <3>1, <3>2 DEF TypeInv
    <2>5. QED BY <2>3, <2>4
  <1>7. ASSUME NEW p \in Processes, NEW j \in Kinds, j # k, Replace(p, j)
        PROVE  By(k)' = By(k) /\ Exists(k)' = Exists(k)
    <2>1. file'[k] = file[k] /\ text' = text
      BY <1>7 DEF Replace, disk, TypeInv
    <2>2. QED BY <1>3, <2>1
  <1>8. ASSUME NEW p \in Processes,
               RefuseBuild(p) \/ GetNode(p) \/ LoadManifest(p) \/ LoadCases(p) \/ ReadIndex(p) \/ Dies(p)
        PROVE  By(k)' = By(k) /\ Exists(k)' = Exists(k)
    BY <1>2, <1>8 DEF RefuseBuild, GetNode, LoadManifest, LoadCases, ReadIndex, Dies
  <1>9. QED
    BY <1>2, <1>5, <1>6, <1>7, <1>8 DEF Next, StartBuild, StartCell, vars

\* What the steps other than a replacement do to builders and cells.
LEMMA BuilderSteps ==
    ASSUME StoreInv, Next, \A p \in Processes, k \in Kinds : ~Replace(p, k)
    PROVE  /\ \A b \in Builders :
                 /\ at'[b] \in {"node", "cases", "manifest"} =>
                       \/ at[b] \in {"node", "cases", "manifest"}
                       \/ ~Refused(b)
                 /\ at'[b] = "manifest" => at[b] = "manifest"
                 /\ at[b] = "manifest" => at'[b] \in {"manifest", "dead"}
                 /\ at[b] = "dead" => at'[b] = "dead"
           /\ \A c \in Cells :
                 \/ /\ manifest'[c] = manifest[c] /\ cases'[c] = cases[c]
                    /\ at'[c] = "cases" => at[c] = "cases"
                 \/ LoadManifest(c) \/ LoadCases(c)
  <1> USE DEF StoreInv, TypeInv
  <1>0. /\ Builders \subseteq Processes /\ Cells \subseteq Processes /\ Builders \cap Cells = {}
    BY NoneIsNobody DEF Processes
  <1>1. ASSUME NEW p \in Processes, NEW k \in Kinds, OpenTemp(p, k) \/ WriteTemp(p, k)
        PROVE  /\ at' = at /\ manifest' = manifest /\ cases' = cases
    BY <1>1 DEF OpenTemp, WriteTemp, Goto, memory
  <1>2. CASE \E p \in Processes, k \in Kinds : OpenTemp(p, k) \/ WriteTemp(p, k)
    BY <1>1, <1>2
  <1>3. ASSUME NEW b \in Builders, NEW n \in Numbers, NEW t \in Numbers, StartBuild(b, n, t)
        PROVE  /\ ~Refused(b) /\ at' = [at EXCEPT ![b] = "node"] /\ at[b] = "idle"
               /\ manifest' = [manifest EXCEPT ![b] = b] /\ cases' = [cases EXCEPT ![b] = b]
    BY <1>3 DEF StartBuild, Start
  <1>4. CASE \E b \in Builders, n, t \in Numbers : StartBuild(b, n, t)
    BY <1>0, <1>3, <1>4
  <1>5. CASE \E c \in Cells, n \in Numbers : StartCell(c, n)
    <2>1. PICK c \in Cells : /\ at' = [at EXCEPT ![c] = "manifest"]
                             /\ manifest' = manifest /\ cases' = cases
      BY <1>5 DEF StartCell, Start, memory
    <2>2. QED BY <1>0, <2>1
  <1>6. ASSUME NEW p \in Processes, RefuseBuild(p) \/ Dies(p)
        PROVE  /\ manifest' = manifest /\ cases' = cases
               /\ \/ at' = [at EXCEPT ![p] = "failed"] /\ at[p] = "idle"
                  \/ at' = [at EXCEPT ![p] = "dead"] /\ at[p] \in Kinds
    BY <1>6 DEF RefuseBuild, Dies, End, memory, Live
  <1>7. CASE \E p \in Processes : RefuseBuild(p) \/ Dies(p)
    BY <1>0, <1>6, <1>7 DEF Kinds
  <1>8. ASSUME NEW p \in Processes, GetNode(p)
        PROVE  /\ manifest' = manifest /\ cases' = cases
               /\ p \notin Cells /\ at[p] = "node"
               /\ \E a \in {"node", "cases", "failed"} : at' = [at EXCEPT ![p] = a]
    BY <1>8 DEF GetNode, Goto, End, memory, StageInv
  <1>9. CASE \E p \in Processes : GetNode(p)
    BY <1>0, <1>8, <1>9
  <1>10. ASSUME NEW p \in Processes, ReadIndex(p)
         PROVE  /\ manifest' = manifest /\ cases' = cases /\ at[p] = "index"
                /\ \E a \in {"done", "index"} : at' = [at EXCEPT ![p] = a]
    BY <1>10 DEF ReadIndex, Goto, End
  <1>11. CASE \E p \in Processes : ReadIndex(p)
    BY <1>0, <1>10, <1>11
  <1>12. ASSUME NEW c \in Cells, LoadManifest(c) \/ LoadCases(c)
         PROVE  /\ \A d \in Processes \ {c} :
                     at'[d] = at[d] /\ manifest'[d] = manifest[d] /\ cases'[d] = cases[d]
    BY <1>12 DEF LoadManifest, LoadCases, Goto, End
  <1>13. CASE \E c \in Cells : LoadManifest(c) \/ LoadCases(c)
    BY <1>0, <1>12, <1>13
  <1>14. CASE UNCHANGED vars
    BY <1>14 DEF vars, memory
  <1>15. \A p \in Processes : LoadManifest(p) \/ LoadCases(p) => p \in Cells
    BY DEF LoadManifest, LoadCases
  <1>16. QED
    BY <1>2, <1>4, <1>5, <1>7, <1>9, <1>11, <1>13, <1>14, <1>15 DEF Next

\* The manifest goes last: the cases beside it are the builder's own.
LEMMA BuildAfterReplace ==
    ASSUME StoreInv, BuildInv, serial, oneBox, UNCHANGED setting,
           NEW p \in Processes, NEW k \in Kinds, Replace(p, k)
    PROVE  BuildInv'
  <1> USE DEF StoreInv
  <1>1. k \in Named /\ KindInv(k)
    BY DEF FilesInv, Named
  <1>2. /\ at[p] = k /\ p \in Live /\ handle[p] \in Processes /\ text[k][handle[p]].by = p
        /\ file' = [file EXCEPT ![k] = handle[p]] /\ text' = text
        /\ \E next \in AfterFile(k) : Goto(p, next[1], next[2])
    BY <1>1, ReplaceFacts
  <1>3. PICK next \in AfterFile(k) : Goto(p, next[1], next[2])
    BY <1>2
  <1>4. at' = [at EXCEPT ![p] = next[1]]
    BY <1>3 DEF Goto
  <1>5. /\ By(k)' = p /\ Exists(k)'
        /\ \A j \in Kinds : j # k => By(j)' = By(j) /\ Exists(j)' = Exists(j)
    BY <1>2, NoneIsNobody DEF By, Exists, TypeInv
  <1>6. UNCHANGED <<manifest, cases, force, serial, oneBox>>
    BY DEF Replace, setting
  <1>7. \A b \in Builders : b \in Processes /\ (p \in Builders /\ b \in Live => b = p)
    BY <1>2 DEF NamesInv, Processes
  <1>8. \A c \in Cells : c \in Processes /\ c \notin Builders
    BY NoneIsNobody DEF Processes
  <1>9. at'[p] = next[1] /\ \A q \in Processes : q # p => at'[q] = at[q]
    BY <1>4 DEF TypeInv
  <1>10. k # "index" => p \in Builders
    <2>1. at[p] \in {"cases", "manifest"} /\ p \in Cells => stage[p] = "look"
      BY DEF StageInv
    <2>2. stage[p] = "replace"
      BY DEF Replace
    <2>3. QED BY <1>2, <2>1, <2>2, MoveOfLive DEF Processes, Kinds
  <1>i. /\ \A j \in {"cases", "manifest"} : Exists(j) => By(j) \in Builders
        /\ \A b \in Builders :
              /\ at[b] \in {"node", "cases", "manifest"} /\ Exists("manifest") => b \in force
              /\ at[b] = "manifest" => By("cases") = b
        /\ Exists("manifest") /\ By("cases") # By("manifest") =>
              By("cases") \in force /\ at[By("cases")] \in {"manifest", "dead"}
        /\ force = {} => \A c \in Cells :
              /\ manifest[c] # None => Exists("manifest") /\ manifest[c] = By("manifest")
              /\ cases[c] # None => cases[c] = manifest[c]
              /\ at[c] = "cases" => manifest[c] # None
    BY DEF BuildInv
  <1>k. {"node", "cases", "manifest"} \subseteq Kinds
    BY DEF Kinds
  \* The loaded bank is still the one in place, or no manifest was there to load.
  <1>c. ASSUME k # "manifest" \/ ~Exists("manifest") \/ force # {},
               at'[p] = "cases" => p \notin Cells
        PROVE  force = {} => \A c \in Cells :
                  /\ manifest[c] # None => Exists("manifest")' /\ manifest[c] = By("manifest")'
                  /\ cases[c] # None => cases[c] = manifest[c]
                  /\ at'[c] = "cases" => manifest[c] # None
    BY <1>5, <1>8, <1>9, <1>c, <1>i, <1>k
  <1>11. CASE k = "node"
    <2>1. at'[p] = "cases" /\ p \in Builders /\ p \notin Cells
      BY <1>3, <1>8, <1>9, <1>10, <1>11 DEF AfterFile
    <2>2. \A b \in Builders :
              /\ at'[b] \in {"node", "cases", "manifest"} /\ Exists("manifest")' => b \in force
              /\ at'[b] = "manifest" => By("cases")' = b
      BY <1>2, <1>5, <1>7, <1>9, <1>11, <1>i, <1>k, <2>1
    <2>3. Exists("manifest")' /\ By("cases")' # By("manifest")' =>
              By("cases")' \in force /\ at'[By("cases")'] \in {"manifest", "dead"}
      <3>1. at[By("cases")] \in {"manifest", "dead"} /\ By("cases") \in Builders => By("cases") # p
        BY <1>2, <1>11
      <3>2. force \subseteq Builders
        BY DEF TypeInv
      <3>3. QED BY <1>5, <1>7, <1>9, <1>11, <1>i, <1>k, <3>1, <3>2
    <2>4. \A j \in {"cases", "manifest"} : Exists(j)' => By(j)' \in Builders
      BY <1>5, <1>11, <1>i, <1>k
    <2>5. QED BY <1>6, <1>c, <1>11, <2>1, <2>2, <2>3, <2>4 DEF BuildInv
  <1>12. CASE k = "cases"
    <2>1. at'[p] = "manifest" /\ p \in Builders /\ p \notin Cells
      BY <1>3, <1>8, <1>9, <1>10, <1>12 DEF AfterFile
    <2>2. \A b \in Builders :
              /\ at'[b] \in {"node", "cases", "manifest"} /\ Exists("manifest")' => b \in force
              /\ at'[b] = "manifest" => By("cases")' = b
      <3>1. \A b \in Builders : b # p => at'[b] \notin {"node", "cases", "manifest"}
        BY <1>7, <1>9, <1>k, <2>1 DEF Live
      <3>2. QED BY <1>2, <1>5, <1>12, <1>i, <1>k, <2>1, <3>1
    <2>3. Exists("manifest")' => By("cases")' \in force /\ at'[By("cases")'] \in {"manifest", "dead"}
      BY <1>2, <1>5, <1>12, <1>i, <1>k, <2>1
    <2>4. \A j \in {"cases", "manifest"} : Exists(j)' => By(j)' \in Builders
      BY <1>5, <1>12, <1>i, <1>k, <2>1
    <2>5. QED BY <1>6, <1>c, <1>12, <2>1, <2>2, <2>3, <2>4 DEF BuildInv
  <1>13. CASE k = "manifest"
    <2>1. at'[p] \in {"index", "done"} /\ p \in Builders /\ p \notin Cells
      BY <1>3, <1>8, <1>9, <1>10, <1>13 DEF AfterFile
    <2>2. \A b \in Builders : at'[b] \notin {"node", "cases", "manifest"}
      BY <1>7, <1>9, <1>k, <2>1 DEF Live
    <2>3. By("cases")' = p /\ By("manifest")' = p
      BY <1>2, <1>5, <1>13, <1>i, <1>k, <2>1
    <2>4. \A j \in {"cases", "manifest"} : Exists(j)' => By(j)' \in Builders
      BY <2>1, <2>3
    <2>5. Exists("manifest") => force # {}
      BY <1>2, <1>13, <1>i, <2>1
    <2>6. QED BY <1>6, <1>c, <2>1, <2>2, <2>3, <2>4, <2>5 DEF BuildInv
  <1>14. CASE k = "index"
    <2>1. at'[p] = "done"
      BY <1>3, <1>9, <1>14 DEF AfterFile
    <2>2. \A b \in Builders :
              /\ at'[b] \in {"node", "cases", "manifest"} /\ Exists("manifest")' => b \in force
              /\ at'[b] = "manifest" => By("cases")' = b
      BY <1>5, <1>7, <1>9, <1>14, <1>i, <1>k, <2>1
    <2>3. Exists("manifest")' /\ By("cases")' # By("manifest")' =>
              By("cases")' \in force /\ at'[By("cases")'] \in {"manifest", "dead"}
      <3>1. force \subseteq Builders /\ (at[By("cases")] \in {"manifest", "dead"} => By("cases") # p)
        BY <1>2, <1>14 DEF TypeInv
      <3>2. QED BY <1>5, <1>7, <1>9, <1>14, <1>i, <1>k, <3>1
    <2>4. \A j \in {"cases", "manifest"} : Exists(j)' => By(j)' \in Builders
      BY <1>5, <1>14, <1>i, <1>k
    <2>5. QED BY <1>6, <1>c, <1>14, <2>1, <2>2, <2>3, <2>4 DEF BuildInv
  <1>15. QED BY <1>11, <1>12, <1>13, <1>14 DEF Kinds

LEMMA BuildStep ==
    ASSUME StoreInv, BuildInv, [Next]_vars
    PROVE  BuildInv'
  <1> USE DEF StoreInv
  <1>0. UNCHANGED setting
    BY DEF Next, StartBuild, StartCell, OpenTemp, WriteTemp, Replace, RefuseBuild,
           GetNode, LoadManifest, LoadCases, ReadIndex, Dies, vars
  <1>1. CASE UNCHANGED vars
    BY <1>1 DEF vars, setting, disk, memory, BuildInv, By, Exists
  <1>2. SUFFICES ASSUME Next, serial, oneBox PROVE BuildInv'
    BY <1>0, <1>1 DEF BuildInv, setting
  <1>3. CASE \E p \in Processes, k \in Kinds : Replace(p, k)
    BY <1>0, <1>2, <1>3, BuildAfterReplace
  <1>4. CASE \A p \in Processes, k \in Kinds : ~Replace(p, k)
    <2>1. \A k \in Kinds : By(k)' = By(k) /\ Exists(k)' = Exists(k)
      BY <1>2, <1>4, TextInPlace
    <2>2. UNCHANGED <<serial, oneBox, force>> /\ {"cases", "manifest"} \subseteq Kinds
      BY <1>0 DEF setting, Kinds
    <2>i. /\ \A j \in {"cases", "manifest"} : Exists(j) => By(j) \in Builders
          /\ \A b \in Builders :
                /\ at[b] \in {"node", "cases", "manifest"} /\ Exists("manifest") => b \in force
                /\ at[b] = "manifest" => By("cases") = b
          /\ Exists("manifest") /\ By("cases") # By("manifest") =>
                By("cases") \in force /\ at[By("cases")] \in {"manifest", "dead"}
          /\ force = {} => \A c \in Cells :
                /\ manifest[c] # None => Exists("manifest") /\ manifest[c] = By("manifest")
                /\ cases[c] # None => cases[c] = manifest[c]
                /\ at[c] = "cases" => manifest[c] # None
      BY <1>2 DEF BuildInv
    <2>3. \A b \in Builders :
              /\ at'[b] \in {"node", "cases", "manifest"} /\ Exists("manifest")' => b \in force
              /\ at'[b] = "manifest" => By("cases")' = b
      BY <1>2, <1>4, <2>1, <2>2, <2>i, BuilderSteps DEF Refused
    <2>4. Exists("manifest")' /\ By("cases")' # By("manifest")' =>
              By("cases")' \in force /\ at'[By("cases")'] \in {"manifest", "dead"}
      <3>1. force \subseteq Builders
        BY DEF TypeInv
      <3>2. QED BY <1>2, <1>4, <2>1, <2>2, <2>i, <3>1, BuilderSteps
    <2>5. ASSUME force = {}, NEW c \in Cells
          PROVE  /\ manifest'[c] # None => Exists("manifest") /\ manifest'[c] = By("manifest")
                 /\ cases'[c] # None => cases'[c] = manifest'[c]
                 /\ at'[c] = "cases" => manifest'[c] # None
      <3>1. c \in Processes
        BY DEF Processes
      <3>2. Exists("manifest") => By("cases") = By("manifest") /\ By("manifest") # None
        BY <2>5, <2>i, NoneIsNobody DEF Processes
      <3>3. CASE LoadManifest(c)
        <4>1. cases'[c] = cases[c] /\ at[c] = "manifest"
          BY <3>3 DEF LoadManifest
        <4>2. CASE Whole("manifest") /\ manifest'[c] = By("manifest")
          BY <2>5, <2>i, <3>2, <4>1, <4>2 DEF Whole
        <4>3. CASE End(c, "failed") /\ UNCHANGED manifest
          BY <2>5, <2>i, <3>1, <4>1, <4>3 DEF End, TypeInv
        <4>4. QED BY <3>1, <3>3, <4>2, <4>3 DEF LoadManifest, TypeInv
      <3>4. CASE LoadCases(c)
        <4>1. /\ at[c] = "cases" /\ manifest' = manifest /\ manifest[c] # None
              /\ at'[c] # "cases"
          BY <2>5, <2>i, <3>1, <3>4 DEF LoadCases, Goto, End, TypeInv
        <4>2. Exists("cases") => Whole("cases")
          BY <1>2, <2>2 DEF FilesInv, Named, KindInv
        <4>3. cases'[c] = By("cases") \/ cases'[c] = cases[c]
          BY <3>1, <3>4, <4>2 DEF LoadCases, TypeInv
        <4>4. By("cases") = manifest[c]
          BY <2>5, <2>i, <3>2, <4>1
        <4>5. QED BY <2>5, <2>i, <4>1, <4>3, <4>4
      <3>5. CASE /\ manifest'[c] = manifest[c] /\ cases'[c] = cases[c]
                 /\ at'[c] = "cases" => at[c] = "cases"
        BY <2>5, <2>i, <3>5
      <3>6. QED BY <1>2, <1>4, <3>3, <3>4, <3>5, BuilderSteps
    <2>6. QED BY <2>1, <2>2, <2>3, <2>4, <2>5, <2>i DEF BuildInv
  <1>5. QED BY <1>3, <1>4

\* The two files of a bank are not replaced in one step, so a bank may be torn
\* between two builds; but only by a build that was forced, while it is under way
\* or if it died there (bank.py build_bank, build_corpus.py build_corpus).
THEOREM BanksAreOneBuild == Spec => []BankIsOneBuild
  <1>1. ASSUME Init PROVE BuildInv
    BY <1>1, NoneIsNobody DEF Init, BuildInv, Exists, By, Kinds, Processes
  <1>2. StoreInv /\ BuildInv /\ [Next]_vars => BuildInv'
    BY BuildStep
  <1>3. BuildInv => BankIsOneBuild
    BY DEF BuildInv, BankIsOneBuild
  <1>4. QED BY <1>1, <1>2, <1>3, StoreInvariant, PTL DEF Spec
=============================================================================
