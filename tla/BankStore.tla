----------------------------- MODULE BankStore -----------------------------
(***************************************************************************)
(* bank.py, build_corpus.py, NodeCache and the embedding index as files:   *)
(* builders write a bank into a directory, cells on any box load it and    *)
(* may write its index.  A file is written under a temporary name, which   *)
(* carries a process number (a node's a thread number), and put in place   *)
(* by os.replace.  A process dies at any step.                             *)
(*                                                                         *)
(* An inode is named by the kind of the file and the process that created  *)
(* it; what counts of its text is who wrote it and whether it is whole.    *)
(* The cases of a build are named by the builder.                          *)
(***************************************************************************)
EXTENDS Integers, FiniteSets

CONSTANTS
    Builders,   \* processes that run build_corpus
    Cells,      \* cells of the arm that uses the bank
    Numbers,    \* process and thread numbers
    None, Cut   \* no file; a part of a torn cases.jsonl

ASSUME ProcessesAssumption ==
    Builders \cap Cells = {} /\ None # Cut /\ {None, Cut} \cap (Builders \cup Cells) = {}

VARIABLES
    serial,     \* no two builds overlap
    oneBox,     \* no two live processes have the same number
    force,      \* the builders with --force
    number, thread, \* of a live process
    at, stage,  \* of a process: the file it has come to, and what it does there
    temp,       \* temporary files: by kind and number, the inode
    file,       \* files in place: by kind, the inode
    text,       \* by inode
    handle,     \* the inode a process writes
    manifest, cases, \* what a process has built or loaded
    vectors     \* the cases its embeddings were made from

setting == <<serial, oneBox, force>>
disk == <<temp, file, text>>
memory == <<manifest, cases, vectors>>
vars == <<setting, number, thread, handle, at, stage, disk, memory>>

Processes == Builders \cup Cells
Kinds == {"node", "cases", "manifest", "index"}
Live == {p \in Processes : at[p] \in Kinds}
NoText == [by |-> None, whole |-> FALSE]

Init ==
    /\ serial \in BOOLEAN /\ oneBox \in BOOLEAN /\ force \in SUBSET Builders
    /\ at = [p \in Processes |-> "idle"] /\ stage = [p \in Processes |-> "look"]
    /\ temp = [k \in Kinds |-> [n \in Numbers |-> None]]
    /\ file = [k \in Kinds |-> None]
    /\ text = [k \in Kinds |-> [p \in Processes |-> NoText]]
    /\ number = [p \in Processes |-> None] /\ thread = number /\ handle = number
    /\ manifest = number /\ cases = number /\ vectors = number

Goto(p, k, s) ==
    /\ at' = [at EXCEPT ![p] = k] /\ stage' = [stage EXCEPT ![p] = s]
    /\ UNCHANGED <<number, thread>>

End(p, how) ==
    /\ at' = [at EXCEPT ![p] = how] /\ stage' = [stage EXCEPT ![p] = "look"]
    /\ number' = [number EXCEPT ![p] = None] /\ thread' = [thread EXCEPT ![p] = None]

Exists(k) == file[k] # None
Whole(k) == Exists(k) /\ text[k][file[k]].whole
By(k) == IF Exists(k) THEN text[k][file[k]].by ELSE None

----------------------------------------------------------------------------
(* Processes start; a builder refuses to overwrite a bank it was not told to. *)

Start(p, n, t, k) ==
    /\ at[p] = "idle"
    /\ oneBox => \A q \in Live : number[q] # n
    /\ number' = [number EXCEPT ![p] = n] /\ thread' = [thread EXCEPT ![p] = t]
    /\ at' = [at EXCEPT ![p] = k] /\ UNCHANGED <<stage, handle>>

Refused(b) == Exists("manifest") /\ b \notin force

RefuseBuild(b) ==
    /\ b \in Builders /\ at[b] = "idle" /\ Refused(b) /\ End(b, "failed")
    /\ UNCHANGED <<setting, handle, disk, memory>>

StartBuild(b, n, t) ==
    /\ b \in Builders /\ ~Refused(b) /\ Start(b, n, t, "node")
    /\ serial => Live \cap Builders = {}
    /\ manifest' = [manifest EXCEPT ![b] = b] /\ cases' = [cases EXCEPT ![b] = b]
    /\ UNCHANGED <<setting, disk, vectors>>

StartCell(c, n) ==
    /\ c \in Cells /\ Start(c, n, n, "manifest")
    /\ UNCHANGED <<setting, disk, memory>>

Dies(p) ==
    /\ p \in Live /\ End(p, "dead") /\ handle' = [handle EXCEPT ![p] = None]
    /\ UNCHANGED <<setting, disk, memory>>

----------------------------------------------------------------------------
(* Writing a file: open, write and close, replace. *)

NameOf(p, k) == IF k = "node" THEN thread[p] ELSE number[p]

\* Wrong variant: the file is opened in its place.
OpenInPlace(p, k) ==
    /\ at[p] = k /\ stage[p] = "open" /\ Goto(p, k, "write")
    /\ temp' = [temp EXCEPT ![k][NameOf(p, k)] = p] /\ file' = [file EXCEPT ![k] = p]
    /\ handle' = [handle EXCEPT ![p] = p]
    /\ text' = [text EXCEPT ![k][p] = [by |-> p, whole |-> FALSE]]
    /\ UNCHANGED <<setting, memory>>

\* What has the name already is truncated, whoever is writing it.
OpenTemp(p, k) ==
    /\ at[p] = k /\ stage[p] = "open" /\ Goto(p, k, "write")
    /\ \E inode \in Processes :
          /\ inode = IF temp[k][NameOf(p, k)] = None THEN p ELSE temp[k][NameOf(p, k)]
          /\ temp' = [temp EXCEPT ![k][NameOf(p, k)] = inode]
          /\ handle' = [handle EXCEPT ![p] = inode]
          /\ text' = [text EXCEPT ![k][inode] = [by |-> p, whole |-> FALSE]]
    /\ UNCHANGED <<setting, file, memory>>

\* Two writers of one inode may leave one text, or a mixture.
WriteTemp(p, k) ==
    /\ at[p] = k /\ stage[p] = "write" /\ Goto(p, k, "replace")
    /\ \E whole \in BOOLEAN :
          /\ text[k][handle[p]].by = p => whole
          /\ text' = [text EXCEPT ![k][handle[p]] = [by |-> p, whole |-> whole]]
    /\ UNCHANGED <<setting, temp, file, handle, memory>>

\* Wrong variant: the manifest goes first.
ManifestFirst(k) ==
    CASE k = "node" -> {<<"manifest", "open">>} [] k = "manifest" -> {<<"cases", "open">>}
      [] k = "cases" -> {<<"index", "look">>, <<"done", "look">>}
      [] k = "index" -> {<<"done", "look">>}

\* A build goes on to the index only with --embed-model.
AfterFile(k) ==
    CASE k = "node" -> {<<"cases", "open">>} [] k = "cases" -> {<<"manifest", "open">>}
      [] k = "manifest" -> {<<"index", "look">>, <<"done", "look">>}
      [] k = "index" -> {<<"done", "look">>}

\* The name may be gone by now: then os.replace raises.
Replace(p, k) ==
    /\ at[p] = k /\ stage[p] = "replace"
    /\ LET inode == temp[k][NameOf(p, k)] IN
       \/ inode = None /\ End(p, "failed") /\ UNCHANGED <<disk, vectors>>
       \/ /\ inode # None
          /\ file' = [file EXCEPT ![k] = inode]
          /\ temp' = [temp EXCEPT ![k][NameOf(p, k)] = None]
          /\ \E next \in AfterFile(k) : Goto(p, next[1], next[2])
          /\ vectors' = IF k = "index" THEN [vectors EXCEPT ![p] = cases[p]] ELSE vectors
          /\ UNCHANGED text
    /\ handle' = [handle EXCEPT ![p] = None]
    /\ UNCHANGED <<setting, manifest, cases>>

----------------------------------------------------------------------------
(* Reading. *)

\* A completion from the cache, or paid for; a torn node raises.
GetNode(b) ==
    /\ at[b] = "node" /\ stage[b] = "look"
    /\ \/ ~Exists("node") /\ Goto(b, "node", "open")
       \/ Exists("node") /\ ~Whole("node") /\ End(b, "failed")
       \/ Whole("node") /\ Goto(b, "cases", "open")
    /\ UNCHANGED <<setting, handle, disk, memory>>

LoadManifest(c) ==
    /\ c \in Cells /\ at[c] = "manifest" /\ stage[c] = "look"
    /\ \/ Whole("manifest") /\ Goto(c, "cases", "look")
          /\ manifest' = [manifest EXCEPT ![c] = By("manifest")]
       \/ ~Whole("manifest") /\ End(c, "failed") /\ UNCHANGED manifest
    /\ UNCHANGED <<setting, handle, disk, cases, vectors>>

\* A torn file raises, or is cut at the end of a line.
LoadCases(c) ==
    /\ c \in Cells /\ at[c] = "cases" /\ stage[c] = "look"
    /\ \/ Whole("cases") /\ Goto(c, "index", "look")
          /\ cases' = [cases EXCEPT ![c] = By("cases")]
       \/ Exists("cases") /\ ~Whole("cases") /\ Goto(c, "index", "look")
          /\ cases' = [cases EXCEPT ![c] = Cut]
       \/ ~Whole("cases") /\ End(c, "failed") /\ UNCHANGED cases
    /\ UNCHANGED <<setting, handle, disk, manifest, vectors>>

\* Wrong variant: an index of this model is good enough.
AnyIndex(p) == Whole("index")

\* Only a whole index of exactly these cases is read.
Usable(p) == Whole("index") /\ cases[By("index")] = cases[p] /\ cases[p] # Cut

IndexCases == cases[By("index")]

ReadIndex(p) ==
    /\ at[p] = "index" /\ stage[p] = "look"
    /\ \/ Usable(p) /\ End(p, "done")
          /\ vectors' = [vectors EXCEPT ![p] = IndexCases]
       \/ ~Usable(p) /\ Goto(p, "index", "open") /\ UNCHANGED vectors
    /\ UNCHANGED <<setting, handle, disk, manifest, cases>>

----------------------------------------------------------------------------

Next ==
    \/ \E b \in Builders, n, t \in Numbers : StartBuild(b, n, t)
    \/ \E c \in Cells, n \in Numbers : StartCell(c, n)
    \/ \E p \in Processes, k \in Kinds :
          OpenTemp(p, k) \/ WriteTemp(p, k) \/ Replace(p, k)
    \/ \E p \in Processes :
          RefuseBuild(p) \/ GetNode(p) \/ LoadManifest(p) \/ LoadCases(p) \/ ReadIndex(p) \/ Dies(p)
    \/ (\A p \in Processes : at[p] \notin Kinds \cup {"idle"}) /\ UNCHANGED vars

Spec == Init /\ [][Next]_vars

----------------------------------------------------------------------------
(* Properties. *)

\* Whoever rebuilds the bank or its index meanwhile, and on whatever box, the
\* embeddings a query is answered with are those of the cases it chooses from.
VectorsFitCases == \A p \in Processes : vectors[p] # None => vectors[p] = cases[p]

\* While builds do not overlap, a manifest stands beside the cases of its own
\* build, on disk and as a cell has loaded them, unless a forced build was under
\* way or died between the two files.
BankIsOneBuild ==
    serial /\ oneBox =>
        /\ Exists("manifest") /\ By("cases") # By("manifest") =>
              /\ By("cases") \in force
              /\ at[By("cases")] \in {"manifest", "dead"}
        /\ \A c \in Cells : cases[c] \notin {None, manifest[c]} => force # {}

\* With process numbers that differ a reader never sees a part of a file, and no
\* writer loses its own, whatever the dead have left; nodes carry a thread's
\* number and need builds that do not overlap.
ReadersSeeWhole ==
    oneBox =>
        \A k \in IF serial THEN Kinds ELSE Kinds \ {"node"} :
            /\ Exists(k) => Whole(k)
            /\ \A p \in Processes :
                  at[p] = k /\ stage[p] = "replace" => temp[k][NameOf(p, k)] # None
=============================================================================
