---------------------------- MODULE ForkDatabase ----------------------------
(***************************************************************************)
(* fork_database: the blocks a node knows of that are not yet irreversible.*)
(* It keeps the irreversible root, the not yet irreversible blocks that    *)
(* descend from it, which of them have been validated (applied to the      *)
(* state at least once), and the head: the validated block the node should *)
(* build on.  The database lives in memory; close() writes it to           *)
(* fork_db.dat and open() reads it back and removes the file.              *)
(***************************************************************************)
EXTENDS BlockTree, FiniteSets

VARIABLES
    root,       \* my->root
    head,       \* my->head
    index,      \* the blocks in my->index
    validated,  \* the blocks in my->index with block_state::validated
    saved       \* fork_db.dat: no record, or the one close() has written

fdbVars == <<root, head, index, validated, saved>>

-----------------------------------------------------------------------------
\* The part of the by_lib_block_num order below the validated flag.
IndexBefore(a, b) == FirstPreferred(a, b) \/ (SamePreference(a, b) /\ a < b)

\* b is the first element of S in that order.
IsFirst(b, S) == b \in S /\ \A c \in S \ {b} : IndexBefore(b, c)

\* The first element of by_lib_block_num when some block is validated.
BestOf(S) == CHOOSE b \in S : IsFirst(b, S)

\* get_block_header(id) finds the block.
Known(b) == b \in index \cup {root}

\* (mutant of PendingHead: only a single unvalidated block is considered)
PendingHeadOfLast ==
    IF Cardinality(index \ validated) = 1 /\ FirstPreferred(BestOf(index \ validated), head)
    THEN BestOf(index \ validated)
    ELSE head

\* pending_head(): the first unvalidated block when it is preferred to head.
PendingHead ==
    LET unvalidated == index \ validated
    IN  IF unvalidated # {} /\ FirstPreferred(BestOf(unvalidated), head)
        THEN BestOf(unvalidated)
        ELSE head

\* (mutant of FetchBranch: the blocks of the index by number alone)
FetchByNumber(h, n) == {a \in index : BlockNum[a] <= n}

\* fetch_branch: h and its ancestors, following previous inside the index,
\* up to block number n.
FetchBranch(h, n) ==
    {a \in Ancestors[h] :
        /\ BlockNum[a] <= n
        /\ \A c \in Ancestors[h] : BlockNum[c] >= BlockNum[a] => c \in index}

\* (mutant of RemoveQueue: by_prev is not searched)
RemoveAlone(id, ix) == {id}

\* remove(id)'s queue: id and what is reached from it through by_prev of ix.
RemoveQueue(id, ix) ==
    {id} \cup {b \in ix : id \in Ancestors[b] /\ Ancestors[b] \ Ancestors[id] \subseteq ix}

-----------------------------------------------------------------------------
(***************************************************************************)
(* fork_db.dat.  close() merges the unvalidated and the validated blocks,  *)
(* each from the least to the most preferred; open() adds the blocks in    *)
(* the order of the file and fails on one whose predecessor it has not yet *)
(* seen.                                                                   *)
(***************************************************************************)
DatFile == [root : Block, head : Block, index : SUBSET Block, validated : SUBSET Block]

\* (mutant of WrittenBefore: the flag decides before the preference)
WrittenByFlag(a, b, valid) ==
    \/ a \in valid /\ b \notin valid
    \/ (a \in valid <=> b \in valid) /\ FirstPreferred(b, a)

WrittenBefore(a, b, valid) ==
    \/ FirstPreferred(b, a)
    \/ SamePreference(a, b) /\ a \in valid /\ b \notin valid
    \/ SamePreference(a, b) /\ (a \in valid <=> b \in valid) /\ b < a

\* None of open()'s asserts fires on the file f.
OpenSucceeds(f) ==
    /\ \A b \in f.index :
         \/ Prev[b] = f.root
         \/ Prev[b] \in f.index /\ WrittenBefore(Prev[b], b, f.validated)
    /\ f.head \in f.index \cup {f.root}
    /\ IF f.validated = {}
       THEN f.head = f.root
       ELSE \A c \in f.validated : IsFirst(c, f.validated) => ~FirstPreferred(c, f.head)

-----------------------------------------------------------------------------
IsOpen == saved = {}

FdbInit ==
    /\ root = Genesis
    /\ head = Genesis
    /\ index = {}
    /\ validated = {}
    /\ saved = {}

\* add(): a new block must link to a known block; the first validated block
\* of the index, if there is one, becomes the head.
Add(b) ==
    /\ IsOpen
    /\ b # Genesis /\ b \notin index /\ Known(Prev[b])
    /\ index' = index \cup {b}
    /\ IF validated = {} THEN head' = head
       ELSE \E h \in validated : IsFirst(h, validated) /\ head' = h
    /\ UNCHANGED <<root, validated, saved>>

\* (mutants of MarkValid: the head does not move, or always does)
MarkValidOnly(b) ==
    /\ IsOpen
    /\ b \in index \ validated
    /\ validated' = validated \cup {b}
    /\ UNCHANGED <<root, head, index, saved>>

MarkValidTakesHead(b) ==
    /\ IsOpen
    /\ b \in index \ validated
    /\ validated' = validated \cup {b}
    /\ head' = b
    /\ UNCHANGED <<root, index, saved>>

\* mark_valid(): the head moves only to a strictly preferred block.
MarkValid(b) ==
    /\ IsOpen
    /\ b \in index \ validated
    /\ validated' = validated \cup {b}
    /\ \E c \in validated' :
         /\ IsFirst(c, validated')
         /\ head' = IF FirstPreferred(c, head) THEN c ELSE head
    /\ UNCHANGED <<root, index, saved>>

\* remove(): a block and everything built on it, never the head.
Remove(b) ==
    /\ IsOpen
    /\ b \in index
    /\ head \notin RemoveQueue(b, index)
    /\ index' = index \ RemoveQueue(b, index)
    /\ validated' = validated \ RemoveQueue(b, index)
    /\ UNCHANGED <<root, head, saved>>

\* (mutant of AdvanceRoot: the new root keeps its place among the validated)
AdvanceRootKeepsFlags(b) ==
    LET swept == RemoveQueue(root, index \ {b})
    IN  /\ IsOpen
        /\ b \in validated
        /\ head \notin swept
        /\ root' = b
        /\ index' = (index \ {b}) \ swept
        /\ validated' = validated \ swept
        /\ UNCHANGED <<head, saved>>

\* advance_root(): b leaves the index, then remove() is called on each of its
\* ancestors up to the old root, which erases every block not built on b.
\* The callers advance only to a block the head is built on: remove() would
\* otherwise throw half way through.
AdvanceRoot(b) ==
    LET swept == RemoveQueue(root, index \ {b})
    IN  /\ IsOpen
        /\ b \in validated
        /\ head \notin swept
        /\ root' = b
        /\ index' = (index \ {b}) \ swept
        /\ validated' = (validated \ {b}) \ swept
        /\ UNCHANGED <<head, saved>>

RollbackHeadToRoot ==
    /\ IsOpen
    /\ validated' = {}
    /\ head' = root
    /\ UNCHANGED <<root, index, saved>>

Reset(b) ==
    /\ IsOpen
    /\ root' = b
    /\ head' = b
    /\ index' = {}
    /\ validated' = {}
    /\ UNCHANGED saved

\* The database as close() would write it now.
Contents == [root |-> root, head |-> head, index |-> index, validated |-> validated]

Close ==
    /\ IsOpen
    /\ saved' = {Contents}
    /\ index' = {}
    /\ validated' = {}
    /\ UNCHANGED <<root, head>>

Open ==
    \E f \in saved :
        /\ OpenSucceeds(f)
        /\ root' = f.root
        /\ head' = f.head
        /\ index' = f.index
        /\ validated' = f.validated
        /\ saved' = {}

FdbNext ==
    \/ \E b \in Block : Add(b)
    \/ \E b \in Block : MarkValid(b)
    \/ \E b \in Block : Remove(b)
    \/ \E b \in Block : AdvanceRoot(b)
    \/ RollbackHeadToRoot
    \/ \E b \in Block : Reset(b)
    \/ Close
    \/ Open

FdbSpec == FdbInit /\ [][FdbNext]_fdbVars

-----------------------------------------------------------------------------
\* The types of fork_database_impl's members; only a block of the index is
\* validated (is_valid() is read from the blocks of my->index).
FdbTypeOK ==
    /\ root \in Block
    /\ head \in Block
    /\ index \subseteq Block \ {Genesis}
    /\ validated \subseteq index
    /\ saved \subseteq DatFile

\* Every block of ix is built on r through blocks of ix.
LinkedTo(r, ix) ==
    \A b \in ix : Prev[b] \in ix \cup {r} /\ b # r /\ r \in Ancestors[b]

\* No orphaned branch: every block of the index is built on the root through
\* blocks of the index (advance_root asserts it: "invariant violation:
\* orphaned branch was present in forked database").
Linked == LinkedTo(root, index)

\* h is a best block of v, and r when v is empty.
BestValidated(r, h, v) ==
    /\ v = {} => h = r
    /\ v # {} => h \in v /\ \A b \in v : ~FirstPreferred(b, h)

\* The head is a validated block that no validated block is preferred to, and
\* it is the root only when nothing is validated (what add, mark_valid, remove
\* and advance_root keep between them, and open() asserts of a file).
HeadIsBestValidated == IsOpen => BestValidated(root, head, validated)

\* pending_head() returns a known block that no block of the index is
\* preferred to, whatever their validated flags.
PendingHeadIsBest ==
    IsOpen => Known(PendingHead) /\ \A b \in index : ~FirstPreferred(b, PendingHead)

\* open() accepts whatever close() writes, in every state close() may be
\* called in: no block comes before its predecessor and the head is a best one.
ReopenSucceeds ==
    /\ IsOpen => OpenSucceeds(Contents)
    /\ \A f \in saved : OpenSucceeds(f)

\* No step but a rollback or a reset leaves the head for a less preferred one.
HeadNeverWorsens ==
    [][FirstPreferred(head, head') => validated' = {} /\ head' = root']_fdbVars
=============================================================================
