----------------------------- MODULE TraceArchive -----------------------------
(***************************************************************************)
(* archive.import_results: every committed run object is read, digested,   *)
(* and imported in one batch (the run's row, its results, its              *)
(* import_state) unless import_state has that digest.  The server's        *)
(* maintenance thread runs it, and so does an evaluation in a process of   *)
(* its own once it has rewritten its file.  A file carries one run; a      *)
(* rewrite may fall between another importer's read and its digest.        *)
(***************************************************************************)
EXTENDS Integers, FiniteSets

CONSTANTS
    Importers,       \* the processes that import
    ResultFiles,     \* evaluation/results/*.json, one for each run
    MaxVersion       \* bound: how often the files are rewritten, all together

ASSUME ArchiveConstants == MaxVersion \in Nat

VARIABLES
    disk,          \* each file: the version of its bytes and whether they are a run object
    written,       \* the last version written
    import,        \* each importer's pass: the files still to look at, what it knows, its file
    import_state,  \* each path's digest
    eval_results,  \* the version whose items are stored for the run of each file
    torn           \* history: the files replaced between their read and their digest

archiveVars == <<disk, written, import, import_state, eval_results, torn>>

\* What the bytes are: a run object, an aggregate (some other JSON), or no JSON.
Kinds == {"run", "aggregate", "broken"}

_sha256(document) == document.version
_is_run_object(document) == document.kind = "run"

NoDigest == -1
Resting == [at |-> "rest"]

ArchiveInit ==
    /\ disk \in [ResultFiles -> [kind : Kinds, version : {0}]]
    /\ written = 0
    /\ import = [i \in Importers |-> Resting]
    /\ import_state = [f \in ResultFiles |-> NoDigest]
    /\ eval_results = [f \in ResultFiles |-> NoDigest]
    /\ torn = {}

ImportBegins(i) ==
    /\ import[i].at = "rest"
    /\ import' = [import EXCEPT ![i] = [at |-> "next", todo |-> ResultFiles, known |-> import_state]]
    /\ UNCHANGED <<disk, written, import_state, eval_results, torn>>

NextFile(p) == [at |-> "next", todo |-> p.todo, known |-> p.known]

\* One file at a time: a broken one fails, an aggregate is ignored.
ReadResults(i, f) ==
    /\ import[i].at = "next" /\ f \in import[i].todo
    /\ LET p == import[i] IN
       import' = [import EXCEPT ![i] =
           IF _is_run_object(disk[f])
           THEN [at |-> "read", todo |-> p.todo \ {f}, known |-> p.known, file |-> f, document |-> disk[f]]
           ELSE [at |-> "next", todo |-> p.todo \ {f}, known |-> p.known]]
    /\ UNCHANGED <<disk, written, import_state, eval_results, torn>>

\* The digest is of the bytes the file has now, and is compared with what
\* import_state said when the pass began.
DigestResults(i) ==
    /\ import[i].at = "read"
    /\ LET p == import[i]
           digest == _sha256(disk[p.file])
           again == p.known[p.file] = digest
       IN /\ import' = [import EXCEPT ![i] =
                  IF again THEN NextFile(p)
                  ELSE [at |-> "import", todo |-> p.todo, known |-> p.known, file |-> p.file,
                        document |-> p.document, digest |-> digest]]
          /\ torn' = IF ~again /\ digest # _sha256(p.document) THEN torn \cup {p.file} ELSE torn
    /\ UNCHANGED <<disk, written, import_state, eval_results>>

\* Faulty: import_state is written after the batch, whatever came of it.
ImportThenState(i, committed) ==
    /\ import[i].at = "import"
    /\ LET p == import[i] IN
       /\ import' = [import EXCEPT ![i] = NextFile(p)]
       /\ import_state' = [import_state EXCEPT ![p.file] = p.digest]
       /\ eval_results' = IF committed THEN [eval_results EXCEPT ![p.file] = _sha256(p.document)]
                          ELSE eval_results
    /\ UNCHANGED <<disk, written, torn>>

\* The batch commits or does not; an error is that file's own, and the pass goes on.
_import_run(i, committed) ==
    /\ import[i].at = "import"
    /\ LET p == import[i] IN
       /\ import' = [import EXCEPT ![i] = NextFile(p)]
       /\ IF committed
          THEN /\ eval_results' = [eval_results EXCEPT ![p.file] = _sha256(p.document)]
               /\ import_state' = [import_state EXCEPT ![p.file] = p.digest]
          ELSE UNCHANGED <<eval_results, import_state>>
    /\ UNCHANGED <<disk, written, torn>>

ImportEnds(i) ==
    /\ import[i].at = "next" /\ import[i].todo = {}
    /\ import' = [import EXCEPT ![i] = Resting]
    /\ UNCHANGED <<disk, written, import_state, eval_results, torn>>

RewriteResults(f, kind) ==
    /\ written < MaxVersion
    /\ written' = written + 1
    /\ disk' = [disk EXCEPT ![f] = [kind |-> kind, version |-> written + 1]]
    /\ UNCHANGED <<import, import_state, eval_results, torn>>

ArchiveNext ==
    \/ \E i \in Importers : ImportBegins(i) \/ DigestResults(i) \/ ImportEnds(i)
    \/ \E i \in Importers, f \in ResultFiles : ReadResults(i, f)
    \/ \E i \in Importers, committed \in BOOLEAN : _import_run(i, committed)
    \/ \E f \in ResultFiles, kind \in Kinds : RewriteResults(f, kind)

-----------------------------------------------------------------------------
(***************************************************************************)
(* What import_state vouches for is what eval_results holds, whatever two  *)
(* importers do to each other, so that a skipped file is never one whose   *)
(* results are missing or of other bytes.  The exception is a file that    *)
(* was replaced between its read and its digest (import_results): its new  *)
(* bytes are vouched for by the old ones' results.                         *)
(***************************************************************************)
VouchedForIsStored ==
    \A f \in ResultFiles :
        /\ f \notin torn => import_state[f] = eval_results[f]
        /\ import_state[f] # NoDigest => eval_results[f] # NoDigest
=============================================================================
