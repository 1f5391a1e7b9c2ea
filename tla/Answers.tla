-------------------------------- MODULE Answers --------------------------------
(***************************************************************************)
(* What Mosaic works out, as functions of what it is given: the verdict on *)
(* a request, the answer that states it, the passages and tool results it  *)
(* rests on, the page that shows it, the score it is given afterwards, and *)
(* the platforms all of it runs on.  A behaviour takes one question and    *)
(* puts it one input; the invariants say what the code may answer.         *)
(***************************************************************************)
EXTENDS Turns, Retrieval, Tools, Compliance, Outcome, Citations, Grounding, Served, Pages

Scores == INSTANCE Scoring
Evaluations == INSTANCE EvalRuns
Platforms == INSTANCE Provision
Operating == INSTANCE Dashboard

VARIABLES question, input

answersVars == <<question, input>>

NotPut == "not put"
Questions == {"policy", "answer", "evidence", "evaluation"}

AnswersInit == question \in Questions /\ input = <<NotPut>>

\* input is a part of the question and what that part is asked of.
Put(part, inputs) == input = <<NotPut>> /\ \E i \in inputs : input' = <<part, i>> /\ UNCHANGED question

(* Policy: rules.py, approvers.py, compliance.py. *)
ScoreRequest == question = "policy" /\ Put("rules", RuleInputs)
CountDays == question = "policy" /\ Put("dates", DateInputs)
ResolveApprover == question = "policy" /\ Put("approver", ApproverInputs)
StateVerdict == question = "policy" /\ Put("compliance", ComplianceInputs)
LookUpProfile == question = "policy" /\ Put("profile", ProfileInputs)

(* The answer: outcome.py, guardrails/, arithmetic.py, dates.py, snapshot.py,
   capability.py, entailment.py, the serving steps of orchestrator.py, api.py. *)
AccountForWrite == question = "answer" /\ Put("outcome", OutcomeInputs)
DropRepeats == question = "answer" /\ Put("dedupe", DedupeInputs)
CheckCitations == question = "answer" /\ Put("citations", CitationInputs)
CheckEvidence == question = "answer" /\ Put("g1", G1Inputs)
GatherEvidence == question = "answer" /\ Put("gather", GatherInputs)
CheckWorking == question = "answer" /\ Put("balance", BalanceInputs)
CountToDeadline == question = "answer" /\ Put("deadline", DeadlineInputs)
RewordSnapshot == question = "answer" /\ Put("snapshot", SnapshotInputs)
NameApprovers == question = "answer" /\ Put("approval", ApprovalInputs)
KeepSteps == question = "answer" /\ Put("steps", StepInputs)
ServeAnswer == question = "answer" /\ Put("serve", ServeInputs)
Redact == question = "answer" /\ Put("redact", RedactInputs)
ShowTurn == question = "answer" /\ Put("reload", AnswerInputs)
Visit == question = "answer" /\ Put("visit", VisitInputs)
CountSpans == question = "answer" /\ Put("counts", SpanInputs)

(* What the answer is made from: router.py, session.py, workflows/, answer_stream.py,
   rag/, mcpserver/tools/. *)
RouteMessage == question = "evidence" /\ Put("route", RouteInputs)
FollowUp == question = "evidence" /\ Put("session", SessionInputs)
AskBack == question = "evidence" /\ Put("clarify", ClarifyInputs)
OweTools == question = "evidence" /\ Put("debts", DebtInputs)
ScanStream == question = "evidence" /\ Put("stream", ScanInputs)
ParseDocument == question = "evidence" /\ Put("parse", ParseInputs)
ChunkDocument == question = "evidence" /\ Put("windows", WindowInputs)
Search == question = "evidence" /\ Put("search", SearchInputs)
ReadSection == question = "evidence" /\ Put("section", SectionInputs)
Write == question = "evidence" /\ Put("write", WriteInputs)
BuildIndex == question = "evidence" /\ Put("index", IngestInputs)

(* The evaluation, the platforms and the operator's pages: src/evaluation/, src/scripts/,
   dashboard.py. *)
AuditTurn == question = "evaluation" /\ Put("audit", Scores!AuditInputs)
ScoreItem == question = "evaluation" /\ Put("item", Scores!ItemInputs)
AskJudge == question = "evaluation" /\ Put("ask", Scores!AskInputs)
Judge == question = "evaluation" /\ Put("judge", Scores!JudgeInputs)
Drive == question = "evaluation" /\ Put("drive", Evaluations!DriveInputs)
ProbeCold == question = "evaluation" /\ Put("cold", Evaluations!ColdInputs)
Assemble == question = "evaluation" /\ Put("assemble", Evaluations!AssembleInputs)
PublishRun == question = "evaluation" /\ Put("publish", Evaluations!PublishInputs)
Ablate == question = "evaluation" /\ Put("ablation", Evaluations!AblationInputs)
ProvisionRender == question = "evaluation" /\ Put("render", Platforms!RenderInputs)
ProvisionTurso == question = "evaluation" /\ Put("turso", Platforms!TursoInputs)
ListPages == question = "evaluation" /\ Put("lists", Operating!ListInputs)
CountToolCalls == question = "evaluation" /\ Put("calls", Operating!CallInputs)
CountModelCalls == question = "evaluation" /\ Put("models", Operating!ModelInputs)
ShowRun == question = "evaluation" /\ Put("run", Operating!RunInputs)
CompareVariants == question = "evaluation" /\ Put("arms", Operating!CompareInputs)

AnswersNext ==
    \/ ScoreRequest \/ CountDays \/ ResolveApprover \/ StateVerdict \/ LookUpProfile
    \/ AccountForWrite \/ DropRepeats \/ CheckCitations \/ CheckEvidence \/ GatherEvidence \/ CheckWorking \/ CountToDeadline
    \/ RewordSnapshot \/ NameApprovers \/ KeepSteps \/ ServeAnswer \/ Redact \/ ShowTurn \/ Visit \/ CountSpans
    \/ RouteMessage \/ FollowUp \/ AskBack \/ OweTools \/ ScanStream \/ ParseDocument \/ ChunkDocument \/ Search
    \/ ReadSection \/ Write \/ BuildIndex
    \/ AuditTurn \/ ScoreItem \/ AskJudge \/ Judge \/ Drive \/ ProbeCold \/ Assemble \/ PublishRun \/ Ablate
    \/ ProvisionRender \/ ProvisionTurso \/ ListPages \/ CountToolCalls \/ CountModelCalls \/ ShowRun \/ CompareVariants

AnswersSpec == AnswersInit /\ [][AnswersNext]_answersVars

-----------------------------------------------------------------------------
Is(part) == input[1] = part

(***************************************************************************)
(* A request is permitted or refused only for what the requirements that   *)
(* bind it say of the facts that were given, its days are counted alike by *)
(* every rule, nobody approves what is their own, and a profile names the  *)
(* manager that an approval would (rules.evaluate, span_end,               *)
(* approvers.resolve, lookup_employee_profile).                            *)
(***************************************************************************)
VerdictsAreEarned ==
    /\ Is("rules") => VerdictIsEarned(input[2])
    /\ Is("dates") => SpansAgree(input[2])
    /\ Is("approver") => NobodyApprovesThemselves(input[2])
    /\ Is("profile") => OneManagerPerPerson(input[2])

(***************************************************************************)
(* An answer says of a verdict no more and no less than the engine did,    *)
(* gives one account of the write it is about, cites passages the index    *)
(* knows, none of them quarantined or altered in this turn, and keeps      *)
(* every citation it merges, does its sums and its dates as the records    *)
(* have them, names approvers that were resolved, shows no secret, and     *)
(* reads the same when its page is loaded again (outcome, G1 to G6,        *)
(* arithmetic, dates, snapshot, capability, entailment, _served,           *)
(* _rehydrate).                                                            *)
(***************************************************************************)
AnswersAreBacked ==
    /\ Is("compliance") => AnswerKeepsTheVerdict(input[2])
    /\ Is("outcome") => OneAccountOfTheWrite(input[2])
    /\ Is("dedupe") => SaidOnceAndCited(input[2])
    /\ Is("citations") => CitationsAreSound(input[2])
    /\ Is("g1") => EvidenceGate(input[2])
    /\ Is("gather") => EvidenceComesBack(input[2])
    /\ Is("balance") => WorkingsAreTheRecords(input[2])
    /\ Is("deadline") => DeadlinesAreCounted(input[2])
    /\ Is("snapshot") => OnlyTheSnapshotIsReworded(input[2])
    /\ Is("approval") => ApproversAreNamed(input[2])
    /\ Is("steps") => StepsStandOnTheAnswer(input[2])
    /\ Is("serve") => NothingDoneIsHidden(input[2])
    /\ Is("redact") => NoSecretIsShown(input[2])
    /\ Is("reload") => ReloadShowsTheTurn(input[2])
    /\ Is("visit") => OnlyOnesOwn(input[2])
    /\ Is("counts") => PagesCountAlike(input[2])

(***************************************************************************)
(* A message is routed to a workflow that may act on it and a follow-up    *)
(* keeps its subject, the answer read off a stream is the answer however   *)
(* the stream is cut, a passage is text of the document it is cited to     *)
(* under its own headings, a search leaves out no document it promised, a  *)
(* write is the one its card showed, and an index that opens is whole      *)
(* (router, session, workflows, answer_stream, rag, the MCP tools).        *)
(***************************************************************************)
EvidenceIsExact ==
    /\ Is("route") => RoutesAreSafe(input[2])
    /\ Is("session") => FollowUpsKeepTheirSubject(input[2])
    /\ Is("clarify") => AsksForWhatIsMissing(input[2])
    /\ Is("debts") => DebtsAreWhatCompletes(input[2])
    /\ Is("stream") => StreamIsTheAnswer(input[2])
    /\ Is("parse") => BlocksAreUnderTheirHeadings(input[2])
    /\ Is("windows") => WindowsCoverTheText(input[2])
    /\ Is("search") => SearchKeepsItsPromises(input[2])
    /\ Is("section") => SectionsAreInPlace(input[2])
    /\ Is("write") => FiledIsWhatWasShown(input[2])
    /\ Is("index") => BuildsAreWhole(input[2])

(***************************************************************************)
(* A turn is charged with the writes it made and no other's, a score is of *)
(* the evidence that was there, a judge that does not answer is not a      *)
(* verdict, a run drives only the target it names, every published figure  *)
(* is of the population it says, a page counts what it lists and the next  *)
(* page goes on where it ended, and a script that provisions a platform    *)
(* ends well only when the platform is as was agreed (evaluation, scripts, *)
(* dashboard.py).                                                          *)
(***************************************************************************)
FiguresAreEarned ==
    /\ Is("audit") => Scores!AuditIsJust(input[2])
    /\ Is("item") => Scores!ScoresAreEarned(input[2])
    /\ Is("ask") => Scores!QuestionsEnd(input[2])
    /\ Is("judge") => Scores!JudgementsAreFair(input[2])
    /\ Is("drive") => Evaluations!DrivesOnlyItsTarget(input[2])
    /\ Is("cold") => Evaluations!OneRowPerProbe(input[2])
    /\ Is("assemble") => Evaluations!RunSaysWhatWasScored(input[2])
    /\ Is("publish") => Evaluations!FiguresAreOfTheirPopulation(input[2])
    /\ Is("ablation") => Evaluations!ComparesLikeWithLike(input[2])
    /\ Is("render") => Platforms!ProvisionedAsAgreed(input[2])
    /\ Is("turso") => Platforms!OneDatabase(input[2])
    /\ Is("lists") => Operating!ListsAreTheStore(input[2])
    /\ Is("calls") => Operating!CallsAreCounted(input[2])
    /\ Is("models") => Operating!ModelCallsAreCounted(input[2])
    /\ Is("run") => Operating!RunPageIsTheRun(input[2])
    /\ Is("arms") => Operating!ArmsAreTheBest(input[2])
=============================================================================
