--------------------------- MODULE MCSafetyParts ---------------------------
(***************************************************************************)
(* Small instances for TLC, side by side, of six components of which       *)
(* safety is checked: RedisAdapter, Finalization, EventPages, Board,       *)
(* CacheBudget and LiveView.  They share no state, and in a behaviour only *)
(* the one that Init chose moves.                                          *)
(***************************************************************************)
EXTENDS RedisAdapterProps, FinalizationProps, EventPagesProps, BoardProps,
        CacheBudgetProps, LiveViewProps

VARIABLE part

MCVars == <<part, vars, finalizationVars, pagesVars, boardVars, budgetVars, viewVars>>

Adapting(A) ==
  part = "adapter" /\ A /\
  UNCHANGED <<part, finalizationVars, pagesVars, boardVars, budgetVars, viewVars>>

Finalizing(A) ==
  part = "finalization" /\ A /\
  UNCHANGED <<part, vars, pagesVars, boardVars, budgetVars, viewVars>>

Paging(A) ==
  part = "pages" /\ A /\
  UNCHANGED <<part, vars, finalizationVars, boardVars, budgetVars, viewVars>>

Projecting(A) ==
  part = "board" /\ A /\
  UNCHANGED <<part, vars, finalizationVars, pagesVars, budgetVars, viewVars>>

Budgeting(A) ==
  part = "budget" /\ A /\
  UNCHANGED <<part, vars, finalizationVars, pagesVars, boardVars, viewVars>>

Viewing(A) ==
  part = "view" /\ A /\
  UNCHANGED <<part, vars, finalizationVars, pagesVars, boardVars, budgetVars>>

\* Bound: the cache writes out several answers only of one contest, while the others
\* are closed and their hydrations have ended.
MayAnswer(c) ==
  \/ \A r \in Responses : responses[r] = NoResponse
  \/ \A d \in Contests \ {c} : ~entry[d].usable /\ Underway(d, flight) = {}

MCInit ==
  /\ part \in {"adapter", "finalization", "pages", "board", "budget", "view"}
  /\ Init /\ FinalizationInit /\ PagesInit /\ BoardInit /\ BudgetInit /\ ViewInit
  /\ part # "view" => ~scrolling /\ page = CHOOSE p \in [key : Keys, data : {NoKey}] : TRUE

MCNext ==
  \/ Adapting(StartReconcile)
  \/ Adapting(ReadReconcile)
  \/ Adapting(FailReconcile)
  \/ Adapting(FinishReconcile)
  \/ Adapting(Commit)
  \/ Adapting(PublishInvalid)
  \/ \E w \in unsent : Adapting(Publish(w))
  \/ \E w \in unsent : Adapting(FailPublish(w))
  \/ Adapting(ExecuteSubscribe)
  \/ Adapting(RejectSubscribe)
  \/ Adapting(LoseConnection)
  \/ Adapting(Start)
  \/ Adapting(HandleReady)
  \/ Adapting(HandleReadyThrows)
  \/ \E a \in answers : Adapting(HandleAnswer(a))
  \/ Adapting(ReceiveAck)
  \/ Adapting(HandleMessage)
  \/ Adapting(HandleConnectionError)
  \/ Adapting(HandleConnectionClosed)
  \/ Adapting(Stop)
  \/ \E f \in Files : Finalizing(StoreObject(f))
  \/ \E f \in Files : Finalizing(Uploaded(f))
  \/ \E f \in Files : Finalizing(UploadFails(f))
  \/ \E f \in Files : Finalizing(AttachFile(f))
  \/ \E f \in Files : Finalizing(DeleteFile(f))
  \/ \E f \in Files : Finalizing(Die(f))
  \/ \E q \in Finalizers : Finalizing(FinalizeRefused(q))
  \/ \E q \in Finalizers : Finalizing(AlreadyFinal(q))
  \/ \E q \in Finalizers : Finalizing(LockContest(q))
  \/ \E q \in Finalizers : Finalizing(Generate(q))
  \/ \E q \in Finalizers : Finalizing(GenerateFails(q))
  \/ \E q \in Finalizers : Finalizing(SendCommit(q))
  \/ \E q \in Finalizers : Finalizing(StatementFails(q))
  \/ \E q \in Finalizers : Finalizing(Committed(q))
  \/ \E q \in Finalizers : Finalizing(CommitFails(q))
  \/ \E q \in Finalizers : Finalizing(RolledBack(q))
  \/ \E q \in Finalizers : Finalizing(RollbackFails(q))
  \/ \E q \in Finalizers : Finalizing(ExecuteCommit(q))
  \/ \E q \in Finalizers : Finalizing(EndSession(q))
  \/ \E q \in Finalizers : Finalizing(ReconcileUpload(q))
  \/ \E q \in Finalizers : Finalizing(ReconcileFails(q))
  \/ \E q \in Finalizers : Finalizing(RemoveUploaded(q))
  \/ \E q \in Finalizers : Finalizing(RemoveFails(q))
  \/ \E u \in Uploads : Finalizing(StartUpload(u))
  \/ \E u \in Uploads : Finalizing(SaveFile(u))
  \/ \E u \in Uploads : Finalizing(SaveFails(u))
  \/ \E empty \in BOOLEAN : Finalizing(ChangeLog(empty))
  \/ Finalizing(DetachFile)
  \/ Finalizing(RemoveContest)
  \/ \E e \in NewEvent \cup LaterEvents : Paging(AppendEvent(e))
  \/ Paging(BuildSnapshot)
  \/ \E last \in 1 .. Len(events), hydration \in BOOLEAN :
       Paging(AppendCommitted(last, hydration))
  \/ Paging(DropSnapshot)
  \/ part = "board" /\ ~following /\ \E batch \in Batches : Projecting(IngestInitial(batch))
  \/ part = "board" /\ following /\ \E batch \in Batches : Projecting(ApplyLive(batch))
  \/ Projecting(FinishInitial)
  \/ Projecting(ResetBoard)
  \/ \E f \in Flights, c \in Contests : Budgeting(StartHydration(f, c))
  \/ \E f \in Flights : Budgeting(LeaveQueue(f))
  \/ \E f \in Flights : Budgeting(BeginHydration(f))
  \/ \E f \in Flights : Budgeting(EstimatePage(f))
  \/ \E f \in Flights : Budgeting(ReadPage(f))
  \/ \E f \in Flights : Budgeting(FollowTarget(f))
  \/ \E f \in Flights : Budgeting(MaterializeSnapshot(f))
  \/ \E f \in Flights : Budgeting(HydrationUnavailable(f))
  \/ \E f \in Flights : Budgeting(HydrationFails(f))
  \/ \E f \in Flights, gone \in BOOLEAN : Budgeting(AuthorityDiffers(f, gone))
  \/ \E c \in Contests : Budgeting(ObserveTarget(c))
  \/ \E c \in Contests : Budgeting(ObserveCommittedAppend(c))
  \/ \E c \in Contests : Budgeting(InvalidateEntry(c))
  \/ \E c \in Contests : Budgeting(CloseEntries({c}))
  \/ Budgeting(CloseEntries(Contests))
  \/ \E r \in Responses, c \in Contests : Budgeting(PinSnapshot(r, c)) /\ MayAnswer(c)
  \/ \E r \in Responses : Budgeting(ReleaseSnapshot(r))
  \/ \E p \in [key : Keys, data : Keys \cup {NoKey}] : Viewing(ChangePage(p))
  \/ Viewing(SyncLiveState)
  \/ Viewing(LeavePage)
  \/ Viewing(InitialBatch)
  \/ Viewing(FinishInitialEvents)
  \/ \E rolls \in BOOLEAN : Viewing(DeliverLive(rolls))
  \/ Viewing(DeliverReset)
  \/ Viewing(DeliverFatal)
  \/ Viewing(PublishFrame)
  \/ Viewing(RunTick)
  \/ Viewing(TickThrows)

MCSpec == MCInit /\ [][MCNext]_MCVars

\* Two users who race for one problem, submissions at the same time, some after the
\* freeze among them.
MCSubmissions ==
  << [user |-> "u1", problem |-> "p", time |-> 1],
     [user |-> "u2", problem |-> "p", time |-> 4],
     [user |-> "u1", problem |-> "p", time |-> 2],
     [user |-> "u2", problem |-> "p", time |-> 2],
     [user |-> "u1", problem |-> "p", time |-> 3],
     [user |-> "u2", problem |-> "p", time |-> 5] >>
============================================================================
