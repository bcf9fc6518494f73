----------------------------- MODULE CoaGeneration -----------------------------
(***************************************************************************)
(* How a course of action comes to be, in front of CoaApproval: a request  *)
(* reads the situation, searches the doctrine in Qdrant with an embedding  *)
(* of it, asks the language model in the cloud or on the edge, and stores  *)
(* the options that pass the gates.  Meanwhile an operator runs the script *)
(* that ingests the doctrine document again: it deletes the old chunks,    *)
(* embeds the new ones and upserts them.  Qdrant applies what it has       *)
(* accepted in that order, and searches see it half applied.  The script   *)
(* waits for its upsert to be applied, and not for its delete.             *)
(*                                                                         *)
(* The situation itself, its sanitising and its scoring are left out, and  *)
(* so are documents other than the one.  Which chunks are nearest to the   *)
(* situation is left open.                                                 *)
(* Confidences are in hundredths.                                          *)
(***************************************************************************)
EXTENDS CoaApproval, Integers

CONSTANTS
    Modes,          \* what VEKTOR_COA_MODE may say: "cloud", "edge"
    NumOptions,     \* numOptions
    MinConfidence,  \* COA_MIN_CONFIDENCE
    Confidences,    \* what a model may say of an option or of its answer
    Ingests,        \* runs of ingest-doctrine
    Chunks,         \* the chunks of the document at each run
    TopK            \* topK, how many chunks a search returns at most

ASSUME GenerationAssumption ==
    /\ Modes \subseteq {"cloud", "edge"}
    /\ NumOptions \in 1..10
    /\ Confidences \cup {MinConfidence} \subseteq Int
    /\ None \notin Ingests
    /\ \A i \in Ingests : IsFiniteSet(Chunks[i])
    /\ TopK \in Nat \ {0}

VARIABLES
    mode,        \* the mode coa-svc runs in
    generation,  \* where each request to generate stands
    context,     \* doctrine_context: the chunks its search found, while the model is asked
    options,     \* the confidences of the options that were stored
    extractor,   \* embed.ts' _pipelinePromise in coa-svc
    ingest,      \* where each run of the script stands
    doctrine,    \* the chunks in Qdrant
    accepted,    \* the updates Qdrant has accepted and not applied, in their order
    \* History:
    newest,      \* the run that began last
    overlapped   \* two runs have been under way at once

generationVars == <<mode, generation, context, options, extractor, ingest, doctrine, accepted, newest, overlapped>>
allVars == <<vars, generationVars>>

Updates == [op : {"delete", "upsert"}, run : Ingests]

GenerationTypeOK ==
    /\ TypeOK
    /\ mode \in Modes
    /\ generation \in [Coas -> {"unmade", "search", "ask", "over"}]
    /\ context \in [Coas -> SUBSET (Ingests \X UNION {Chunks[i] : i \in Ingests})]
    /\ options \in [Coas -> UNION {[1..n -> Confidences] : n \in 0..NumOptions}]
    /\ extractor \in {"none", "loading", "ready", "failed"}
    /\ ingest \in [Ingests -> {"unmade", "embed", "wait", "done", "failed"}]
    /\ doctrine \subseteq Ingests \X UNION {Chunks[i] : i \in Ingests}
    /\ accepted \in Seq(Updates)
    /\ newest \in Ingests \cup {None}
    /\ overlapped \in BOOLEAN

GenerationInit ==
    /\ Init
    /\ mode \in Modes
    /\ generation = [c \in Coas |-> "unmade"]
    /\ context = [c \in Coas |-> {}]
    /\ options = [c \in Coas |-> <<>>]
    /\ extractor = "none"
    /\ ingest = [i \in Ingests |-> "unmade"]
    /\ doctrine = {}
    /\ accepted = <<>>
    /\ newest = None
    /\ overlapped = FALSE

------------------------------------------------------------------------------
(* A request to generate.                                                  *)

\* An analyst asks; the target is there, and what cannot be fetched of the
\* no-strike zones is left out.  The search loads the embedding model, unless
\* that has begun.
AskForCoa(c) ==
    /\ generation[c] = "unmade"
    /\ generation' = [generation EXCEPT ![c] = "search"]
    /\ extractor' = IF extractor = "none" THEN "loading" ELSE extractor
    /\ UNCHANGED <<vars, mode, context, options, ingest, doctrine, accepted, newest, overlapped>>

\* The promise is settled, once and for all.
LoadExtractor ==
    /\ extractor = "loading"
    /\ \/ /\ extractor' = "ready"
          /\ UNCHANGED vars
       \/ /\ extractor' = "failed"
          /\ failures < MaxFailures /\ failures' = failures + 1
          /\ UNCHANGED <<coas, request, pc, audit, crashes, before>>
    /\ UNCHANGED <<mode, generation, context, options, ingest, doctrine, accepted, newest, overlapped>>

\* The chunks a search may find nearest.
Hits == {found \in SUBSET doctrine :
           \/ Cardinality(found) = TopK
           \/ Cardinality(doctrine) < TopK /\ found = doctrine}

\* searchDoctrine; the embedding or the query may fail too.
Search(c) ==
    /\ generation[c] = "search"
    /\ \/ /\ extractor = "ready"
          /\ \E found \in Hits : context' = [context EXCEPT ![c] = found]
          /\ generation' = [generation EXCEPT ![c] = "ask"]
       \/ /\ extractor \in {"ready", "failed"}
          /\ generation' = [generation EXCEPT ![c] = "over"]
          /\ UNCHANGED context
    /\ UNCHANGED <<vars, mode, options, extractor, ingest, doctrine, accepted, newest, overlapped>>

Answers(lengths) == UNION {[1..n -> Confidences] : n \in lengths}
Total(answer) == FoldFunction(LAMBDA x, y : x + y, 0, answer)

\* Bug: the grammar of the edge model does not pin the number of options.
EdgeAnswersUnpinned == Answers(0..NumOptions)

\* What the grammar lets the edge model say.
EdgeAnswers == Answers({NumOptions})

\* generateCoaEdge: the average of the options is not below the threshold, nor
\* is that of no options, which is NaN.
PassesEdge(answer) ==
    DOMAIN answer = {} \/ Total(answer) >= MinConfidence * Cardinality(DOMAIN answer)

\* parseCloudResponse: the confidence is that of the whole answer.
PassesCloud(confidence) == confidence >= MinConfidence

\* The model answers; options that pass the gates are stored, and anything else
\* throws and stores nothing.
AskModel(c) ==
    /\ generation[c] = "ask"
    /\ generation' = [generation EXCEPT ![c] = "over"]
    /\ context' = [context EXCEPT ![c] = {}]
    /\ \/ /\ mode = "cloud" /\ \E confidence \in Confidences : PassesCloud(confidence)
          /\ \E answer \in Answers(0..NumOptions) : options' = [options EXCEPT ![c] = answer]
          /\ Generate(c)
       \/ /\ mode = "edge"
          /\ \E answer \in EdgeAnswers :
                PassesEdge(answer) /\ options' = [options EXCEPT ![c] = answer]
          /\ Generate(c)
       \/ UNCHANGED <<vars, options>>
    /\ UNCHANGED <<mode, extractor, ingest, doctrine, accepted, newest, overlapped>>

------------------------------------------------------------------------------
(* ingest-doctrine.                                                        *)

UnderWay == {i \in Ingests : ingest[i] \in {"embed", "wait"}}

Begin(i) ==
    /\ ingest[i] = "unmade"
    /\ newest' = i
    /\ overlapped' = (overlapped \/ UnderWay # {})

\* Bug: the chunks of the last run are not deleted.
DeleteNothing(i) ==
    /\ Begin(i)
    /\ ingest' = [ingest EXCEPT ![i] = "embed"]
    /\ UNCHANGED <<vars, mode, generation, context, options, extractor, doctrine, accepted>>

\* The deletion of the old chunks is accepted, and applied later; the call may also
\* fail, or no more than its answer be lost.
DeleteChunks(i) ==
    /\ Begin(i)
    /\ \/ /\ ingest' \in {[ingest EXCEPT ![i] = "embed"], [ingest EXCEPT ![i] = "failed"]}
          /\ accepted' = Append(accepted, [op |-> "delete", run |-> i])
       \/ /\ ingest' = [ingest EXCEPT ![i] = "failed"]
          /\ UNCHANGED accepted
    /\ UNCHANGED <<vars, mode, generation, context, options, extractor, doctrine>>

ChunksOf(i) == {i} \X Chunks[i]

\* The new ones are embedded and sent in one upsert, whose application the script
\* awaits.  A document without any ends the run.
SendUpsert(i) ==
    /\ ingest[i] = "embed"
    /\ ingest' = [ingest EXCEPT ![i] = IF Chunks[i] = {} THEN "done" ELSE "wait"]
    /\ accepted' = IF Chunks[i] = {} THEN accepted
                   ELSE Append(accepted, [op |-> "upsert", run |-> i])
    /\ UNCHANGED <<vars, mode, generation, context, options, extractor, doctrine, newest, overlapped>>

\* An embedding or the upsert fails, the wait for it ends too early, or the script is
\* stopped; what Qdrant has accepted stays.
ScriptFails(i) ==
    /\ i \in UnderWay
    /\ ingest' = [ingest EXCEPT ![i] = "failed"]
    /\ UNCHANGED <<vars, mode, generation, context, options, extractor, doctrine, accepted, newest, overlapped>>

\* Qdrant is at work on the first of the accepted updates...
ApplyPartly ==
    /\ accepted # <<>>
    /\ \/ Head(accepted).op = "delete" /\ doctrine' \in SUBSET doctrine
       \/ /\ Head(accepted).op = "upsert"
          /\ \E some \in SUBSET ChunksOf(Head(accepted).run) : doctrine' = doctrine \cup some
    /\ UNCHANGED <<vars, mode, generation, context, options, extractor, ingest, accepted, newest, overlapped>>

\* ...and is through with it, of which a script that waits is told.
ApplyUpdate ==
    /\ accepted # <<>>
    /\ accepted' = Tail(accepted)
    /\ LET first == Head(accepted)
       IN  \/ first.op = "delete" /\ doctrine' = {} /\ UNCHANGED ingest
          \/ /\ first.op = "upsert"
             /\ doctrine' = doctrine \cup ChunksOf(first.run)
             /\ ingest' = [ingest EXCEPT ![first.run] = IF @ = "wait" THEN "done" ELSE @]
    /\ UNCHANGED <<vars, mode, generation, context, options, extractor, newest, overlapped>>

------------------------------------------------------------------------------
\* A crash breaks off what is being generated; the next process loads the
\* embedding model again.
GenerationCrash ==
    /\ Crash
    /\ generation' = [c \in Coas |-> IF generation[c] \in {"search", "ask"} THEN "over" ELSE generation[c]]
    /\ context' = [c \in Coas |-> {}]
    /\ extractor' = "none"
    /\ UNCHANGED <<mode, options, ingest, doctrine, accepted, newest, overlapped>>

\* Commanders decide as before.
Decision ==
    /\ \/ \E r \in Requests, c \in Coas, d \in Decisions : Make(r, c, d)
       \/ \E r \in Requests : Handle(r)
    /\ UNCHANGED generationVars

GenerationNext ==
    \/ \E c \in Coas : AskForCoa(c) \/ Search(c) \/ AskModel(c)
    \/ \E i \in Ingests : DeleteChunks(i) \/ SendUpsert(i) \/ ScriptFails(i)
    \/ ApplyPartly \/ ApplyUpdate
    \/ LoadExtractor \/ Decision \/ GenerationCrash

GenerationSpec == GenerationInit /\ [][GenerationNext]_allVars

------------------------------------------------------------------------------
(* Properties.                                                             *)

\* The doctrine a course of action rests on is that of one run of the script, never of
\* two, although a delete is only acknowledged (doctrine.ts:45) and searches go on while
\* it and the upsert are applied; and once a run has told its operator how much it has
\* ingested, that and nothing else is in Qdrant.  "Safe to re-run" (ingest-doctrine.ts:4)
\* holds as long as runs do not overlap: those that do leave the chunks of both.  A run
\* that finds the document empty has nothing to wait for, and ends before the old chunks
\* are gone.
DoctrineIsOfOneRun ==
    ~overlapped =>
        /\ \A c \in Coas : context[c] # {} => \E i \in Ingests : context[c] \subseteq ChunksOf(i)
        /\ newest # None =>
              (ingest[newest] = "done" /\ Chunks[newest] # {} => doctrine = ChunksOf(newest))

\* The edge's gate lets no course of action without options through, although
\* the average of none is NaN and not below the threshold (edgeClient.ts:114):
\* what is stored, and so what a commander approves, has all the options that
\* were asked for, and they are sure enough.
EdgeStoresAllOptions ==
    mode = "edge" =>
        \A c \in Coas : coas[c] # NoCoa =>
            /\ Len(options[c]) = NumOptions
            /\ Total(options[c]) >= MinConfidence * NumOptions
===============================================================================
