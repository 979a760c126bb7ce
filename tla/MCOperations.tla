---------------------------- MODULE MCOperations ----------------------------
(***************************************************************************)
(* What the program does with a provider, with files and with its lists,   *)
(* each on a small instance: skill packages, a streamed generation, the    *)
(* edit_file and read_file tools, artifacts, the lists of sessions and     *)
(* originals, a sub-agent and the catalog of models.  The parts share      *)
(* nothing: a behaviour is one of a single subject, and the variables of   *)
(* the others keep one initial value.                                      *)
(***************************************************************************)
EXTENDS MCSkillStore, MCStreamAssembly, Sequences, SequencesExt

CONSTANTS
  Writers, Contents, Limits, MaxLosses,   \* of ArtifactStore
  Users, MaxProjects, SessionIds, MaxTime, MaxOriginals, PageLimits,  \* of SessionCatalog
  MaxTurns, MaxCalls,                     \* of SubAgentRun
  Servers, SettingsFiles, ServerEnvironments, AddedModels,
  DefaultWindow, DefaultOutput, MaxAdditions  \* of ModelCatalog

VARIABLES
  subject,
  text, original, edits, planned, completed, current, outcome, disturbed,
  document, maxBytes, next, got, page,
  dir, blob, named, temp, at, put, refs, stored, reading, losses,
  projects, rows, originals, clock, list, history,
  phase, answer, failure, run, told, made,
  settings, env, conf, upstream, adding, saves

editVars     == <<text, original, edits, planned, completed, current, outcome, disturbed>>
pageVars     == <<document, maxBytes, next, got, page>>
fileVars     == <<editVars, pageVars>>
artifactVars == <<dir, blob, named, temp, at, put, refs, stored, reading, losses>>
catalogVars  == <<projects, rows, originals, clock, list, history>>
agentVars    == <<phase, answer, failure, run, told, made>>
modelVars    == <<settings, env, conf, upstream, adding, saves>>

-----------------------------------------------------------------------------
(* The instances.                                                          *)

\* Texts of up to four letters of an alphabet of two: old texts that overlap
\* themselves, one another, or do not occur.
Letters == {"a", "b"}
OneEdit == [old : BoundedSeq(Letters, 2) \ {<<>>}, new : {<<>>, <<"a">>, <<"b", "b", "a">>}]

Batches == {<<e>> : e \in OneEdit} \cup {<<e, f>> : e, f \in OneEdit}

Edits == INSTANCE FileEdits WITH
  file <- text, Texts <- BoundedSeq(Letters, 4),
  Batches <- Batches,
  Strange <- {<<"a">>, <<"b", "a">>}

\* Files of up to three lines, shorter and longer than the buffer and the page.
Documents ==
  {f \in [lines : UNION {[1 .. n -> 0 .. 5] : n \in 0 .. 3}, terminated : BOOLEAN] :
     f.terminated \/ (f.lines # <<>> /\ f.lines[Len(f.lines)] > 0)}

Pages == INSTANCE PagedRead WITH
  file <- document, Files <- Documents, BufferSize <- 2, PageSizes <- {1, 2, 3, 5},
  LineCounts <- {0, 1, 2}

Outputs == {<<"a", "b", "c">>, <<"a", "b">>}

Artifacts == INSTANCE ArtifactStore WITH file <- blob

\* Three sessions in two projects, whose saves move them; or one project whose
\* sessions grow.
Lists == INSTANCE SessionCatalog WITH Ids <- SessionIds, Limits <- PageLimits

Originals == INSTANCE SessionCatalog WITH
  Users <- {"u", "v"}, MaxProjects <- 1, Ids <- {1, 2}, MaxTime <- 1, MaxOriginals <- 4,
  Limits <- {1, 2}

Agent == INSTANCE SubAgentRun WITH stage <- phase

\* Two servers; files that name a model or a compaction model or neither; and
\* numbers for the four keys, apart and together, that fit the models or do not.
NoLimit == [context |-> 0, output |-> 0]

Listed(limit) ==
  <<[name |-> "p", key |-> "k", url |-> "u", models |-> <<[name |-> "m", limit |-> limit]>>]>>

NoNumbers == [k \in {} |-> 0]
Window(n) == [k \in {"window"} |-> n]
Output(n) == [k \in {"output"} |-> n]
CompactionWindow(n) == [k \in {"compactionWindow"} |-> n]
CompactionOutput(n) == [k \in {"compactionOutput"} |-> n]

SmallSettings ==
  {[providers |-> <<>>, model |-> <<>>, compaction |-> <<>>, numbers |-> n] :
     n \in {NoNumbers, CompactionWindow(1), CompactionWindow(5), Output(3)}}
    \cup {[providers |-> Listed(l), model |-> <<"p", "m">>, compaction |-> c,
            numbers |-> NoNumbers] :
             l \in {NoLimit, [context |-> 8, output |-> 2]}, c \in {<<>>, <<"p", "m">>}}

Added(owner, key, name, context, output) ==
  [provider |-> owner, key |-> key, url |-> "u", name |-> name,
   limit |-> [context |-> context, output |-> output]]

ThreeModels ==
  {Added("p", "k", "n", 8, 4), Added("p", "other", "n", 4, 2), Added("q", "k", "own", 8, 2)}

AllValues == {"key", "url", "name"}

NumberChoices ==
  {NoNumbers, Window(4), Output(5), Window(4) @@ Output(3), CompactionWindow(3),
   CompactionWindow(4) @@ CompactionOutput(3), CompactionWindow(2) @@ CompactionOutput(3)}

SmallEnvironments ==
  {e \in [main : {{}, AllValues}, numbers : NumberChoices,
           compaction : {{}, {"name"}, AllValues}] : e.main = {} \/ e.compaction = {}}

NotRunning == [down |-> TRUE]
NoAddition == [idle |-> TRUE]

Models == INSTANCE ModelCatalog WITH
  Processes <- Servers, Environments <- ServerEnvironments, Files <- SettingsFiles,
  Inputs <- AddedModels, MaxSaves <- MaxAdditions, Down <- NotRunning, Idle <- NoAddition

ASSUME OperationsAssumption ==
  /\ \A c \in Contents : c \in Seq({c[i] : i \in DOMAIN c})
  /\ Limits \subseteq Nat /\ MaxCalls \in Nat
  /\ SessionIds \subseteq Nat \ {0} /\ PageLimits \subseteq Nat \ {0}
  /\ (\A f \in SettingsFiles : Models!IsSettings(f)) /\ AddedModels \subseteq Models!ModelInput

-----------------------------------------------------------------------------

Subjects == {"skills", "stream", "edits", "pages", "artifacts", "list", "history", "agent",
             "settings"}

\* What a subject chooses at first; the others start with one value.
Of(s, choices, value) == IF subject = s THEN choices ELSE {value}

MCInit ==
  /\ subject \in Subjects
  /\ style \in Of("stream", Stream!Styles,
                  [done |-> TRUE, content |-> TRUE, terminal |-> TRUE, usage |-> TRUE])
  /\ text \in Of("edits", BoundedSeq(Letters, 4), <<>>)
  /\ edits \in Of("edits", Batches, <<[old |-> <<"a">>, new |-> <<>>]>>)
  /\ document \in Of("pages", Documents, [lines |-> <<>>, terminated |-> TRUE])
  /\ maxBytes \in Of("pages", {1, 2, 3, 5}, 1)
  /\ dir \in Of("artifacts", {"absent", "kept"}, "absent")
  /\ put \in Of("artifacts", [Writers -> Contents], CHOOSE p \in [Writers -> Contents] : TRUE)
  /\ settings \in Of("settings", SettingsFiles, CHOOSE f \in SettingsFiles : TRUE)
  /\ env \in Of("settings", ServerEnvironments,
                [main |-> {}, numbers |-> NoNumbers, compaction |-> {}])
  /\ Init /\ Stream!Init /\ Edits!Init /\ Pages!Init /\ Artifacts!Init
  /\ Lists!Init /\ Agent!Init /\ Models!Init

OnSkills    == subject = "skills" /\ Next
OnStream    == subject = "stream" /\ Stream!Next
OnEdits     == subject = "edits" /\ Edits!Next
OnPages     == subject = "pages" /\ Pages!Next
OnArtifacts == subject = "artifacts" /\ Artifacts!Next
OnCatalog   == \/ subject = "list" /\ Lists!Next
               \/ subject = "history" /\ Originals!Next
OnAgent     == subject = "agent" /\ Agent!Next
OnModels    == subject = "settings" /\ Models!Next

MCNext ==
  /\ UNCHANGED subject
  /\ \/ /\ OnSkills
        /\ UNCHANGED <<streamVars, fileVars, artifactVars, catalogVars, agentVars, modelVars>>
     \/ /\ OnStream
        /\ UNCHANGED <<vars, fileVars, artifactVars, catalogVars, agentVars, modelVars>>
     \/ /\ OnEdits /\ UNCHANGED pageVars
        /\ UNCHANGED <<vars, streamVars, artifactVars, catalogVars, agentVars, modelVars>>
     \/ /\ OnPages /\ UNCHANGED editVars
        /\ UNCHANGED <<vars, streamVars, artifactVars, catalogVars, agentVars, modelVars>>
     \/ /\ OnArtifacts
        /\ UNCHANGED <<vars, streamVars, fileVars, catalogVars, agentVars, modelVars>>
     \/ /\ OnCatalog
        /\ UNCHANGED <<vars, streamVars, fileVars, artifactVars, agentVars, modelVars>>
     \/ /\ OnAgent
        /\ UNCHANGED <<vars, streamVars, fileVars, artifactVars, catalogVars, modelVars>>
     \/ /\ OnModels
        /\ UNCHANGED <<vars, streamVars, fileVars, artifactVars, catalogVars, agentVars>>

MCSpec ==
  MCInit /\ [][MCNext]_<<subject, vars, streamVars, fileVars, artifactVars, catalogVars,
                         agentVars, modelVars>>

-----------------------------------------------------------------------------
(* Properties.                                                             *)

\* Edits are applied exactly or not at all, the pages of a file are the file,
\* and a stored output is there, whole, after a loss of power.
FilesExact ==
  /\ Edits!EditIsExact
  /\ Pages!PagesTile
  /\ Artifacts!ArtifactsKept

\* The pages of both lists miss nothing and repeat nothing while sessions go on.
CatalogPages == Lists!CatalogPages

\* A parent is told that a sub-agent completed its task exactly if it did.
CompleteIsComplete == Agent!CompleteIsComplete

\* The models that a process offers, serves and would start with are those of
\* the settings it shares with another, and no addition is lost but by a race.
SettingsHold ==
  /\ [](Models!ActiveIsServed /\ Models!AsIfStarted /\ Models!KeepsLoading)
  /\ Models!EntriesKept
=============================================================================
