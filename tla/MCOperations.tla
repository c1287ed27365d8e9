----------------------------- MODULE MCOperations -----------------------------
(***************************************************************************)
(* The provider's other operations, for TLC: renewals of the login and the  *)
(* API key, a host step and its counts, a Run that is lost with results     *)
(* held, switches of agents, an edit of a file and the files its processes  *)
(* spill to. They share no state, so one of them runs in each behaviour;    *)
(* the others stay as they start.                                           *)
(***************************************************************************)
EXTENDS HostStep, RunRecovery, ModeSwitch, SpillStore, TLC

VARIABLES
    part,  \* the component under way
    \* LoginRenewal
    loginNow, exp, store, succ, state, inflight, loginCall, loginAnswer,
    tried,
    \* ApiKeyRenewal
    keyNow, born, issued, stored, token, backoff, rejected, exchange, keyCall,
    keyAnswer,
    \* FileEdits
    file, inode, catalog, editStage, read, editSeen, editCall, planned

CONSTANTS c1, c2, other

\* Of a login's calls, and of these two processes, neither is special.
Symmetry == Permutations({c1, c2})

\* A step of an edit and a todo list, and a later step of two commands.
Generations == "e" :> 1 @@ "b" :> 1 @@ "t" :> 2 @@ "u" :> 2

\* The texts over these characters up to a length.
Upto(S, n) == UNION {[1..k -> S] : k \in 0..n}

Login == INSTANCE LoginRenewal WITH
    now <- loginNow, call <- loginCall, answer <- loginAnswer,
    Callers <- {c1, c2}, MaxToken <- 2, MaxTime <- 2, Life <- 2, Window <- 1,
    MaxBackoff <- 1

Key == INSTANCE ApiKeyRenewal WITH
    now <- keyNow, call <- keyCall, answer <- keyAnswer, Callers <- {c1, c2},
    MaxToken <- 4, MaxTime <- 4, Life <- 2, Window <- 1, MaxBackoff <- 2

Edit == INSTANCE FileEdits WITH
    stage <- editStage, seen <- editSeen, call <- editCall,
    Files <- Upto({"a", "n"}, 4),
    Written <- {<<"a", "n">>, <<"a", "a", "n", "n">>},
    Pieces <- Upto({"a", "n"}, 2),
    Catalogs <- {{"edit", "write"}, {"apply_patch"}, {"patch"}}, Shown <- 2,
    MaxEdit <- 4, MaxChanges <- 1

loginVars == <<loginNow, exp, store, succ, state, inflight, loginCall,
    loginAnswer, tried>>
keyVars == <<keyNow, born, issued, stored, token, backoff, rejected, exchange,
    keyCall, keyAnswer>>
editVars == <<file, inode, catalog, editStage, read, editSeen, editCall,
    planned>>
allVars == <<part, loginVars, keyVars, stepsVars, turnVars, vars, editVars,
    spillsVars>>

InitAny ==
    /\ part \in {"login", "key", "step", "turn", "agent", "edit", "spills"}
    /\ Login!Init
    /\ Key!Init /\ (part = "key" \/ (stored = 0))
    /\ StepsInit /\ (part = "step" \/ (lists = TRUE /\ fieldSeen = TRUE))
    /\ TurnInit
    /\ Init /\ (part = "agent" \/ (agent = "build"))
    /\ Edit!Init /\ (part = "edit" \/ (file = <<>> /\ catalog = {"patch"}))
    /\ SpillsInit

LoginSteps ==
    /\ part = "login" /\ Login!Next
    /\ UNCHANGED <<part, keyVars, stepsVars, turnVars, vars, editVars,
        spillsVars>>

KeySteps ==
    /\ part = "key" /\ Key!Next
    /\ UNCHANGED <<part, loginVars, stepsVars, turnVars, vars, editVars,
        spillsVars>>

StepSteps ==
    /\ part = "step" /\ StepsNext
    /\ UNCHANGED <<part, loginVars, keyVars, turnVars, vars, editVars,
        spillsVars>>

TurnSteps ==
    /\ part = "turn" /\ TurnNext
    /\ UNCHANGED <<part, loginVars, keyVars, stepsVars, vars, editVars,
        spillsVars>>

AgentSteps ==
    /\ part = "agent" /\ Next
    /\ UNCHANGED <<part, loginVars, keyVars, stepsVars, turnVars, editVars,
        spillsVars>>

EditSteps ==
    /\ part = "edit" /\ Edit!Next
    /\ UNCHANGED <<part, loginVars, keyVars, stepsVars, turnVars, vars,
        spillsVars>>

SpillsSteps ==
    /\ part = "spills" /\ SpillsNext
    /\ UNCHANGED <<part, loginVars, keyVars, stepsVars, turnVars, vars,
        editVars>>

NextAny == LoginSteps \/ KeySteps \/ StepSteps \/ TurnSteps \/ AgentSteps \/
    EditSteps \/ SpillsSteps

SpecAny == InitAny /\ [][NextAny]_allVars

-----------------------------------------------------------------------------
\* The theorems about these components speak of this instance.
ASSUME Instance == StepConstants /\ SpillConstants /\ TurnConstants /\ ~Interrupted /\ Login!Constants

\* A login's calls share its one renewal and are answered with a token that
\* serves: the renewal implements a line of tokens that only its newest
\* extends. A token Cursor rejected is not answered once another was issued.
LoginRenewed ==
    /\ [][Login!RenewedOnce']_allVars /\ Login!AnswerServes /\ Login!TokensStayNewest
    /\ Key!RejectedTokenReplaced

\* An edit leaves the text Cursor wants, and what a partial read left out.
EditKeepsFile == Edit!EditGivesTarget /\ Edit!TailKept
=============================================================================
