--------------------------- MODULE ExecutorProofs ---------------------------
(***************************************************************************)
(* What holds of the executor for every set of calls, tools and requests,  *)
(* every limit and cap, and every clock: its types and registrations; what *)
(* the ladder clears before a handler runs; the verdict and its journal;   *)
(* which fault decides a refused call; what becomes of an answer that      *)
(* comes after the limit when the clock is steady; and that every          *)
(* behaviour is one ToolCall allows.                                       *)
(***************************************************************************)
EXTENDS ExecutorRefinement, TLAPS

(***************************************************************************)
(* Types.                                                                  *)
(***************************************************************************)

LEMMA TruncateType ==
    ASSUME NEW text \in TextType, NEW cap \in Nat
    PROVE  /\ Truncate(text, cap) \in TextType
           /\ Truncate(text, cap).of = text.of
           /\ Truncate(text, cap).private = text.private
           /\ ~Truncate(text, cap).cut => Truncate(text, cap) = text
  BY DEF Truncate, TextType

LEMMA ElapsedIsNat ==
    ASSUME TypeOK, NEW c \in Calls
    PROVE  Elapsed(c) \in Nat
  BY DEF TypeOK, Elapsed

\* Rounding moves a duration by at most half a millisecond, either way.
LEMMA RoundedIsNear ==
    ASSUME NEW ticks \in Nat
    PROVE  /\ Rounded(ticks) \in Nat
           /\ 2 * (TicksPerMs * Rounded(ticks)) <= 2 * ticks + TicksPerMs
           /\ 2 * ticks <= 2 * (TicksPerMs * Rounded(ticks)) + TicksPerMs
<1> DEFINE ms   == ticks \div TicksPerMs
           rest == ticks % TicksPerMs
<1>1. TicksPerMs \in Nat /\ TicksPerMs > 0
  BY ConstantsAssumption DEF ConstantsAssumption
<1>2. /\ ms \in Nat /\ rest \in Nat
      /\ ticks = TicksPerMs * ms + rest /\ rest < TicksPerMs
  BY <1>1
<1>3. TicksPerMs * (ms + 1) = TicksPerMs * ms + TicksPerMs
  BY <1>1, <1>2
<1> DEFINE product == TicksPerMs * ms
<1>4. product \in Nat
  BY <1>1, <1>2
<1>5. \/ Rounded(ticks) = ms /\ 2 * rest <= TicksPerMs
      \/ Rounded(ticks) = ms + 1 /\ 2 * rest >= TicksPerMs
  BY <1>1, <1>2 DEF Rounded
<1> HIDE DEF rest
<1>6. CASE Rounded(ticks) = ms /\ 2 * rest <= TicksPerMs
  <2>1. TicksPerMs * Rounded(ticks) = product
    BY <1>6
  <2>2. ticks = product + rest
    BY <1>2
  <2> HIDE DEF product, ms
  <2>3. QED
    BY <1>1, <1>2, <1>4, <1>6, <2>1, <2>2
<1>7. CASE Rounded(ticks) = ms + 1 /\ 2 * rest >= TicksPerMs
  <2>1. TicksPerMs * Rounded(ticks) = product + TicksPerMs
    BY <1>3, <1>7
  <2>2. ticks = product + rest
    BY <1>2
  <2> HIDE DEF product, ms
  <2>3. QED
    BY <1>1, <1>2, <1>4, <1>7, <2>1, <2>2
<1>8. QED
  BY <1>5, <1>6, <1>7

\* Types alone are not inductive: what a path argument resolves to has a type
\* only if the tool it belongs to was found.
IInv == TypeOK /\ RegistrationFound

LEMMA ToolSpecType ==
    ASSUME IInv, NEW c \in Calls, known[c]
    PROVE  ToolSpec(c) \in SpecType
  BY ConstantsAssumption
     DEF IInv, RegistrationFound, Found, TypeOK, ToolSpec, ConstantsAssumption

LEMMA ElementType ==
    ASSUME NEW S, NEW s \in Seq(S), NEW i \in 1 .. Len(s)
    PROVE  s[i] \in S
  OBVIOUS

LEMMA PathArgType ==
    ASSUME IInv, NEW c \in Calls, pc[c] = "paths",
           at[c] < Len(PathArgs(c))
    PROVE  PathArgs(c)[at[c] + 1]
              \in [arg : ArgNames, access : {"read", "write"}]
<1>1. PathArgs(c) \in Seq([arg : ArgNames, access : {"read", "write"}])
  BY ToolSpecType DEF PathArgs, SpecType, IInv, RegistrationFound, Found, Steps
<1>2. at[c] + 1 \in 1 .. Len(PathArgs(c))
  BY <1>1 DEF IInv, TypeOK
<1>3. QED
  BY <1>1, <1>2, ElementType

LEMMA InitTypeOK == Init => TypeOK
<1>1. (CHOOSE r \in Requests : TRUE) \in Requests
  BY ConstantsAssumption DEF ConstantsAssumption
<1>2. QED
  BY <1>1, ConstantsAssumption
     DEF Init, TypeOK, ConstantsAssumption, Steps, OutputType, NoOutput,
         Outcome, RefusalType, NoRefusal, ElapsedType, NotMeasured, TextType,
         NoText, ResultType, NoResult, RecordType, NoRecord, Statuses,
         Reasons, EgressClasses

\* A check that passes and one that refuses leave pc and refusal well typed.
LEMMA PassType ==
    ASSUME TypeOK, NEW c \in Calls, NEW check \in DOMAIN AfterCheck,
           Pass(c, check)
    PROVE  pc' \in [Calls -> Steps] /\ refusal' \in [Calls -> RefusalType]
<1>1. AfterCheck[check] \in Steps
  BY DEF AfterCheck, Steps
<1>2. QED
  BY <1>1 DEF Pass, Goto, TypeOK

LEMMA RefuseType ==
    ASSUME TypeOK, NEW c \in Calls, NEW reason \in Reasons,
           NEW private \in BOOLEAN, Refuse(c, reason, private)
    PROVE  pc' \in [Calls -> Steps] /\ refusal' \in [Calls -> RefusalType]
<1>1. [reason |-> reason, status |-> "refused", private |-> private]
         \in RefusalType
  BY DEF RefusalType, Statuses
<1>2. QED
  BY <1>1 DEF Refuse, Goto, TypeOK, Steps

LEMMA CheckTypeOK ==
    ASSUME TypeOK, NEW c \in Calls,
           NEW check \in {"registry", "allowlist", "schema", "egress"},
           NEW reason \in Reasons \cup {"none"},
           Check(c, check, reason)
    PROVE  TypeOK'
<1>1. pc' \in [Calls -> Steps] /\ refusal' \in [Calls -> RefusalType]
  BY PassType, RefuseType DEF Check, AfterCheck
<1>2. QED
  BY <1>1 DEF Check, TypeOK, opening, answers, handling, closing

LEMMA NextTypeOK == IInv /\ [Next]_vars => TypeOK'
<1> SUFFICES ASSUME IInv, [Next]_vars PROVE TypeOK'
  OBVIOUS
<1>a. TypeOK
  BY DEF IInv
<1> USE <1>a DEF TypeOK, opening, answers, handling, closing, Goto
<1>1. ASSUME NEW n \in DOMAIN ToolSpecs, Register(n) PROVE TypeOK'
  BY <1>1 DEF Register
<1>2. CASE Tick
  BY <1>2, ConstantsAssumption DEF Tick, ConstantsAssumption
<1>3. ASSUME NEW c \in Calls, NEW r \in Requests, Begin(c, r) PROVE TypeOK'
  BY <1>3 DEF Begin, Steps
<1>4. ASSUME NEW c \in Calls, Ladder(c) PROVE TypeOK'
  <2>1. CASE CheckRegistry(c)
    BY <2>1, CheckTypeOK
       DEF CheckRegistry, RegistryVerdict, Reasons, LadderReasons
  <2>2. CASE CheckAllowlist(c)
    BY <2>2, CheckTypeOK
       DEF CheckAllowlist, AllowlistVerdict, Reasons, LadderReasons
  <2>3. CASE CheckSchema(c)
    BY <2>3, CheckTypeOK
       DEF CheckSchema, SchemaVerdict, Reasons, LadderReasons
  <2>4. CASE CheckEgress(c)
    BY <2>4, CheckTypeOK
       DEF CheckEgress, EgressVerdict, Reasons, LadderReasons
  <2>5. CASE SkipIsolation(c)
    BY <2>5 DEF SkipIsolation, Pass, AfterCheck, Steps
  <2>6. CASE ProbeIsolation(c)
    <3>1. pc' \in [Calls -> Steps] /\ refusal' \in [Calls -> RefusalType]
      BY <2>6, PassType, RefuseType
         DEF ProbeIsolation, AfterCheck, Reasons, LadderReasons
    <3>2. tier' \in [Calls -> TierAnswers \cup {"unasked"}]
      BY <2>6 DEF ProbeIsolation
    <3>3. QED
      BY <2>6, <3>1, <3>2 DEF ProbeIsolation
  <2>7. CASE SkipPath(c)
    BY <2>7 DEF SkipPath
  <2>8. CASE ResolvePath(c)
    <3>1. pc' \in [Calls -> Steps] /\ refusal' \in [Calls -> RefusalType]
      BY <2>8, RefuseType DEF ResolvePath, Reasons, LadderReasons
    <3> DEFINE path == PathArgs(c)[at[c] + 1]
    <3>2. path \in [arg : ArgNames, access : {"read", "write"}]
      BY <2>8, PathArgType DEF ResolvePath
    <3> HIDE DEF path
    <3>3. path.arg \in ArgNames /\ path.access \in {"read", "write"}
      BY <3>2
    <3>4. /\ asked[c] \in [ArgNames -> {"unasked", "inside", "outside"}]
          /\ args[c] \in [ArgNames -> {"absent", "raw", "read", "write"}]
      OBVIOUS
    <3>5. CASE /\ asked' = [asked EXCEPT ![c][path.arg] = "inside"]
               /\ args' = [args EXCEPT ![c][path.arg] = path.access]
               /\ at' = [at EXCEPT ![c] = @ + 1]
      BY <2>8, <3>1, <3>3, <3>5 DEF ResolvePath
    <3>6. CASE /\ asked' = [asked EXCEPT ![c][path.arg] = "outside"]
               /\ UNCHANGED <<at, args>>
      BY <2>8, <3>1, <3>3, <3>6 DEF ResolvePath
    <3>7. QED
      BY <2>8, <3>5, <3>6 DEF ResolvePath, Resolved, path
  <2>9. CASE PathsDone(c)
    BY <2>9 DEF PathsDone, Pass, AfterCheck, Steps
  <2>10. QED
    BY <1>4, <2>1, <2>2, <2>3, <2>4, <2>5, <2>6, <2>7, <2>8, <2>9 DEF Ladder
<1>5. ASSUME NEW c \in Calls, StartHandler(c) PROVE TypeOK'
  BY <1>5 DEF StartHandler, Steps
<1>6. ASSUME NEW c \in Calls, Handler(c) PROVE TypeOK'
  <2>1. ASSUME NEW out \in HandlerOutputs, HandlerReturns(c, out)
        PROVE  TypeOK'
    <3>1. out \in OutputType
      <4> HIDE DEF TypeOK
      <4>1. \A s \in Nat, kind \in {"output", "other"} :
               Outcome(kind, s) \in OutputType
        BY DEF Outcome, OutputType, Statuses
      <4>2. [kind : {"refusal"}, size : {0}, reason : HandlerReasons,
             status : Statuses \ {"ok"}, private : BOOLEAN]
               \subseteq OutputType
        BY DEF OutputType
      <4>3. QED
        BY <4>1, <4>2, ConstantsAssumption
           DEF HandlerOutputs, ConstantsAssumption
    <3>2. QED
      BY <2>1, <3>1 DEF HandlerReturns, Steps
  <2>2. ASSUME NEW kind \in {"exception", "interrupt"}, HandlerRaises(c, kind)
        PROVE  TypeOK'
    <3>1. Outcome(kind, 0) \in OutputType
      BY DEF Outcome, OutputType, Statuses
    <3>2. QED
      BY <2>2, <3>1
         DEF HandlerRaises, HandlerError, Steps, RefusalType, Statuses, Reasons
  <2>3. QED
    BY <1>6, <2>1, <2>2 DEF Handler
<1>7. ASSUME NEW c \in Calls, Close(c) PROVE TypeOK'
  <2>1. CASE Measure(c)
    <3>1. OutputRefusal(output[c]) \in RefusalType
      BY DEF OutputRefusal, OutputType, RefusalType, NoRefusal, HandlerError,
             Statuses, Reasons
    <3>2. QED
      BY <2>1, <3>1, ElapsedIsNat
         DEF Measure, Judge, TimedOut, Steps, ElapsedType, RefusalType, Statuses, Reasons
  <2>2. CASE Finish(c)
    <3>1. Duration(c) \in Nat
      BY ElapsedIsNat, RoundedIsNear DEF Duration, ElapsedType
    <3>2. ModelText(c) \in TextType /\ RecordText(c) \in TextType
      BY ConstantsAssumption
         DEF ModelText, RecordText, OutputText, Sentence, TextType,
             OutputType, RefusalType, ConstantsAssumption
    <3>3. /\ Truncate(ModelText(c), MaxContent) \in TextType
          /\ Truncate(RecordText(c), MaxSummary) \in TextType
      BY <3>2, TruncateType, ConstantsAssumption DEF ConstantsAssumption
    <3>4. (IF known[c] THEN ToolSpec(c).egress ELSE "none") \in EgressClasses
      BY ToolSpecType DEF SpecType, EgressClasses
    <3>5. QED
      BY <2>2, <3>1, <3>3, <3>4
         DEF Finish, Steps, ResultType, RecordType, RefusalType, OutputType
  <2>3. CASE AppendRecord(c)
    BY <2>3 DEF AppendRecord, Leave, LeftBy, Steps
  <2>4. CASE AppendFails(c)
    BY <2>4 DEF AppendFails, Leave, Steps
  <2>5. QED
    BY <1>7, <2>1, <2>2, <2>3, <2>4 DEF Close
<1>8. CASE UNCHANGED vars
  BY <1>8 DEF vars
<1>9. QED
  BY <1>1, <1>2, <1>3, <1>4, <1>5, <1>6, <1>7, <1>8 DEF Next, Execute

\* Every registration found stays registered, and only calls that found one
\* get past the first check.
LEMMA NextRegistrationFound == IInv /\ [Next]_vars => RegistrationFound'
<1> SUFFICES ASSUME IInv, [Next]_vars, NEW c \in Calls PROVE Found(c)'
  BY DEF RegistrationFound
<1>a. TypeOK /\ Found(c) /\ (\A d \in Calls : Found(d))
  BY DEF IInv, RegistrationFound
<1> USE <1>a DEF TypeOK, Found, opening, answers, handling, closing, Goto,
                 Steps
<1>1. ASSUME NEW n \in DOMAIN ToolSpecs, Register(n) PROVE Found(c)'
  BY <1>1 DEF Register
<1>2. CASE Tick
  BY <1>2 DEF Tick
<1>3. ASSUME NEW d \in Calls, NEW r \in Requests, Begin(d, r)
      PROVE  Found(c)'
  BY <1>3 DEF Begin
<1>4. ASSUME NEW d \in Calls, Ladder(d) PROVE Found(c)'
  <2>1. CASE CheckRegistry(d)
    BY <2>1 DEF CheckRegistry, Check, RegistryVerdict, Pass, Refuse, AfterCheck
  <2>2. CASE CheckAllowlist(d) \/ CheckSchema(d) \/ CheckEgress(d)
    BY <2>2 DEF CheckAllowlist, CheckSchema, CheckEgress, Check, Pass, Refuse,
                AfterCheck
  <2>3. CASE SkipIsolation(d) \/ ProbeIsolation(d)
    BY <2>3 DEF SkipIsolation, ProbeIsolation, Pass, Refuse, AfterCheck
  <2>4. CASE SkipPath(d) \/ ResolvePath(d) \/ PathsDone(d)
    BY <2>4 DEF SkipPath, ResolvePath, PathsDone, Pass, Refuse, AfterCheck
  <2>5. QED
    BY <1>4, <2>1, <2>2, <2>3, <2>4 DEF Ladder
<1>5. ASSUME NEW d \in Calls, StartHandler(d) PROVE Found(c)'
  BY <1>5 DEF StartHandler
<1>6. ASSUME NEW d \in Calls, Handler(d) PROVE Found(c)'
  BY <1>6 DEF Handler, HandlerReturns, HandlerRaises
<1>7. ASSUME NEW d \in Calls, Close(d) PROVE Found(c)'
  BY <1>7 DEF Close, Measure, Finish, AppendRecord, AppendFails, Leave
<1>8. CASE UNCHANGED vars
  BY <1>8 DEF vars
<1>9. QED
  BY <1>1, <1>2, <1>3, <1>4, <1>5, <1>6, <1>7, <1>8 DEF Next, Execute

LEMMA InitIInv == Init => IInv
  BY InitTypeOK DEF Init, IInv, RegistrationFound, Found

LEMMA NextIInv == IInv /\ [Next]_vars => IInv'
  BY NextTypeOK, NextRegistrationFound DEF IInv

\* Type correctness for all constants.
THEOREM TypeCorrect == Spec => []TypeOK
<1>1. IInv => TypeOK
  BY DEF IInv
<1>2. QED
  BY InitIInv, NextIInv, <1>1, PTL DEF Spec

\* The asserts of the ladder and of _run_handler never fail.
THEOREM RegistrationCorrect == Spec => []RegistrationFound
<1>1. IInv => RegistrationFound
  BY DEF IInv
<1>2. QED
  BY InitIInv, NextIInv, <1>1, PTL DEF Spec

(***************************************************************************)
(* The ladder.  A handler is permitted because each check it passed still  *)
(* holds: the request, the registration found and the answers the sandbox  *)
(* gave do not change behind it.  The invariant says, for each step, which *)
(* checks lie behind a call that stands there.                             *)
(***************************************************************************)

PastIsolation == {"paths", "ready", "running", "measure"}
PastEgress    == {"isolation"} \cup PastIsolation
PastSchema    == {"egress"} \cup PastEgress
PastAllowlist == {"schema"} \cup PastSchema

Cleared(c) ==
    /\ pc[c] \in PastAllowlist => Approved(request[c])
    /\ pc[c] \in PastSchema    => request[c].valid
    /\ pc[c] \in PastEgress    => Permits(request[c].max_egress,
                                          ToolSpec(c).egress)
    /\ pc[c] \in PastIsolation => Isolated(c)

\* Nothing has been asked, nothing has run, before its turn.
Untouched(c) ==
    /\ pc[c] \in {"idle", "registry", "allowlist", "schema", "egress"}
          => tier[c] = "unasked"
    /\ pc[c] \in {"idle", "registry", "allowlist", "schema", "egress",
                  "isolation"} => \A a \in ArgNames : asked[c][a] = "unasked"
    /\ pc[c] \in Steps \ {"measure", "finish", "append", "done"}
          => output[c].kind = "none"

Earned(c) ==
    /\ output[c].kind # "none" => PassesPolicy(c) /\ Isolated(c)
    /\ tier[c] # "unasked" => PassesPolicy(c)
    /\ (\E a \in ArgNames : asked[c][a] # "unasked")
          => PassesPolicy(c) /\ Isolated(c)

LadderInv == \A c \in Calls : Cleared(c) /\ Untouched(c) /\ Earned(c)

LEMMA LadderInvImplies ==
    IInv /\ LadderInv
       => HandlerOnlyWhenPermitted /\ SandboxOnlyForPermittedCalls
  BY DEF IInv, RegistrationFound, Found, LadderInv, Cleared, Earned,
         HandlerOnlyWhenPermitted, SandboxOnlyForPermittedCalls, HandlerRan,
         PassesPolicy, PastIsolation, PastEgress, PastSchema, PastAllowlist,
         Steps

LEMMA InitLadderInv == Init => LadderInv
<1> SUFFICES ASSUME Init, NEW c \in Calls
             PROVE  Cleared(c) /\ Untouched(c) /\ Earned(c)
  BY DEF LadderInv
<1>1. /\ pc[c] = "idle"
      /\ tier[c] = "unasked"
      /\ output[c].kind = "none"
      /\ \A a \in ArgNames : asked[c][a] = "unasked"
  BY DEF Init, NoOutput, Outcome
<1>2. QED
  BY <1>1 DEF Cleared, Untouched, Earned, PastIsolation, PastEgress,
              PastSchema, PastAllowlist

LEMMA NextLadderInv == IInv /\ LadderInv /\ [Next]_vars => LadderInv'
<1> SUFFICES ASSUME IInv, LadderInv, [Next]_vars, NEW c \in Calls
             PROVE  (Cleared(c) /\ Untouched(c) /\ Earned(c))'
  BY DEF LadderInv
<1> DEFINE Good == Cleared(c) /\ Untouched(c) /\ Earned(c)
<1>a. TypeOK /\ Found(c) /\ Good
  BY DEF IInv, RegistrationFound, LadderInv
<1> USE <1>a DEF TypeOK, Found, Cleared, Untouched, Earned, PassesPolicy,
                 Isolated, ToolSpec, opening, answers, handling, closing, Goto,
                 Steps, PastIsolation, PastEgress, PastSchema, PastAllowlist
<1>1. ASSUME NEW n \in DOMAIN ToolSpecs, Register(n) PROVE Good'
  BY <1>1 DEF Register
<1>2. CASE Tick
  BY <1>2 DEF Tick
<1>3. ASSUME NEW d \in Calls, NEW r \in Requests, Begin(d, r)
      PROVE  Good'
  BY <1>3 DEF Begin
<1>4. ASSUME NEW d \in Calls, Ladder(d) PROVE Good'
  <2>1. CASE CheckRegistry(d)
    BY <2>1 DEF CheckRegistry, Check, RegistryVerdict, Pass, Refuse, AfterCheck
  <2>2. CASE CheckAllowlist(d)
    BY <2>2 DEF CheckAllowlist, Check, AllowlistVerdict, Pass, Refuse,
                AfterCheck, Approved
  <2>3. CASE CheckSchema(d)
    BY <2>3 DEF CheckSchema, Check, SchemaVerdict, Pass, Refuse, AfterCheck
  <2>4. CASE CheckEgress(d)
    BY <2>4 DEF CheckEgress, Check, EgressVerdict, Pass, Refuse, AfterCheck
  <2>5. CASE SkipIsolation(d)
    BY <2>5 DEF SkipIsolation, Pass, AfterCheck
  <2>6. CASE ProbeIsolation(d)
    BY <2>6, ConstantsAssumption
       DEF ProbeIsolation, Pass, Refuse, AfterCheck, NoTier,
           ConstantsAssumption
  <2>7. CASE SkipPath(d)
    BY <2>7 DEF SkipPath
  <2>8. CASE ResolvePath(d)
    <3>1. CASE c # d
      <4>1. /\ pc'[c] = pc[c] /\ request'[c] = request[c]
            /\ known'[c] = known[c] /\ tier'[c] = tier[c]
            /\ asked'[c] = asked[c] /\ output'[c] = output[c]
        BY <2>8, <3>1 DEF ResolvePath, Refuse
      <4>2. QED
        BY <4>1
    <3>2. CASE c = d
      <4>1. pc[c] = "paths" /\ pc'[c] \in {"paths", "finish"}
        BY <2>8, <3>2 DEF ResolvePath, Refuse
      <4>2. UNCHANGED <<request, known, tier, output>>
        BY <2>8 DEF ResolvePath
      <4>3. QED
        BY <4>1, <4>2
    <3>3. QED
      BY <3>1, <3>2
  <2>9. CASE PathsDone(d)
    BY <2>9 DEF PathsDone, Pass, AfterCheck
  <2>10. QED
    BY <1>4, <2>1, <2>2, <2>3, <2>4, <2>5, <2>6, <2>7, <2>8, <2>9 DEF Ladder
<1>5. ASSUME NEW d \in Calls, StartHandler(d) PROVE Good'
  BY <1>5 DEF StartHandler
<1>6. ASSUME NEW d \in Calls, Handler(d) PROVE Good'
  <2>1. /\ pc[d] = "running"
        /\ pc' = [pc EXCEPT ![d] = pc'[d]]
        /\ pc'[d] \in {"measure", "finish"}
        /\ \A e \in Calls : e # d => output'[e] = output[e]
        /\ UNCHANGED <<opening, answers>>
    BY <1>6 DEF Handler, HandlerReturns, HandlerRaises
  <2>2. QED
    BY <2>1
<1>7. ASSUME NEW d \in Calls, Close(d) PROVE Good'
  BY <1>7 DEF Close, Measure, Finish, AppendRecord, AppendFails, Leave
<1>8. CASE UNCHANGED vars
  BY <1>8 DEF vars
<1>9. QED
  BY <1>1, <1>2, <1>3, <1>4, <1>5, <1>6, <1>7, <1>8 DEF Next, Execute

\* A handler runs only if every check passed, and the sandbox is consulted
\* only for a call that no earlier check refuses.
THEOREM HandlersPermitted == Spec => []HandlerOnlyWhenPermitted
<1>1. Init => IInv /\ LadderInv
  BY InitIInv, InitLadderInv
<1>2. (IInv /\ LadderInv) /\ [Next]_vars => (IInv /\ LadderInv)'
  BY NextIInv, NextLadderInv
<1>3. QED
  BY <1>1, <1>2, LadderInvImplies, PTL DEF Spec

THEOREM SandboxSpared == Spec => []SandboxOnlyForPermittedCalls
<1>1. Init => IInv /\ LadderInv
  BY InitIInv, InitLadderInv
<1>2. (IInv /\ LadderInv) /\ [Next]_vars => (IInv /\ LadderInv)'
  BY NextIInv, NextLadderInv
<1>3. QED
  BY <1>1, <1>2, LadderInvImplies, PTL DEF Spec

(***************************************************************************)
(* Path arguments.                                                         *)
(***************************************************************************)

\* The i-th declared path argument, if present, has been replaced by its
\* resolution against the right roots.
ResolvedArg(c, i) ==
    PathArgs(c)[i].arg \in request[c].args
       => args[c][PathArgs(c)[i].arg] = PathArgs(c)[i].access

PathsFollowed(c) ==
    /\ pc[c] \in {"idle", "registry", "allowlist", "schema", "egress",
                  "isolation"} => at[c] = 0
    /\ pc[c] = "paths" => /\ at[c] <= Len(PathArgs(c))
                          /\ \A i \in 1 .. at[c] : ResolvedArg(c, i)
    /\ pc[c] = "ready" \/ HandlerRan(c)
          => \A i \in 1 .. Len(PathArgs(c)) : ResolvedArg(c, i)

PathsInv == \A c \in Calls : PathsFollowed(c)

LEMMA PathArgsSeq ==
    ASSUME IInv, NEW c \in Calls, known[c]
    PROVE  /\ PathArgs(c) \in Seq([arg : ArgNames, access : {"read", "write"}])
           /\ Len(PathArgs(c)) \in Nat
           /\ DOMAIN PathArgs(c) = 1 .. Len(PathArgs(c))
           /\ \A i, j \in 1 .. Len(PathArgs(c)) :
                 PathArgs(c)[i].arg = PathArgs(c)[j].arg => i = j
<1>1. PathArgs(c) \in Seq([arg : ArgNames, access : {"read", "write"}])
  BY ToolSpecType DEF PathArgs, SpecType
<1>2. DOMAIN PathArgs(c) = 1 .. Len(PathArgs(c)) /\ Len(PathArgs(c)) \in Nat
  BY <1>1
<1>3. request[c].name \in DOMAIN ToolSpecs
  BY DEF IInv, TypeOK, RegistrationFound, Found
<1>4. QED
  BY <1>1, <1>2, <1>3, ConstantsAssumption
     DEF PathArgs, ToolSpec, ConstantsAssumption

LEMMA NextPathsInv ==
    IInv /\ LadderInv /\ PathsInv /\ [Next]_vars => PathsInv'
<1> SUFFICES ASSUME IInv, LadderInv, PathsInv, [Next]_vars, NEW c \in Calls
             PROVE  PathsFollowed(c)'
  BY DEF PathsInv
<1>a. TypeOK /\ Found(c) /\ Untouched(c) /\ PathsFollowed(c)
  BY DEF IInv, RegistrationFound, LadderInv, PathsInv
<1> USE <1>a DEF TypeOK, opening, answers, handling, closing, Goto
\* A step that leaves the call's own state alone, or only moves it on.
<1>b. ASSUME UNCHANGED <<request[c], args[c], at[c]>>,
             pc'[c] \in {"paths", "ready", "running", "measure"}
                => pc'[c] = pc[c] \/ <<pc[c], pc'[c]>> \in
                      {<<"ready", "running">>, <<"running", "measure">>},
             pc'[c] \in {"idle", "registry", "allowlist", "schema", "egress",
                         "isolation"}
                => pc[c] \in {"idle", "registry", "allowlist", "schema",
                              "egress", "isolation"},
             output'[c].kind # "none" => HandlerRan(c)
      PROVE  PathsFollowed(c)'
  BY <1>b DEF PathsFollowed, ResolvedArg, PathArgs, ToolSpec, HandlerRan
<1>1. ASSUME NEW n \in DOMAIN ToolSpecs, Register(n) PROVE PathsFollowed(c)'
  BY <1>1, <1>b DEF Register, HandlerRan
<1>2. CASE Tick
  BY <1>2, <1>b DEF Tick, HandlerRan
<1>3. ASSUME NEW d \in Calls, NEW r \in Requests, Begin(d, r)
      PROVE  PathsFollowed(c)'
  <2>1. CASE c = d
    BY <1>3, <2>1 DEF Begin, PathsFollowed, HandlerRan, Untouched, Steps
  <2>2. CASE c # d
    BY <1>3, <2>2, <1>b DEF Begin, HandlerRan
  <2>3. QED
    BY <2>1, <2>2
<1>4. ASSUME NEW d \in Calls, Ladder(d) PROVE PathsFollowed(c)'
  <2>1. CASE CheckRegistry(d) \/ CheckAllowlist(d)
             \/ CheckSchema(d) \/ CheckEgress(d)
    BY <2>1, <1>b
       DEF CheckRegistry, CheckAllowlist, CheckSchema, CheckEgress, Check,
           Pass, Refuse, AfterCheck, HandlerRan
  <2>2. CASE SkipIsolation(d) \/ ProbeIsolation(d)
    <3>1. CASE c = d
      <4>1. /\ pc[c] = "isolation" /\ pc'[c] \in {"paths", "finish"}
            /\ at'[c] = 0 /\ output'[c].kind = "none"
        BY <2>2, <3>1 DEF SkipIsolation, ProbeIsolation, Pass, Refuse,
                          AfterCheck, PathsFollowed, Untouched, Steps
      <4>2. known[c] /\ UNCHANGED request
        BY <2>2, <4>1 DEF SkipIsolation, ProbeIsolation, Found, Steps
      <4>3. QED
        BY <4>1, <4>2, PathArgsSeq
           DEF PathsFollowed, HandlerRan, PathArgs, ToolSpec
    <3>2. CASE c # d
      BY <2>2, <3>2, <1>b
         DEF SkipIsolation, ProbeIsolation, Pass, Refuse, HandlerRan
    <3>3. QED
      BY <3>1, <3>2
  <2>3. CASE c # d /\ (SkipPath(d) \/ ResolvePath(d) \/ PathsDone(d))
    BY <2>3, <1>b DEF SkipPath, ResolvePath, PathsDone, Pass, Refuse,
                      HandlerRan
  <2>4. CASE c = d /\ (SkipPath(d) \/ ResolvePath(d) \/ PathsDone(d))
    <3>1. /\ pc[c] = "paths" /\ known[c] /\ UNCHANGED <<request, output>>
          /\ output[c].kind = "none"
      BY <2>4 DEF SkipPath, ResolvePath, PathsDone, Found, Untouched, Steps
    <3> DEFINE n == at[c] + 1
    <3>i. at[c] \in Nat /\ Len(PathArgs(c)) \in Nat
      BY <3>1, PathArgsSeq
    <3>j. \A i \in 1 .. at[c] : ResolvedArg(c, i)
      BY <3>1 DEF PathsFollowed
    <3>k. PathArgs(c)' = PathArgs(c)
      BY <3>1 DEF PathArgs, ToolSpec
    <3>2. CASE SkipPath(c)
      <4>1. /\ pc'[c] = "paths" /\ at'[c] = n /\ args' = args
            /\ n <= Len(PathArgs(c))
            /\ PathArgs(c)[n].arg \notin request[c].args
        BY <3>2, <3>i DEF SkipPath
      <4>2. ASSUME NEW i \in 1 .. n PROVE ResolvedArg(c, i)'
        <5>1. request' = request /\ args' = args
          BY <3>1, <4>1
        <5>2. CASE i \in 1 .. at[c]
          <6>1. ResolvedArg(c, i)
            BY <3>j, <5>2
          <6>2. QED
            BY <3>k, <5>1, <6>1 DEF ResolvedArg
        <5>3. CASE i = n
          BY <3>k, <4>1, <5>1, <5>3 DEF ResolvedArg
        <5>4. QED
          BY <3>i, <5>2, <5>3
      <4>3. QED
        BY <3>1, <3>k, <4>1, <4>2 DEF PathsFollowed, HandlerRan
    <3>3. CASE ResolvePath(c)
      <4> DEFINE path == PathArgs(c)[n]
      <4>1. CASE /\ asked' = [asked EXCEPT ![c][path.arg] = "inside"]
                 /\ args' = [args EXCEPT ![c][path.arg] = path.access]
                 /\ at' = [at EXCEPT ![c] = @ + 1]
                 /\ UNCHANGED <<pc, refusal>>
        <5>1. n <= Len(PathArgs(c)) /\ path.arg \in request[c].args
          BY <3>3, <3>i DEF ResolvePath
        <5>2. path.arg \in ArgNames
          BY <3>1, <3>3, PathArgType DEF ResolvePath
        <5>3. args'[c][path.arg] = path.access
          BY <4>1, <5>2
        <5>4. ASSUME NEW i \in 1 .. at[c] PROVE ResolvedArg(c, i)'
          <6>1. PathArgs(c)[i].arg # path.arg
            <7>1. i \in 1 .. Len(PathArgs(c)) /\ n \in 1 .. Len(PathArgs(c))
              BY <3>i, <5>1
            <7>2. i # n
              BY <3>i
            <7>3. QED
              BY <3>1, <7>1, <7>2, PathArgsSeq
          <6>2. args'[c][PathArgs(c)[i].arg] = args[c][PathArgs(c)[i].arg]
            BY <4>1, <6>1
          <6>3. QED
            BY <3>1, <3>j, <3>k, <6>2 DEF ResolvedArg
        <5>5. \A i \in 1 .. n : ResolvedArg(c, i)'
          BY <3>1, <3>i, <3>k, <5>3, <5>4 DEF ResolvedArg
        <5>6. QED
          BY <3>1, <3>k, <4>1, <5>1, <5>5 DEF PathsFollowed, HandlerRan
      <4>2. CASE /\ pc'[c] = "finish"
                 /\ UNCHANGED <<at, args>>
        BY <3>1, <4>2 DEF PathsFollowed, HandlerRan
      <4>3. QED
        BY <3>3, <4>1, <4>2 DEF ResolvePath, Resolved, Refuse
    <3>4. CASE PathsDone(c)
      BY <3>1, <3>4
         DEF PathsDone, Pass, AfterCheck, PathsFollowed, ResolvedArg,
             HandlerRan, PathArgs, ToolSpec
    <3>5. QED
      BY <2>4, <3>2, <3>3, <3>4
  <2>5. QED
    BY <1>4, <2>1, <2>2, <2>3, <2>4 DEF Ladder
<1>5. ASSUME NEW d \in Calls, StartHandler(d) PROVE PathsFollowed(c)'
  BY <1>5, <1>b DEF StartHandler, HandlerRan
<1>6. ASSUME NEW d \in Calls, Handler(d) PROVE PathsFollowed(c)'
  BY <1>6, <1>b DEF Handler, HandlerReturns, HandlerRaises, HandlerRan
<1>7. ASSUME NEW d \in Calls, Close(d) PROVE PathsFollowed(c)'
  BY <1>7, <1>b DEF Close, Measure, Finish, AppendRecord, AppendFails, Leave,
                    HandlerRan
<1>8. CASE UNCHANGED vars
  BY <1>8, <1>b DEF vars, HandlerRan
<1>9. QED
  BY <1>1, <1>2, <1>3, <1>4, <1>5, <1>6, <1>7, <1>8 DEF Next, Execute

\* The handler works on resolved paths only.
THEOREM PathsResolved == Spec => []HandlerGetsResolvedPaths
<1>1. Init => IInv /\ LadderInv /\ PathsInv
  <2>1. Init => PathsInv
    <3> SUFFICES ASSUME Init, NEW c \in Calls PROVE PathsFollowed(c)
      BY DEF PathsInv
    <3>1. pc[c] = "idle" /\ at[c] = 0 /\ output[c].kind = "none"
      BY DEF Init, NoOutput, Outcome
    <3>2. QED
      BY <3>1 DEF PathsFollowed, HandlerRan
  <2>2. QED
    BY <2>1, InitIInv, InitLadderInv
<1>2. (IInv /\ LadderInv /\ PathsInv) /\ [Next]_vars
         => (IInv /\ LadderInv /\ PathsInv)'
  BY NextIInv, NextLadderInv, NextPathsInv
<1>3. IInv /\ LadderInv /\ PathsInv => HandlerGetsResolvedPaths
  <2> SUFFICES ASSUME IInv, LadderInv, PathsInv,
                      NEW c \in Calls, HandlerRan(c),
                      NEW i \in DOMAIN PathArgs(c)
               PROVE  ResolvedArg(c, i)
    BY DEF HandlerGetsResolvedPaths, ResolvedArg
  <2>1. known[c]
    BY LadderInvImplies DEF HandlerOnlyWhenPermitted, PassesPolicy
  <2>2. QED
    BY <2>1, PathArgsSeq DEF PathsInv, PathsFollowed
<1>4. QED
  BY <1>1, <1>2, <1>3, PTL DEF Spec

(***************************************************************************)
(* Calls share nothing but the registry, the clock and the store.          *)
(***************************************************************************)

LEMMA OtherCallsAlone ==
    ASSUME TypeOK, NEW c \in Calls, NEW d \in Calls, d # c,
           \/ \E r \in Requests : Begin(d, r)
           \/ Ladder(d) \/ StartHandler(d) \/ Handler(d) \/ Close(d)
    PROVE  UNCHANGED <<pc[c], request[c], output[c], elapsed[c], refusal[c],
                       result[c], record[c], exit[c]>>
<1> USE DEF TypeOK, opening, answers, handling, closing, Goto
<1>1. ASSUME NEW r \in Requests, Begin(d, r)
      PROVE  UNCHANGED <<pc[c], request[c], output[c], elapsed[c], refusal[c],
                         result[c], record[c], exit[c]>>
  BY <1>1 DEF Begin
<1>2. CASE Ladder(d)
  BY <1>2 DEF Ladder, CheckRegistry, CheckAllowlist, CheckSchema, CheckEgress,
              Check, SkipIsolation, ProbeIsolation, SkipPath, ResolvePath,
              PathsDone, Pass, Refuse
<1>3. CASE StartHandler(d) \/ Handler(d)
  BY <1>3 DEF StartHandler, Handler, HandlerReturns, HandlerRaises
<1>4. CASE Close(d)
  BY <1>4 DEF Close, Measure, Finish, AppendRecord, AppendFails, Leave
<1>5. QED
  BY <1>1, <1>2, <1>3, <1>4

(***************************************************************************)
(* Verdicts and durations.  Between the step that decides a call and the   *)
(* one that builds its result, the decision and the measurement it was     *)
(* made on are kept together; afterwards neither result nor record moves.  *)
(***************************************************************************)

Decided(c) ==
    /\ pc[c] \in Steps \ {"finish", "append", "done"} => ~elapsed[c].known
    /\ pc[c] = "measure" => output[c] \in HandlerOutputs
    /\ pc[c] = "finish" =>
          /\ refusal[c].reason = "none" <=> refusal[c].status = "ok"
          /\ refusal[c].status = "ok"
                => elapsed[c].known /\ elapsed[c].ticks <= Limit(c)
          /\ refusal[c].status = "timeout" /\ output[c].kind # "refusal"
                => elapsed[c].known /\ elapsed[c].ticks > Limit(c)

Durations(c) ==
    Settled(c) =>
        /\ result[c].status = "ok"
              => 2 * (TicksPerMs * result[c].duration_ms)
                    <= 2 * Limit(c) + TicksPerMs
        /\ result[c].status = "timeout" /\ output[c].kind # "refusal"
              => 2 * (TicksPerMs * result[c].duration_ms) + TicksPerMs
                    > 2 * Limit(c)

Mirrored(c) == Settled(c) => Mirrors(result[c], record[c], output[c])

VerdictInv == \A c \in Calls : Decided(c) /\ Durations(c) /\ Mirrored(c)

LEMMA LimitType ==
    ASSUME TypeOK, NEW c \in Calls
    PROVE  Limit(c) \in Nat
  BY ConstantsAssumption DEF TypeOK, Limit, ConstantsAssumption, RequestType

LEMMA FinishVerdict ==
    ASSUME IInv, NEW c \in Calls, Decided(c), Finish(c)
    PROVE  (Durations(c) /\ Mirrored(c))'
<1>a. TypeOK
  BY DEF IInv
<1> DEFINE model == Truncate(ModelText(c), MaxContent)
           rec   == Truncate(RecordText(c), MaxSummary)
<1>1. /\ pc[c] = "finish" /\ pc'[c] = "append"
      /\ UNCHANGED <<request, output>>
      /\ result'[c] = [status |-> refusal[c].status,
                       reason |-> refusal[c].reason,
                       content |-> model, duration_ms |-> Duration(c)]
      /\ record'[c].status = refusal[c].status
      /\ record'[c].reason = refusal[c].reason
      /\ record'[c].duration_ms = Duration(c)
      /\ record'[c].result_summary = rec
      /\ record'[c].digest_of = IF refusal[c].reason = "none"
                                THEN output[c].size ELSE 0
  BY <1>a DEF Finish, Goto, TypeOK, opening, handling
<1>2. ModelText(c) \in TextType /\ RecordText(c) \in TextType
  BY <1>a, ConstantsAssumption
     DEF ModelText, RecordText, OutputText, Sentence, TextType, TypeOK,
         OutputType, RefusalType, ConstantsAssumption
<1>3. /\ model.of = ModelText(c).of /\ rec.of = RecordText(c).of
      /\ model.private = ModelText(c).private
      /\ ~model.cut => model = ModelText(c)
  BY <1>2, TruncateType, ConstantsAssumption DEF ConstantsAssumption
<1>4. /\ ModelText(c).of = RecordText(c).of
      /\ ~ModelText(c).private
      /\ ModelText(c).of = "output" <=> refusal[c].reason = "none"
      /\ refusal[c].reason = "none" => ModelText(c).size = output[c].size
  BY DEF ModelText, RecordText, OutputText, Sentence
<1>5. Durations(c)'
  <2> DEFINE ticks == elapsed[c].ticks
             ms    == TicksPerMs * Rounded(ticks)
  <2>1. /\ result'[c].status = refusal[c].status
        /\ result'[c].duration_ms = Duration(c)
        /\ Limit(c)' = Limit(c) /\ output' = output
    BY <1>1 DEF Limit
  <2>2. elapsed[c].known => Duration(c) = Rounded(ticks)
    BY DEF Duration
  <2>3. ticks \in Nat /\ Limit(c) \in Nat /\ TicksPerMs \in Nat
    BY <1>a, LimitType, ConstantsAssumption
       DEF TypeOK, ElapsedType, ConstantsAssumption
  <2>4. ms \in Nat
    BY <2>3, RoundedIsNear
  <2>5. 2 * ms <= 2 * ticks + TicksPerMs /\ 2 * ticks <= 2 * ms + TicksPerMs
    BY <2>3, RoundedIsNear
  <2>6. elapsed[c].known => TicksPerMs * result'[c].duration_ms = ms
    BY <2>1, <2>2
  <2> HIDE DEF ms, ticks
  <2>7. /\ ticks <= Limit(c) => 2 * ms <= 2 * Limit(c) + TicksPerMs
        /\ ticks > Limit(c) => 2 * ms + TicksPerMs > 2 * Limit(c)
    BY <2>3, <2>4, <2>5
  <2>8. /\ refusal[c].status = "ok"
             => elapsed[c].known /\ ticks <= Limit(c)
        /\ refusal[c].status = "timeout" /\ output[c].kind # "refusal"
             => elapsed[c].known /\ ticks > Limit(c)
    BY <1>1 DEF Decided, ticks
  <2>9. QED
    BY <2>1, <2>6, <2>7, <2>8 DEF Durations
<1>6. Mirrored(c)'
  <2> HIDE DEF model, rec
  <2>1. QED
    BY <1>1, <1>3, <1>4 DEF Mirrored, Mirrors, Decided
<1>7. QED
  BY <1>5, <1>6

\* A handler's own answer is an OK output or a refusal with a reason.
LEMMA HandlerOutputVerdict ==
    ASSUME NEW out \in HandlerOutputs
    PROVE  LET r == OutputRefusal(out) IN
           /\ r.reason = "none" <=> r.status = "ok"
           /\ r.status = "timeout" => out.kind = "refusal"
<1>1. CASE \E s \in Sizes : out = Outcome("output", s)
  BY <1>1 DEF Outcome, OutputRefusal, NoRefusal
<1>2. CASE out = Outcome("other", 0)
  BY <1>2 DEF Outcome, OutputRefusal, HandlerError
<1>3. CASE out \in [kind : {"refusal"}, size : {0}, reason : HandlerReasons,
                    status : Statuses \ {"ok"}, private : BOOLEAN]
  BY <1>3, ConstantsAssumption DEF OutputRefusal, ConstantsAssumption
<1>4. QED
  BY <1>1, <1>2, <1>3 DEF HandlerOutputs

LEMMA NextVerdictInv == IInv /\ VerdictInv /\ [Next]_vars => VerdictInv'
<1> SUFFICES ASSUME IInv, VerdictInv, [Next]_vars, NEW c \in Calls
             PROVE  (Decided(c) /\ Durations(c) /\ Mirrored(c))'
  BY DEF VerdictInv
<1> DEFINE Good == Decided(c) /\ Durations(c) /\ Mirrored(c)
<1>a. TypeOK /\ Good
  BY DEF IInv, VerdictInv
<1> USE <1>a DEF TypeOK, opening, answers, handling, closing, Goto
\* A step that leaves alone what the verdict of this call rests on.
<1>b. ASSUME UNCHANGED <<pc[c], request[c], output[c], elapsed[c],
                         refusal[c], result[c], record[c]>>
      PROVE  Good'
  BY <1>b DEF Decided, Durations, Mirrored, Settled, Limit
\* A step on which a check refuses or the call moves to a later one.
<1>c. ASSUME pc[c] \in Steps \ {"measure", "finish", "append", "done"},
             UNCHANGED elapsed[c],
             \/ pc'[c] \in Steps \ {"measure", "finish", "append", "done"}
             \/ pc'[c] = "finish" /\ refusal'[c].reason # "none"
                /\ refusal'[c].status \in {"refused", "failed"}
      PROVE  Good'
  BY <1>c DEF Decided, Durations, Mirrored, Settled, Steps
<1>1. ASSUME NEW n \in DOMAIN ToolSpecs, Register(n) PROVE Good'
  BY <1>1, <1>b DEF Register
<1>2. CASE Tick
  BY <1>2, <1>b DEF Tick
<1>3. ASSUME NEW d \in Calls, d # c,
             \/ \E r \in Requests : Begin(d, r)
             \/ Ladder(d) \/ StartHandler(d) \/ Handler(d) \/ Close(d)
      PROVE  Good'
  <2>1. UNCHANGED <<pc[c], request[c], output[c], elapsed[c], refusal[c],
                    result[c], record[c]>>
    BY <1>3, OtherCallsAlone
  <2>2. QED
    BY <2>1, <1>b
<1>4. ASSUME NEW r \in Requests, Begin(c, r) PROVE Good'
  BY <1>4, <1>c DEF Begin, Steps
<1>5. CASE Ladder(c)
  <2>1. CASE CheckRegistry(c) \/ CheckAllowlist(c)
             \/ CheckSchema(c) \/ CheckEgress(c)
    BY <2>1, <1>c
       DEF CheckRegistry, CheckAllowlist, CheckSchema, CheckEgress, Check,
           Pass, Refuse, AfterCheck, Steps
  <2>2. CASE SkipIsolation(c) \/ ProbeIsolation(c)
    BY <2>2, <1>c DEF SkipIsolation, ProbeIsolation, Pass, Refuse, AfterCheck,
                      Steps
  <2>3. CASE SkipPath(c) \/ ResolvePath(c) \/ PathsDone(c)
    BY <2>3, <1>c DEF SkipPath, ResolvePath, PathsDone, Pass, Refuse,
                      AfterCheck, Steps
  <2>4. QED
    BY <1>5, <2>1, <2>2, <2>3 DEF Ladder
<1>6. CASE StartHandler(c)
  BY <1>6, <1>c DEF StartHandler, Steps
<1>7. CASE Handler(c)
  <2>1. ASSUME NEW out \in HandlerOutputs, HandlerReturns(c, out)
        PROVE  Good'
    BY <2>1 DEF HandlerReturns, Decided, Durations, Mirrored, Settled, Steps
  <2>2. ASSUME NEW kind \in {"exception", "interrupt"}, HandlerRaises(c, kind)
        PROVE  Good'
    <3>1. /\ pc[c] = "running" /\ pc'[c] = "finish"
          /\ refusal'[c] = HandlerError
      BY <2>2 DEF HandlerRaises
    <3>2. QED
      BY <3>1 DEF HandlerError, Decided, Durations, Mirrored, Settled, Steps
  <2>3. QED
    BY <1>7, <2>1, <2>2 DEF Handler
<1>8. CASE Measure(c)
  <2>1. /\ pc[c] = "measure" /\ pc'[c] = "finish"
        /\ UNCHANGED <<request, output>>
        /\ elapsed'[c] = [known |-> TRUE, ticks |-> Elapsed(c)]
        /\ refusal'[c] = Judge(c)
    BY <1>8 DEF Measure
  <2>2. Elapsed(c) \in Nat /\ Limit(c) \in Nat
    BY ElapsedIsNat, LimitType
  <2>3. LET r == OutputRefusal(output[c]) IN
        /\ r.reason = "none" <=> r.status = "ok"
        /\ r.status = "timeout" => output[c].kind = "refusal"
    BY <2>1, HandlerOutputVerdict DEF Decided
  <2>4. QED
    BY <2>1, <2>2, <2>3 DEF Decided, Durations, Mirrored, Settled, Limit, Judge, TimedOut
<1>9. CASE Finish(c)
  <2>1. Durations(c)' /\ Mirrored(c)'
    BY <1>9, FinishVerdict
  <2>2. Decided(c)'
    BY <1>9 DEF Finish, Decided
  <2>3. QED
    BY <2>1, <2>2
<1>10. CASE AppendRecord(c) \/ AppendFails(c)
  BY <1>10 DEF AppendRecord, AppendFails, Leave, Decided, Durations,
               Mirrored, Settled, Limit
<1>11. CASE UNCHANGED vars
  BY <1>11, <1>b DEF vars
<1>12. QED
  BY <1>1, <1>2, <1>3, <1>4, <1>5, <1>6, <1>7, <1>8, <1>9, <1>10, <1>11
     DEF Next, Execute, Close

LEMMA InitVerdictInv == Init => VerdictInv
<1> SUFFICES ASSUME Init, NEW c \in Calls
             PROVE  Decided(c) /\ Durations(c) /\ Mirrored(c)
  BY DEF VerdictInv
<1>1. pc[c] = "idle" /\ ~elapsed[c].known
  BY DEF Init, NotMeasured
<1>2. QED
  BY <1>1 DEF Decided, Durations, Mirrored, Settled

\* The duration reported is the one the verdict was decided on, to half a
\* millisecond.
THEOREM DurationsMatch == Spec => []DurationMatchesVerdict
<1>1. Init => IInv /\ VerdictInv
  BY InitIInv, InitVerdictInv
<1>2. (IInv /\ VerdictInv) /\ [Next]_vars => (IInv /\ VerdictInv)'
  BY NextIInv, NextVerdictInv
<1>3. VerdictInv => DurationMatchesVerdict
  BY DEF VerdictInv, Durations, DurationMatchesVerdict
<1>4. QED
  BY <1>1, <1>2, <1>3, PTL DEF Spec

(***************************************************************************)
(* The journal.  A call's record enters the store in the step that ends    *)
(* the call, and a call ends once; its record is fixed before that.        *)
(***************************************************************************)

Kept(c) == exit[c] \in {"returned", "reraised"}

JournalInv ==
    /\ \A c \in Calls : pc[c] # "done" => exit[c] = "none"
    /\ \A i \in 1 .. Len(store) :
          /\ HasStore /\ store[i].call \in Calls
          /\ Kept(store[i].call)
          /\ store[i] = record[store[i].call]
    /\ \A i, j \in 1 .. Len(store) : store[i].call = store[j].call => i = j
    /\ \A c \in Calls : HasStore /\ Kept(c)
          => \E i \in 1 .. Len(store) : store[i].call = c
    /\ \A c \in Calls : record[c].call = c

LEMMA NextJournalInv == IInv /\ JournalInv /\ [Next]_vars => JournalInv'
<1> SUFFICES ASSUME IInv, JournalInv, [Next]_vars PROVE JournalInv'
  OBVIOUS
<1>a. TypeOK
  BY DEF IInv
<1> USE <1>a DEF TypeOK, opening, answers, handling, closing, Goto, Kept
\* Steps that neither end a call nor build a record.
<1>b. ASSUME UNCHANGED <<store, record, exit>>,
             \A c \in Calls : pc[c] = "done" => pc'[c] = "done"
      PROVE  JournalInv'
  BY <1>b DEF JournalInv
<1>1. ASSUME NEW n \in DOMAIN ToolSpecs, Register(n) PROVE JournalInv'
  BY <1>1, <1>b DEF Register
<1>2. CASE Tick
  BY <1>2, <1>b DEF Tick
<1>3. ASSUME NEW c \in Calls,
             \/ \E r \in Requests : Begin(c, r)
             \/ StartHandler(c) \/ Handler(c) \/ Measure(c)
      PROVE  JournalInv'
  BY <1>3, <1>b
     DEF Begin, StartHandler, Handler, HandlerReturns, HandlerRaises, Measure
<1>4. ASSUME NEW c \in Calls, Ladder(c) PROVE JournalInv'
  BY <1>4, <1>b
     DEF Ladder, CheckRegistry, CheckAllowlist, CheckSchema, CheckEgress,
         Check, SkipIsolation, ProbeIsolation, SkipPath, ResolvePath,
         PathsDone, Pass, Refuse
<1>5. ASSUME NEW c \in Calls, Finish(c) PROVE JournalInv'
  <2>a. /\ pc[c] = "finish" /\ UNCHANGED <<store, exit>>
        /\ pc' = [pc EXCEPT ![c] = "append"]
    BY <1>5 DEF Finish
  <2>b. /\ \A d \in Calls : d # c => record'[d] = record[d]
        /\ record'[c].call = c
    BY <1>5 DEF Finish
  <2>c. \A d \in Calls : pc[d] # "done" => exit[d] = "none"
    BY DEF JournalInv
  <2>d. \A d \in Calls : pc'[d] # "done" => exit[d] = "none"
    BY <2>a, <2>c
  <2>1. /\ pc[c] = "finish" /\ exit[c] = "none" /\ UNCHANGED <<store, exit>>
        /\ \A d \in Calls : d # c => record'[d] = record[d]
        /\ record'[c].call = c
        /\ \A d \in Calls : pc'[d] # "done" => exit[d] = "none"
    BY <2>a, <2>b, <2>c, <2>d
  <2>2. \A i \in 1 .. Len(store) : store[i].call \in Calls \ {c}
    BY <2>1 DEF JournalInv
  <2>3. \A d \in Calls : record'[d].call = d
    BY <2>1 DEF JournalInv
  <2> HIDE <1>a DEF TypeOK, opening, answers, handling, closing, Goto
  <2>4. \A i \in 1 .. Len(store') :
           /\ HasStore /\ store'[i].call \in Calls
           /\ Kept(store[i].call)'
           /\ store'[i] = record'[store'[i].call]
    BY <2>1, <2>2 DEF JournalInv
  <2>5. \A i, j \in 1 .. Len(store') :
           store'[i].call = store'[j].call => i = j
    BY <2>1 DEF JournalInv
  <2>6. \A d \in Calls : HasStore /\ Kept(d)'
           => \E i \in 1 .. Len(store') : store'[i].call = d
    BY <2>1 DEF JournalInv
  <2>7. QED
    BY <2>1, <2>3, <2>4, <2>5, <2>6 DEF JournalInv
<1>6. ASSUME NEW c \in Calls, AppendRecord(c) PROVE JournalInv'
  <2>1. /\ pc[c] = "append" /\ exit[c] = "none"
        /\ exit' = [exit EXCEPT ![c] = LeftBy(c)]
        /\ LeftBy(c) \in {"returned", "reraised"}
        /\ pc' = [pc EXCEPT ![c] = "done"] /\ UNCHANGED record
    BY <1>6 DEF AppendRecord, Leave, LeftBy, JournalInv
  <2>2. \A i \in 1 .. Len(store) : store[i].call # c
    BY <2>1 DEF JournalInv
  <2>3. CASE HasStore
    <3>1. /\ Len(store') = Len(store) + 1 /\ Len(store) \in Nat
          /\ store'[Len(store) + 1] = record[c]
          /\ \A i \in 1 .. Len(store) : store'[i] = store[i]
      BY <1>6, <2>3 DEF AppendRecord
    <3>2. \A i \in 1 .. Len(store') :
             i \in 1 .. Len(store) \/ i = Len(store) + 1
      BY <3>1
    <3> HIDE <1>a DEF TypeOK, opening, answers, handling, closing, Goto, Kept
    <3>a. /\ exit[c] = "none" /\ exit'[c] \in {"returned", "reraised"}
          /\ \A d \in Calls \ {c} : exit'[d] = exit[d]
          /\ pc'[c] = "done" /\ \A d \in Calls \ {c} : pc'[d] = pc[d]
          /\ record' = record
      BY <1>a, <2>1 DEF TypeOK
    <3>3. \A i \in 1 .. Len(store) :
             /\ store'[i] = record'[store'[i].call]
             /\ store'[i].call \in Calls \ {c}
             /\ Kept(store[i].call)'
      BY <2>2, <3>1, <3>a DEF JournalInv, Kept
    <3>4. /\ store'[Len(store) + 1].call = c /\ Kept(c)'
          /\ store'[Len(store) + 1] = record'[c]
      BY <3>1, <3>a DEF JournalInv, Kept
    <3>5. \A i \in 1 .. Len(store') :
             /\ HasStore /\ store'[i].call \in Calls
             /\ Kept(store[i].call)'
             /\ store'[i] = record'[store'[i].call]
      BY <2>3, <3>2, <3>3, <3>4
    <3>6. \A i, j \in 1 .. Len(store') :
             store'[i].call = store'[j].call => i = j
      BY <3>1, <3>2, <3>3, <3>4 DEF JournalInv
    <3>7. ASSUME NEW d \in Calls, Kept(d)'
          PROVE  \E i \in 1 .. Len(store') : store'[i].call = d
      <4>1. CASE d = c
        BY <3>1, <3>4, <4>1
      <4>2. CASE d # c
        <5>1. Kept(d)
          BY <3>7, <3>a, <4>2 DEF Kept
        <5>2. PICK i \in 1 .. Len(store) : store[i].call = d
          BY <2>3, <5>1 DEF JournalInv
        <5>3. i \in 1 .. Len(store') /\ store'[i].call = d
          BY <3>1, <5>2
        <5>4. QED
          BY <5>3
      <4>3. QED
        BY <4>1, <4>2
    <3>8. /\ \A d \in Calls : pc'[d] # "done" => exit'[d] = "none"
          /\ \A d \in Calls : record'[d].call = d
      BY <3>a DEF JournalInv
    <3>9. QED
      BY <3>5, <3>6, <3>7, <3>8 DEF JournalInv
  <2>4. CASE ~HasStore
    BY <1>6, <2>1, <2>4 DEF AppendRecord, JournalInv
  <2>5. QED
    BY <2>3, <2>4
<1>7. ASSUME NEW c \in Calls, AppendFails(c) PROVE JournalInv'
  BY <1>7 DEF AppendFails, Leave, JournalInv
<1>8. CASE UNCHANGED vars
  BY <1>8, <1>b DEF vars
<1>9. QED
  BY <1>1, <1>2, <1>3, <1>4, <1>5, <1>6, <1>7, <1>8 DEF Next, Execute, Close

LEMMA InitJournalInv == Init => JournalInv
  BY DEF Init, JournalInv, Kept, NoRecord

LEMMA JournalInvImplies ==
    IInv /\ VerdictInv /\ JournalInv => RecordedOnce /\ RecordMirrorsResult
<1> SUFFICES ASSUME IInv, VerdictInv, JournalInv
             PROVE  RecordedOnce /\ RecordMirrorsResult
  OBVIOUS
<1>1. DOMAIN store = 1 .. Len(store)
  BY DEF IInv, TypeOK
<1>2. QED
  BY <1>1 DEF JournalInv, Kept, VerdictInv, Mirrored, RecordedOnce,
              RecordMirrorsResult

\* Every call leaves exactly one record, or takes it away on StoreFailure.
THEOREM CallsRecordedOnce == Spec => []RecordedOnce
<1>1. Init => IInv /\ VerdictInv /\ JournalInv
  BY InitIInv, InitVerdictInv, InitJournalInv
<1>2. (IInv /\ VerdictInv /\ JournalInv) /\ [Next]_vars
         => (IInv /\ VerdictInv /\ JournalInv)'
  BY NextIInv, NextVerdictInv, NextJournalInv
<1>3. QED
  BY <1>1, <1>2, JournalInvImplies, PTL DEF Spec

\* What is recorded is what the caller was told.
THEOREM RecordsTruthful == Spec => []RecordMirrorsResult
<1>1. Init => IInv /\ VerdictInv /\ JournalInv
  BY InitIInv, InitVerdictInv, InitJournalInv
<1>2. (IInv /\ VerdictInv /\ JournalInv) /\ [Next]_vars
         => (IInv /\ VerdictInv /\ JournalInv)'
  BY NextIInv, NextVerdictInv, NextJournalInv
<1>3. QED
  BY <1>1, <1>2, JournalInvImplies, PTL DEF Spec

\* A step of one call leaves alone what another call was told.
LEMMA OtherAnswersAlone ==
    ASSUME TypeOK, NEW c \in Calls, NEW d \in Calls, d # c,
           \/ \E r \in Requests : Begin(d, r)
           \/ Ladder(d) \/ StartHandler(d) \/ Handler(d) \/ Close(d)
    PROVE  UNCHANGED <<known[c], start[c], tier[c], asked[c], ran[c]>>
<1> USE DEF TypeOK, opening, answers, handling, closing
<1>1. ASSUME NEW r \in Requests, Begin(d, r)
      PROVE  UNCHANGED <<known[c], start[c], tier[c], asked[c], ran[c]>>
  BY <1>1 DEF Begin
<1>2. CASE Ladder(d)
  BY <1>2 DEF Ladder, CheckRegistry, CheckAllowlist, CheckSchema, CheckEgress,
              Check, SkipIsolation, ProbeIsolation, SkipPath, ResolvePath,
              PathsDone
<1>3. CASE StartHandler(d) \/ Handler(d)
  BY <1>3 DEF StartHandler, Handler, HandlerReturns, HandlerRaises
<1>4. CASE Close(d)
  BY <1>4 DEF Close, Measure, Finish, AppendRecord, AppendFails, Leave
<1>5. QED
  BY <1>1, <1>2, <1>3, <1>4

(***************************************************************************)
(* The first fault decides.  A refusal of the ladder is kept together with *)
(* the fault it names and the checks that came before it: nothing of what  *)
(* they were decided on moves any more once the call has left the ladder.  *)
(***************************************************************************)

FirstFault(c, reason) ==
    LET r == request[c] IN
    \/ reason = "unknown_tool" /\ ~known[c]
    \/ reason = "not_allowlisted" /\ known[c] /\ r.name \notin Allowlist
    \/ /\ reason = "not_approved"
       /\ known[c] /\ r.name \in Allowlist /\ ~Approved(r)
    \/ reason = "args_invalid" /\ known[c] /\ Approved(r) /\ ~r.valid
    \/ /\ reason = "egress_not_permitted"
       /\ known[c] /\ Approved(r) /\ r.valid
       /\ ~Permits(r.max_egress, ToolSpec(c).egress)
    \/ reason = "isolation_unavailable" /\ PassesPolicy(c) /\ ~Isolated(c)
    \/ /\ reason = "path_escape"
       /\ PassesPolicy(c) /\ Isolated(c)
       /\ \E a \in ArgNames : asked[c][a] = "outside"

RefusedFirst(c) ==
    /\ pc[c] = "finish" /\ output[c].kind = "none"
          => FirstFault(c, refusal[c].reason)
    /\ Settled(c) /\ output[c].kind = "none"
          => FirstFault(c, result[c].reason)

OrderInv == \A c \in Calls : RefusedFirst(c)

\* The order of the spelled-out faults is the order of RefusalOrder.
LEMMA FirstFaultInOrder ==
    ASSUME NEW c \in Calls, NEW reason, FirstFault(c, reason)
    PROVE  \E i \in DOMAIN RefusalOrder :
              /\ reason = RefusalOrder[i]
              /\ \A j \in 1 .. i - 1 : ~Fault(c, RefusalOrder[j])
              /\ Fault(c, RefusalOrder[i])
<1>1. /\ DOMAIN RefusalOrder = 1 .. 7
      /\ RefusalOrder[1] = "unknown_tool"
      /\ RefusalOrder[2] = "not_allowlisted"
      /\ RefusalOrder[3] = "not_approved"
      /\ RefusalOrder[4] = "args_invalid"
      /\ RefusalOrder[5] = "egress_not_permitted"
      /\ RefusalOrder[6] = "isolation_unavailable"
      /\ RefusalOrder[7] = "path_escape"
  BY DEF RefusalOrder
<1>2. /\ Fault(c, "unknown_tool") <=> ~known[c]
      /\ Fault(c, "not_allowlisted") <=> request[c].name \notin Allowlist
      /\ Fault(c, "not_approved")
            <=> ~Approved(request[c]) /\ request[c].name \in Allowlist
      /\ Fault(c, "args_invalid") <=> ~request[c].valid
      /\ Fault(c, "egress_not_permitted")
            <=> known[c]
                /\ ~Permits(request[c].max_egress, ToolSpec(c).egress)
      /\ Fault(c, "isolation_unavailable") <=> known[c] /\ ~Isolated(c)
      /\ Fault(c, "path_escape")
            <=> \E a \in ArgNames : asked[c][a] = "outside"
  BY DEF Fault
<1>3. Approved(request[c]) => request[c].name \in Allowlist
  BY DEF Approved
<1> DEFINE First(i) == /\ reason = RefusalOrder[i]
                       /\ \A j \in 1 .. i - 1 : ~Fault(c, RefusalOrder[j])
                       /\ Fault(c, RefusalOrder[i])
<1>4. \E i \in 1 .. 7 : First(i)
  <2>1. CASE reason = "unknown_tool"
    <3>1. First(1)
      BY <1>1, <1>2, <2>1 DEF FirstFault
    <3>2. QED
      BY <3>1
  <2>2. CASE reason = "not_allowlisted"
    <3>1. First(2)
      <4>1. \A j \in 1 .. 1 : j = 1
        OBVIOUS
      <4>2. QED
        BY <1>1, <1>2, <2>2, <4>1 DEF FirstFault
    <3>2. QED
      BY <3>1
  <2>3. CASE reason = "not_approved"
    <3>1. First(3)
      <4>1. \A j \in 1 .. 2 : j = 1 \/ j = 2
        OBVIOUS
      <4>2. QED
        BY <1>1, <1>2, <2>3, <4>1 DEF FirstFault
    <3>2. QED
      BY <3>1
  <2>4. CASE reason = "args_invalid"
    <3>1. First(4)
      <4>1. \A j \in 1 .. 3 : j = 1 \/ j = 2 \/ j = 3
        OBVIOUS
      <4>2. QED
        BY <1>1, <1>2, <1>3, <2>4, <4>1 DEF FirstFault
    <3>2. QED
      BY <3>1
  <2>5. CASE reason = "egress_not_permitted"
    <3>1. First(5)
      <4>1. \A j \in 1 .. 4 : j = 1 \/ j = 2 \/ j = 3 \/ j = 4
        OBVIOUS
      <4>2. QED
        BY <1>1, <1>2, <1>3, <2>5, <4>1 DEF FirstFault
    <3>2. QED
      BY <3>1
  <2>6. CASE reason = "isolation_unavailable"
    <3>1. First(6)
      <4>1. \A j \in 1 .. 5 : j = 1 \/ j = 2 \/ j = 3 \/ j = 4 \/ j = 5
        OBVIOUS
      <4>2. QED
        BY <1>1, <1>2, <1>3, <2>6, <4>1 DEF FirstFault, PassesPolicy
    <3>2. QED
      BY <3>1
  <2>7. CASE reason = "path_escape"
    <3>1. First(7)
      <4>1. \A j \in 1 .. 6 :
               j = 1 \/ j = 2 \/ j = 3 \/ j = 4 \/ j = 5 \/ j = 6
        OBVIOUS
      <4>2. QED
        BY <1>1, <1>2, <1>3, <2>7, <4>1 DEF FirstFault, PassesPolicy
    <3>2. QED
      BY <3>1
  <2>8. QED
    BY <2>1, <2>2, <2>3, <2>4, <2>5, <2>6, <2>7 DEF FirstFault
<1>5. QED
  BY <1>1, <1>4

\* The ladder's part: where it refuses, it names the first fault.
LEMMA LadderRefusesFirst ==
    ASSUME IInv, LadderInv, NEW c \in Calls, Ladder(c),
           pc'[c] \notin {"registry", "allowlist", "schema", "egress",
                          "isolation", "paths", "ready"}
    PROVE  pc'[c] = "finish" /\ FirstFault(c, refusal[c].reason)'
<1>a. TypeOK /\ Found(c) /\ Cleared(c)
  BY DEF IInv, RegistrationFound, LadderInv
<1> USE <1>a DEF TypeOK, Found, Cleared, opening, answers, Goto, Steps,
                 PastIsolation, PastEgress, PastSchema, PastAllowlist,
                 FirstFault, PassesPolicy, Isolated, ToolSpec
<1>1. CASE CheckRegistry(c)
  BY <1>1 DEF CheckRegistry, Check, RegistryVerdict, Pass, Refuse, AfterCheck
<1>2. CASE CheckAllowlist(c)
  BY <1>2 DEF CheckAllowlist, Check, AllowlistVerdict, Pass, Refuse,
              AfterCheck, Approved
<1>3. CASE CheckSchema(c)
  BY <1>3 DEF CheckSchema, Check, SchemaVerdict, Pass, Refuse, AfterCheck
<1>4. CASE CheckEgress(c)
  BY <1>4 DEF CheckEgress, Check, EgressVerdict, Pass, Refuse, AfterCheck
<1>5. CASE SkipIsolation(c)
  BY <1>5 DEF SkipIsolation, Pass, AfterCheck
<1>6. CASE ProbeIsolation(c)
  BY <1>6 DEF ProbeIsolation, Pass, Refuse, AfterCheck, NoTier
<1>7. CASE SkipPath(c)
  BY <1>7 DEF SkipPath
<1>8. CASE ResolvePath(c)
  <2> DEFINE path == PathArgs(c)[at[c] + 1]
  <2>1. path.arg \in ArgNames
    BY <1>8, PathArgType DEF ResolvePath
  <2>2. pc[c] = "paths" /\ UNCHANGED <<request, known, tier>>
    BY <1>8 DEF ResolvePath
  <2>3. /\ pc'[c] = "finish" /\ refusal'[c].reason = "path_escape"
        /\ asked' = [asked EXCEPT ![c][path.arg] = "outside"]
    BY <1>8 DEF ResolvePath, Refuse
  <2> HIDE DEF path
  <2>4. asked'[c][path.arg] = "outside"
    BY <2>1, <2>3
  <2>5. PassesPolicy(c) /\ Isolated(c)
    BY <2>2
  <2>6. QED
    BY <2>1, <2>2, <2>3, <2>4, <2>5
<1>9. CASE PathsDone(c)
  BY <1>9 DEF PathsDone, Pass, AfterCheck
<1>10. QED
  BY <1>1, <1>2, <1>3, <1>4, <1>5, <1>6, <1>7, <1>8, <1>9 DEF Ladder

LEMMA NextOrderInv ==
    IInv /\ LadderInv /\ VerdictInv /\ OrderInv /\ [Next]_vars => OrderInv'
<1> SUFFICES ASSUME IInv, LadderInv, VerdictInv, OrderInv, [Next]_vars,
                    NEW c \in Calls
             PROVE  RefusedFirst(c)'
  BY DEF OrderInv
<1>a. TypeOK /\ Untouched(c) /\ Decided(c) /\ RefusedFirst(c)
  BY DEF IInv, LadderInv, VerdictInv, OrderInv
\* A step that leaves alone what the refusal of this call rests on.
<1>b. ASSUME UNCHANGED <<pc[c], request[c], output[c], refusal[c], result[c],
                         known[c], tier[c], asked[c]>>
      PROVE  RefusedFirst(c)'
  BY <1>a, <1>b DEF RefusedFirst, FirstFault, PassesPolicy, Isolated, ToolSpec,
                    Settled
\* A step after which the call is still on its way.
<1>c. ASSUME pc'[c] \notin {"finish", "append", "done"}
      PROVE  RefusedFirst(c)'
  BY <1>c DEF RefusedFirst, Settled
\* A step after which the call has an outcome of its handler.
<1>d. ASSUME output'[c].kind # "none"
      PROVE  RefusedFirst(c)'
  BY <1>d DEF RefusedFirst
<1> USE DEF opening, answers, handling, closing, Goto
<1>1. ASSUME NEW n \in DOMAIN ToolSpecs, Register(n) PROVE RefusedFirst(c)'
  BY <1>1, <1>b DEF Register
<1>2. CASE Tick
  BY <1>2, <1>b DEF Tick
<1>3. ASSUME NEW d \in Calls, d # c,
             \/ \E r \in Requests : Begin(d, r)
             \/ Ladder(d) \/ StartHandler(d) \/ Handler(d) \/ Close(d)
      PROVE  RefusedFirst(c)'
  <2>1. UNCHANGED <<pc[c], request[c], output[c], elapsed[c], refusal[c],
                    result[c], record[c], exit[c]>>
    BY <1>a, <1>3, OtherCallsAlone
  <2>2. UNCHANGED <<known[c], start[c], tier[c], asked[c], ran[c]>>
    BY <1>a, <1>3, OtherAnswersAlone
  <2>3. QED
    BY <2>1, <2>2, <1>b
<1>4. ASSUME NEW r \in Requests, Begin(c, r) PROVE RefusedFirst(c)'
  <2>1. pc'[c] = "registry"
    BY <1>4, <1>a DEF Begin, TypeOK
  <2>2. QED
    BY <2>1, <1>c
<1>5. CASE Ladder(c)
  <2>1. CASE pc'[c] \in {"registry", "allowlist", "schema", "egress",
                         "isolation", "paths", "ready"}
    BY <2>1, <1>c
  <2>2. CASE pc'[c] \notin {"registry", "allowlist", "schema", "egress",
                            "isolation", "paths", "ready"}
    <3>1. pc'[c] = "finish" /\ FirstFault(c, refusal[c].reason)'
      BY <1>5, <2>2, LadderRefusesFirst
    <3>2. QED
      BY <3>1 DEF RefusedFirst, Settled
  <2>3. QED
    BY <2>1, <2>2
<1>6. CASE StartHandler(c)
  <2>1. pc'[c] = "running"
    BY <1>6, <1>a DEF StartHandler, TypeOK
  <2>2. QED
    BY <2>1, <1>c
<1>7. CASE Handler(c)
  <2>1. ASSUME NEW out \in HandlerOutputs, HandlerReturns(c, out)
        PROVE  pc'[c] = "measure"
    BY <2>1, <1>a DEF HandlerReturns, TypeOK
  <2>2. ASSUME NEW kind \in {"exception", "interrupt"}, HandlerRaises(c, kind)
        PROVE  output'[c].kind # "none"
    BY <2>2, <1>a DEF HandlerRaises, Outcome, TypeOK
  <2>3. QED
    BY <1>7, <2>1, <2>2, <1>c, <1>d DEF Handler
<1>8. CASE Measure(c)
  <2>1. output[c] \in HandlerOutputs /\ output' = output
    BY <1>8, <1>a DEF Measure, Decided
  <2>2. output[c].kind # "none"
    BY <2>1 DEF HandlerOutputs, Outcome
  <2>3. QED
    BY <2>1, <2>2, <1>d
<1>9. CASE Finish(c)
  <2>1. /\ pc[c] = "finish" /\ pc'[c] = "append"
        /\ result'[c].reason = refusal[c].reason
        /\ UNCHANGED <<request, known, tier, asked, output>>
    BY <1>9, <1>a DEF Finish, TypeOK
  <2>2. QED
    BY <2>1, <1>a DEF RefusedFirst, FirstFault, PassesPolicy, Isolated,
                      ToolSpec, Settled
<1>10. CASE AppendRecord(c) \/ AppendFails(c)
  <2>1. /\ pc[c] = "append" /\ pc'[c] = "done"
        /\ UNCHANGED <<request, known, tier, asked, output, result>>
    BY <1>10, <1>a DEF AppendRecord, AppendFails, Leave, TypeOK
  <2>2. QED
    BY <2>1, <1>a DEF RefusedFirst, FirstFault, PassesPolicy, Isolated,
                      ToolSpec, Settled
<1>11. CASE UNCHANGED vars
  BY <1>11, <1>b DEF vars
<1>12. QED
  BY <1>1, <1>2, <1>3, <1>4, <1>5, <1>6, <1>7, <1>8, <1>9, <1>10, <1>11
     DEF Next, Execute, Close

\* A refused call carries the reason of the first check it fails, in the
\* documented order, whatever other faults it has and whatever the other
\* calls, the application's registrations and the sandbox did meanwhile.
THEOREM FirstFaultReported == Spec => []FirstFaultDecides
<1>1. Init => IInv /\ LadderInv /\ VerdictInv /\ OrderInv
  <2>1. Init => OrderInv
    BY DEF Init, OrderInv, RefusedFirst, Settled
  <2>2. QED
    BY <2>1, InitIInv, InitLadderInv, InitVerdictInv
<1>2. (IInv /\ LadderInv /\ VerdictInv /\ OrderInv) /\ [Next]_vars
         => (IInv /\ LadderInv /\ VerdictInv /\ OrderInv)'
  BY NextIInv, NextLadderInv, NextVerdictInv, NextOrderInv
<1>3. OrderInv => FirstFaultDecides
  <2> SUFFICES ASSUME OrderInv, NEW c \in Calls, Settled(c), ~HandlerRan(c)
               PROVE  \E i \in DOMAIN RefusalOrder :
                         /\ result[c].reason = RefusalOrder[i]
                         /\ \A j \in 1 .. i - 1 : ~Fault(c, RefusalOrder[j])
                         /\ Fault(c, RefusalOrder[i])
    BY DEF FirstFaultDecides
  <2>1. FirstFault(c, result[c].reason)
    BY DEF OrderInv, RefusedFirst, HandlerRan
  <2>2. QED
    BY <2>1, FirstFaultInOrder
<1>4. QED
  BY <1>1, <1>2, <1>3, PTL DEF Spec

(***************************************************************************)
(* Late answers.  A handler that took longer than the limit, on a clock    *)
(* whose readings are in order, is measured beyond the limit, and whatever *)
(* it returned is replaced before a result is built of it.                 *)
(***************************************************************************)

Late(c) == InOrder(c) /\ ran[c].ended > ran[c].began + Limit(c)

\* A call that has not reached its handler is not late.
NotYet(c) ==
    pc[c] \notin {"running", "measure", "finish", "append", "done"}
       => ran[c].began = ran[c].ended

Discarded(c) ==
    /\ pc[c] = "finish" /\ Late(c) =>
          refusal[c].status \in {"timeout", "failed"}
          /\ refusal[c].reason \in {"timeout", "handler_error"}
    /\ Settled(c) /\ Late(c) =>
          result[c].status \in {"timeout", "failed"}
          /\ result[c].content.of = "sentence"
          /\ result[c].reason \in {"timeout", "handler_error"}

LateInv == \A c \in Calls : NotYet(c) /\ Discarded(c)

\* The readings of the clock are natural numbers, and so is the limit.
LEMMA ReadingTypes ==
    ASSUME TypeOK, NEW c \in Calls
    PROVE  /\ ran[c].began \in Nat /\ ran[c].ended \in Nat
           /\ start[c] \in Nat /\ clock \in Nat /\ Limit(c) \in Nat
  BY LimitType DEF TypeOK

\* A step of the ladder reads no clock.
LEMMA LadderReadsNoClock ==
    ASSUME TypeOK, NEW c \in Calls, Ladder(c)
    PROVE  /\ UNCHANGED <<ran, request>>
           /\ pc[c] \notin {"running", "measure", "finish", "append", "done"}
           /\ pc'[c] \notin {"running", "measure", "append", "done"}
<1> USE DEF TypeOK, opening, answers, handling, Goto, Pass, Refuse, AfterCheck
<1>1. CASE CheckRegistry(c) \/ CheckAllowlist(c)
           \/ CheckSchema(c) \/ CheckEgress(c)
  BY <1>1 DEF CheckRegistry, CheckAllowlist, CheckSchema, CheckEgress, Check
<1>2. CASE SkipIsolation(c) \/ ProbeIsolation(c)
  BY <1>2 DEF SkipIsolation, ProbeIsolation
<1>3. CASE SkipPath(c) \/ ResolvePath(c) \/ PathsDone(c)
  BY <1>3 DEF SkipPath, ResolvePath, PathsDone
<1>4. QED
  BY <1>1, <1>2, <1>3 DEF Ladder

LEMMA NextLateInv == IInv /\ LateInv /\ [Next]_vars => LateInv'
<1> SUFFICES ASSUME IInv, LateInv, [Next]_vars, NEW c \in Calls
             PROVE  (NotYet(c) /\ Discarded(c))'
  BY DEF LateInv
<1> DEFINE Good == NotYet(c) /\ Discarded(c)
<1>a. TypeOK /\ Good
  BY DEF IInv, LateInv
<1>t. /\ ran[c].began \in Nat /\ ran[c].ended \in Nat
      /\ start[c] \in Nat /\ clock \in Nat /\ Limit(c) \in Nat
  BY <1>a, ReadingTypes
\* A step that moves this call no further.
<1>b. ASSUME UNCHANGED <<pc[c], request[c], refusal[c], result[c], start[c],
                         ran[c], elapsed[c]>>
      PROVE  Good'
  BY <1>a, <1>b DEF NotYet, Discarded, Settled, Late, InOrder, Limit
<1> USE DEF opening, answers, handling, closing, Goto
<1>1. ASSUME NEW n \in DOMAIN ToolSpecs, Register(n) PROVE Good'
  BY <1>1, <1>b DEF Register
<1>2. CASE Tick
  BY <1>2, <1>b DEF Tick
<1>3. ASSUME NEW d \in Calls, d # c,
             \/ \E r \in Requests : Begin(d, r)
             \/ Ladder(d) \/ StartHandler(d) \/ Handler(d) \/ Close(d)
      PROVE  Good'
  <2>1. UNCHANGED <<pc[c], request[c], output[c], elapsed[c], refusal[c],
                    result[c], record[c], exit[c]>>
    BY <1>a, <1>3, OtherCallsAlone
  <2>2. UNCHANGED <<known[c], start[c], tier[c], asked[c], ran[c]>>
    BY <1>a, <1>3, OtherAnswersAlone
  <2>3. QED
    BY <2>1, <2>2, <1>b
<1>4. ASSUME NEW r \in Requests, Begin(c, r) PROVE Good'
  <2>1. pc[c] = "idle" /\ pc'[c] = "registry" /\ UNCHANGED ran
    BY <1>4, <1>a DEF Begin, TypeOK
  <2>2. QED
    BY <2>1, <1>a DEF NotYet, Discarded, Settled
<1>5. CASE Ladder(c)
  <2>1. /\ UNCHANGED <<ran, request>>
        /\ pc[c] \notin {"running", "measure", "finish", "append", "done"}
        /\ pc'[c] \notin {"running", "measure", "append", "done"}
    BY <1>5, <1>a, LadderReadsNoClock
  <2>2. ran[c].began = ran[c].ended /\ Limit(c)' = Limit(c)
    BY <2>1, <1>a DEF NotYet, Limit
  <2>3. ~Late(c)'
    BY <2>1, <2>2, <1>t DEF Late
  <2>4. QED
    BY <2>1, <2>2, <2>3 DEF NotYet, Discarded, Settled
<1>6. CASE StartHandler(c)
  <2>1. pc'[c] = "running"
    BY <1>6, <1>a DEF StartHandler, TypeOK
  <2>2. QED
    BY <2>1 DEF NotYet, Discarded, Settled
<1>7. CASE Handler(c)
  <2>1. \/ pc'[c] = "measure"
        \/ pc'[c] = "finish" /\ refusal'[c] = HandlerError
    BY <1>7, <1>a DEF Handler, HandlerReturns, HandlerRaises, TypeOK
  <2>2. QED
    BY <2>1 DEF NotYet, Discarded, Settled, HandlerError
<1>8. CASE Measure(c)
  <2>1. /\ pc[c] = "measure" /\ pc'[c] = "finish"
        /\ UNCHANGED <<start, ran, request>>
        /\ elapsed'[c] = [known |-> TRUE, ticks |-> Elapsed(c)]
        /\ refusal'[c] = Judge(c)
    BY <1>8, <1>a DEF Measure, TypeOK
  <2>2. Elapsed(c) \in Nat /\ Limit(c)' = Limit(c)
    BY <2>1, <1>t DEF Elapsed, Limit
  <2>3. Late(c)' => Elapsed(c) > Limit(c)
    BY <2>1, <2>2, <1>t DEF Late, InOrder
  <2>4. Late(c)' => refusal'[c] = TimedOut
    BY <2>1, <2>3 DEF Judge
  <2>5. QED
    BY <2>1, <2>4 DEF NotYet, Discarded, Settled, TimedOut
<1>9. CASE Finish(c)
  <2>1. /\ pc[c] = "finish" /\ pc'[c] = "append"
        /\ UNCHANGED <<start, ran, request, elapsed>>
        /\ result'[c].status = refusal[c].status
        /\ result'[c].reason = refusal[c].reason
        /\ result'[c].content = Truncate(ModelText(c), MaxContent)
    BY <1>9, <1>a DEF Finish, TypeOK
  <2>2. Late(c)' <=> Late(c)
    BY <2>1 DEF Late, InOrder, Limit
  <2>3. ModelText(c) \in TextType
    BY <1>a, ConstantsAssumption
       DEF ModelText, OutputText, Sentence, TextType, TypeOK, OutputType,
           RefusalType, ConstantsAssumption
  <2>4. result'[c].content.of = ModelText(c).of
    <3>1. MaxContent \in Nat
      BY ConstantsAssumption DEF ConstantsAssumption
    <3>2. Truncate(ModelText(c), MaxContent).of = ModelText(c).of
      BY <2>3, <3>1, TruncateType
    <3>3. QED
      BY <2>1, <3>2
  <2>5. refusal[c].reason # "none" => ModelText(c).of = "sentence"
    BY DEF ModelText, Sentence
  <2>6. QED
    BY <2>1, <2>2, <2>4, <2>5, <1>a DEF NotYet, Discarded, Settled
<1>10. CASE AppendRecord(c) \/ AppendFails(c)
  <2>1. /\ pc[c] = "append" /\ pc'[c] = "done"
        /\ UNCHANGED <<start, ran, request, result, elapsed>>
    BY <1>10, <1>a DEF AppendRecord, AppendFails, Leave, TypeOK
  <2>2. QED
    BY <2>1, <1>a DEF NotYet, Discarded, Settled, Late, InOrder, Limit
<1>11. CASE UNCHANGED vars
  BY <1>11, <1>b DEF vars
<1>12. QED
  BY <1>1, <1>2, <1>3, <1>4, <1>5, <1>6, <1>7, <1>8, <1>9, <1>10, <1>11
     DEF Next, Execute, Close

\* Nothing a handler returns after its limit is shown, neither its output nor
\* its own refusal, for every limit, every output and every clock, unless the
\* clock fell back under that very call.
THEOREM LateAnswersDiscarded == Spec => []LateOutputDiscarded
<1>1. Init => IInv /\ LateInv
  <2>1. Init => LateInv
    <3> SUFFICES ASSUME Init, NEW c \in Calls
                 PROVE  NotYet(c) /\ Discarded(c)
      BY DEF LateInv
    <3>1. pc[c] = "idle" /\ ran[c].began = ran[c].ended
      BY DEF Init
    <3>2. QED
      BY <3>1 DEF NotYet, Discarded, Settled
  <2>2. QED
    BY <2>1, InitIInv
<1>2. (IInv /\ LateInv) /\ [Next]_vars => (IInv /\ LateInv)'
  BY NextIInv, NextLateInv
<1>3. LateInv => LateOutputDiscarded
  BY DEF LateInv, Discarded, Late, LateOutputDiscarded
<1>4. QED
  BY <1>1, <1>2, <1>3, PTL DEF Spec

(***************************************************************************)
(* The ladder with its early exits, taken by many calls at once, judges    *)
(* each call as one look at all its faults would.                          *)
(***************************************************************************)

\* The mapping, by name.
Phases   == [c \in Calls |-> Phase(c)]
Verdicts == [c \in Calls |-> Verdict(c)]
Entry(rec) == [call |-> rec.call, status |-> rec.status, reason |-> rec.reason]
Journal  == [i \in DOMAIN store |->
               [call |-> store[i].call, status |-> store[i].status,
                reason |-> store[i].reason]]

Climbing == {"registry", "allowlist", "schema", "egress", "isolation",
             "paths", "ready"}

LEMMA PhaseAt ==
    ASSUME TypeOK, NEW c \in Calls
    PROVE  /\ pc[c] = "idle" => Phase(c) = "new"
           /\ pc[c] \in Climbing => Phase(c) = "open"
           /\ pc[c] \in {"running", "measure"} => Phase(c) = "running"
           /\ pc[c] \in {"finish", "append"} => Phase(c) = "settled"
           /\ pc[c] = "done" => Phase(c) = "left"
  BY DEF Phase, Climbing

LEMMA VerdictAt ==
    ASSUME TypeOK, NEW c \in Calls
    PROVE  /\ pc[c] \in {"finish", "append", "done"} =>
                 Verdict(c) = [status |-> refusal[c].status,
                               reason |-> refusal[c].reason]
           /\ pc[c] \notin {"finish", "append", "done"} =>
                 Verdict(c) = [status |-> "none", reason |-> "none"]
<1>1. pc[c] \in {"finish", "append", "done"}
         <=> Phase(c) \in {"settled", "left"}
  BY PhaseAt DEF TypeOK, Steps, Climbing
<1>2. QED
  BY <1>1 DEF Verdict

\* A step that one call takes changes the mapping for that call alone.
LEMMA OneCallMoves ==
    ASSUME TypeOK, NEW c \in Calls,
           \A d \in Calls \ {c} : UNCHANGED <<pc[d], refusal[d]>>
    PROVE  /\ Phases' = [Phases EXCEPT ![c] = Phase(c)']
           /\ Verdicts' = [Verdicts EXCEPT ![c] = Verdict(c)']
<1>1. \A d \in Calls \ {c} : Phase(d)' = Phase(d) /\ Verdict(d)' = Verdict(d)
  BY DEF Phase, Verdict
<1>2. QED
  BY <1>1 DEF Phases, Verdicts

LEMMA StepOfOne ==
    ASSUME TypeOK, NEW c \in Calls,
           \/ \E r \in Requests : Begin(c, r)
           \/ Ladder(c) \/ StartHandler(c) \/ Handler(c) \/ Close(c)
    PROVE  \A d \in Calls \ {c} : UNCHANGED <<pc[d], refusal[d]>>
  BY OtherCallsAlone

\* A step of a call that its promise does not see.
LEMMA Unseen ==
    ASSUME TypeOK, NEW c \in Calls,
           \A d \in Calls \ {c} : UNCHANGED <<pc[d], refusal[d]>>,
           Phase(c)' = Phase(c), Verdict(c)' = Verdict(c),
           UNCHANGED <<registered, request, known, store>>
    PROVE  UNCHANGED Promise!vars
<1>1. Phases' = Phases /\ Verdicts' = Verdicts
  BY OneCallMoves DEF Phases, Verdicts
<1>2. Journal' = Journal
  BY DEF Journal
<1>3. QED
  BY <1>1, <1>2 DEF Promise!vars, Phases, Verdicts, Journal

\* The step that settles a call.
LEMMA Settling ==
    ASSUME TypeOK, TypeOK', NEW c \in Calls,
           \A d \in Calls \ {c} : UNCHANGED <<pc[d], refusal[d]>>,
           pc'[c] = "finish",
           UNCHANGED <<registered, request, known, store>>
    PROVE  Promise!Settle(c, refusal'[c].status, refusal'[c].reason)
<1>1. Phase(c)' = "settled"
  BY DEF Phase
<1>2. Verdict(c)' = [status |-> refusal'[c].status,
                     reason |-> refusal'[c].reason]
  BY <1>1 DEF Verdict
<1>3. Journal' = Journal
  BY DEF Journal
<1>4. QED
  BY <1>1, <1>2, <1>3, OneCallMoves
     DEF Promise!Settle, Phases, Verdicts, Journal

\* What the ladder passed, the promise finds no fault in.
LEMMA NoPolicyFault ==
    ASSUME TypeOK, NEW c \in Calls, PassesPolicy(c)
    PROVE  Promise!PolicyFaults(c) = {}
<1>1. request[c].max_egress \in EgressClasses
  BY ConstantsAssumption DEF TypeOK, ConstantsAssumption, RequestType
<1>2. QED
  BY <1>1 DEF PassesPolicy, Approved, Permits, Promise!PolicyFaults, ToolSpec,
              EgressClasses

\* What the ladder refuses by policy is the one fault the promise finds.
LEMMA PolicyFaultFound ==
    ASSUME IInv, NEW c \in Calls, NEW reason, FirstFault(c, reason),
           reason \notin {"isolation_unavailable", "path_escape"}
    PROVE  Promise!PolicyFaults(c) = {reason}
<1>1. /\ request[c].max_egress \in EgressClasses
      /\ known[c] => ToolSpec(c).egress \in EgressClasses
  BY ConstantsAssumption, ToolSpecType
     DEF IInv, TypeOK, ConstantsAssumption, RequestType, SpecType
<1>2. CASE reason = "unknown_tool"
  BY <1>2 DEF FirstFault, Promise!PolicyFaults
<1>3. CASE reason = "not_allowlisted"
  BY <1>3 DEF FirstFault, Promise!PolicyFaults
<1>4. CASE reason = "not_approved"
  BY <1>4 DEF FirstFault, Promise!PolicyFaults, Approved
<1>5. CASE reason = "args_invalid"
  BY <1>5 DEF FirstFault, Promise!PolicyFaults, Approved
<1>6. CASE reason = "egress_not_permitted"
  BY <1>1, <1>6 DEF FirstFault, Promise!PolicyFaults, Approved, Permits,
                    ToolSpec, EgressClasses
<1>7. QED
  BY <1>2, <1>3, <1>4, <1>5, <1>6 DEF FirstFault

\* A refusal of the ladder is REFUSED, and a path is refused only if the call
\* carries an argument that is one.
LEMMA LadderRefusal ==
    ASSUME IInv, NEW c \in Calls, Ladder(c), pc'[c] = "finish"
    PROVE  /\ pc[c] \in Climbing
           /\ refusal'[c].status = "refused"
           /\ refusal'[c].reason = "path_escape" =>
                 \E i \in DOMAIN ToolSpec(c).path_args :
                    ToolSpec(c).path_args[i].arg \in request[c].args
           /\ UNCHANGED <<registered, request, known, store>>
<1>a. TypeOK
  BY DEF IInv
<1> USE <1>a DEF TypeOK, opening, answers, Goto, Pass, Refuse, AfterCheck,
                 Climbing
<1>1. CASE CheckRegistry(c) \/ CheckAllowlist(c)
           \/ CheckSchema(c) \/ CheckEgress(c)
  BY <1>1 DEF CheckRegistry, CheckAllowlist, CheckSchema, CheckEgress, Check,
              RegistryVerdict, AllowlistVerdict, SchemaVerdict, EgressVerdict
<1>2. CASE SkipIsolation(c) \/ ProbeIsolation(c)
  BY <1>2 DEF SkipIsolation, ProbeIsolation
<1>3. CASE SkipPath(c) \/ PathsDone(c)
  BY <1>3 DEF SkipPath, PathsDone
<1>4. CASE ResolvePath(c)
  <2>1. /\ pc[c] = "paths" /\ refusal'[c].status = "refused"
        /\ UNCHANGED <<registered, request, known, store>>
        /\ at[c] < Len(PathArgs(c))
        /\ PathArgs(c)[at[c] + 1].arg \in request[c].args
    BY <1>4 DEF ResolvePath
  <2> HIDE <1>a DEF TypeOK
  <2>2. PathArgs(c) \in Seq([arg : ArgNames, access : {"read", "write"}])
    BY <2>1, ToolSpecType
       DEF PathArgs, SpecType, IInv, RegistrationFound, Found, Steps
  <2>3. at[c] + 1 \in DOMAIN PathArgs(c)
    BY <2>1, <2>2, <1>a DEF TypeOK
  <2>4. QED
    BY <2>1, <2>3 DEF PathArgs
<1>5. QED
  BY <1>1, <1>2, <1>3, <1>4 DEF Ladder

\* The record keeps the verdict it was built from.
RecordSettled(c) ==
    Settled(c) => /\ record[c].status = refusal[c].status
                  /\ record[c].reason = refusal[c].reason

SettledInv == \A c \in Calls : RecordSettled(c)

LEMMA NextSettledInv == IInv /\ SettledInv /\ [Next]_vars => SettledInv'
<1> SUFFICES ASSUME IInv, SettledInv, [Next]_vars, NEW c \in Calls
             PROVE  RecordSettled(c)'
  BY DEF SettledInv
<1>a. TypeOK /\ RecordSettled(c)
  BY DEF IInv, SettledInv
<1>b. ASSUME UNCHANGED <<pc[c], refusal[c], record[c]>>
      PROVE  RecordSettled(c)'
  BY <1>a, <1>b DEF RecordSettled, Settled
<1>c. ASSUME pc'[c] \notin {"append", "done"}
      PROVE  RecordSettled(c)'
  BY <1>c DEF RecordSettled, Settled
<1>1. ASSUME NEW n \in DOMAIN ToolSpecs, Register(n) PROVE RecordSettled(c)'
  BY <1>1, <1>b DEF Register, closing
<1>2. CASE Tick
  BY <1>2, <1>b DEF Tick, closing
<1>3. ASSUME NEW d \in Calls, d # c,
             \/ \E r \in Requests : Begin(d, r)
             \/ Ladder(d) \/ StartHandler(d) \/ Handler(d) \/ Close(d)
      PROVE  RecordSettled(c)'
  <2>1. UNCHANGED <<pc[c], request[c], output[c], elapsed[c], refusal[c],
                    result[c], record[c], exit[c]>>
    BY <1>a, <1>3, OtherCallsAlone
  <2>2. QED
    BY <2>1, <1>b
<1>4. ASSUME NEW r \in Requests, Begin(c, r) PROVE RecordSettled(c)'
  BY <1>4, <1>a, <1>c DEF Begin, Goto, TypeOK
<1>5. CASE Ladder(c)
  BY <1>5, <1>a, <1>c, LadderReadsNoClock
<1>6. CASE StartHandler(c) \/ Handler(c) \/ Measure(c)
  <2>1. pc'[c] \in {"running", "measure", "finish"}
    BY <1>6, <1>a DEF StartHandler, Handler, HandlerReturns, HandlerRaises,
                      Measure, Goto, TypeOK
  <2>2. QED
    BY <2>1, <1>c
<1>7. CASE Finish(c)
  <2>1. /\ refusal' = refusal
        /\ record'[c].status = refusal[c].status
        /\ record'[c].reason = refusal[c].reason
    BY <1>7, <1>a DEF Finish, TypeOK
  <2>2. QED
    BY <2>1 DEF RecordSettled
<1>8. CASE AppendRecord(c) \/ AppendFails(c)
  <2>1. pc[c] = "append" /\ UNCHANGED <<refusal, record>>
    BY <1>8 DEF AppendRecord, AppendFails, Leave
  <2>2. QED
    BY <2>1, <1>a DEF RecordSettled, Settled
<1>9. CASE UNCHANGED vars
  BY <1>9, <1>b DEF vars, closing
<1>10. QED
  BY <1>1, <1>2, <1>3, <1>4, <1>5, <1>6, <1>7, <1>8, <1>9
     DEF Next, Execute, Close

\* Appending a record appends its entry.
LEMMA JournalGrows ==
    ASSUME TypeOK, NEW c \in Calls, store' = Append(store, record[c])
    PROVE  Journal' = Append(Journal, Entry(record[c]))
<1>1. /\ DOMAIN store = 1 .. Len(store) /\ Len(store) \in Nat
      /\ DOMAIN store' = 1 .. Len(store) + 1
      /\ store'[Len(store) + 1] = record[c]
      /\ \A i \in 1 .. Len(store) : store'[i] = store[i]
  BY DEF TypeOK
<1> DEFINE Entries == [call : Calls, status : Statuses,
                       reason : Reasons \cup {"none"}]
<1>2. \A rec \in RecordType : Entry(rec) \in Entries
  BY DEF Entry, RecordType
<1>3. Journal = [i \in 1 .. Len(store) |-> Entry(store[i])]
  BY <1>1 DEF Journal, Entry
<1>4. Journal' = [i \in 1 .. Len(store) + 1 |-> Entry(store'[i])]
  BY <1>1 DEF Journal, Entry
<1>5. \A i \in 1 .. Len(store) : store[i] \in RecordType
  BY <1>1 DEF TypeOK
<1>6. record[c] \in RecordType
  BY DEF TypeOK
<1> HIDE DEF Entries
<1>7. Journal \in Seq(Entries) /\ Len(Journal) = Len(store)
  <2>1. \A i \in 1 .. Len(store) : Entry(store[i]) \in Entries
    BY <1>2, <1>5
  <2>2. Journal \in [1 .. Len(store) -> Entries]
    BY <1>3, <2>1
  <2>3. QED
    BY <1>1, <2>2
<1>8. Entry(record[c]) \in Entries
  BY <1>2, <1>6
<1> DEFINE Grown == Append(Journal, Entry(record[c]))
<1>9. /\ Grown \in Seq(Entries) /\ Len(Grown) = Len(store) + 1
      /\ Grown[Len(store) + 1] = Entry(record[c])
      /\ \A i \in 1 .. Len(store) : Grown[i] = Journal[i]
  BY <1>7, <1>8
<1>10. Grown = [i \in 1 .. Len(store) + 1 |-> Grown[i]]
  BY <1>9
<1> HIDE DEF Grown
<1>11. \A i \in 1 .. Len(store) + 1 : Grown[i] = Entry(store'[i])
  <2>1. \A i \in 1 .. Len(store) + 1 :
           i \in 1 .. Len(store) \/ i = Len(store) + 1
    BY <1>1
  <2>2. \A i \in 1 .. Len(store) : Journal[i] = Entry(store[i])
    BY <1>3
  <2>3. QED
    BY <1>1, <1>9, <2>1, <2>2
<1>12. Grown = Journal'
  BY <1>4, <1>10, <1>11
<1>13. QED
  BY <1>12 DEF Grown

-----------------------------------------------------------------------------
RInv == IInv /\ LadderInv /\ VerdictInv /\ OrderInv /\ JournalInv /\ SettledInv

LEMMA InitMaps == Init => Promise!Init
<1> SUFFICES ASSUME Init PROVE Promise!Init
  OBVIOUS
<1>1. TypeOK
  BY InitTypeOK
<1>2. \A c \in Calls : Phase(c) = "new" /\ Verdict(c) = Promise!NoVerdict
  BY <1>1, PhaseAt, VerdictAt DEF Init, Promise!NoVerdict
<1>3. QED
  BY <1>1, <1>2 DEF Init, Promise!Init, TypeOK

LEMMA BeginMaps ==
    ASSUME TypeOK, NEW c \in Calls, NEW r \in Requests, Begin(c, r)
    PROVE  Promise!Call(c, r)
<1>1. /\ pc[c] = "idle" /\ pc'[c] = "registry"
      /\ UNCHANGED <<registered, store>>
      /\ request' = [request EXCEPT ![c] = r]
      /\ known' = [known EXCEPT ![c] = r.name \in registered]
      /\ \A d \in Calls \ {c} : UNCHANGED <<pc[d], refusal[d]>>
  BY DEF Begin, Goto, TypeOK
<1>2. Phase(c) = "new" /\ Phase(c)' = "open"
  BY <1>1 DEF Phase
<1>3. Verdict(c)' = Verdict(c)
  BY <1>2 DEF Verdict
<1>4. Phases' = [Phases EXCEPT ![c] = "open"] /\ Verdicts' = Verdicts
  BY <1>1, <1>2, <1>3, OneCallMoves DEF Phases, Verdicts
<1>5. Journal' = Journal
  BY <1>1 DEF Journal
<1>6. QED
  BY <1>1, <1>2, <1>4, <1>5
     DEF Promise!Call, Phases, Verdicts, Journal

\* The ladder is unseen until it refuses; then the promise declines.
LEMMA LadderMaps ==
    ASSUME RInv, TypeOK', NEW c \in Calls, Ladder(c)
    PROVE  Promise!Decline(c) \/ UNCHANGED Promise!vars
<1>a. TypeOK /\ IInv /\ LadderInv
  BY DEF RInv, IInv
<1>b. \A d \in Calls \ {c} : UNCHANGED <<pc[d], refusal[d]>>
  BY <1>a, StepOfOne
<1>1. CASE pc'[c] \in Climbing
  <2>1. /\ pc[c] \in Climbing
        /\ UNCHANGED <<registered, request, known, store>>
    BY <1>a DEF Ladder, CheckRegistry, CheckAllowlist, CheckSchema,
                CheckEgress, Check, SkipIsolation, ProbeIsolation, SkipPath,
                ResolvePath, PathsDone, opening, Climbing
  <2>2. Phase(c) = "open" /\ Phase(c)' = "open"
    BY <1>1, <2>1 DEF Phase, Climbing
  <2>3. Verdict(c)' = Verdict(c)
    BY <2>2 DEF Verdict
  <2>4. QED
    BY <1>a, <1>b, <2>1, <2>2, <2>3, Unseen
<1>2. CASE pc'[c] \notin Climbing
  <2>1. pc'[c] = "finish" /\ FirstFault(c, refusal[c].reason)'
    BY <1>a, <1>2, LadderRefusesFirst DEF Climbing
  <2>2. /\ pc[c] \in Climbing
        /\ refusal'[c].status = "refused"
        /\ refusal'[c].reason = "path_escape" =>
              \E i \in DOMAIN ToolSpec(c).path_args :
                 ToolSpec(c).path_args[i].arg \in request[c].args
        /\ UNCHANGED <<registered, request, known, store>>
    BY <1>a, <2>1, LadderRefusal
  <2>3. Promise!Settle(c, "refused", refusal'[c].reason)
    BY <1>a, <1>b, <2>1, <2>2, Settling
  <2>4. Phase(c) = "open"
    BY <2>2 DEF Phase, Climbing
  <2>5. refusal'[c].reason
           \in IF Promise!PolicyFaults(c) # {} THEN Promise!PolicyFaults(c)
               ELSE Promise!SandboxFaults(c)
    <3>1. CASE refusal'[c].reason
                 \notin {"isolation_unavailable", "path_escape"}
      <4>1. FirstFault(c, refusal'[c].reason)
        BY <2>1, <2>2, <3>1
           DEF FirstFault, PassesPolicy, Isolated, ToolSpec
      <4>2. QED
        BY <1>a, <3>1, <4>1, PolicyFaultFound
    <3>2. CASE refusal'[c].reason
                 \in {"isolation_unavailable", "path_escape"}
      <4>1. PassesPolicy(c)
        BY <2>1, <2>2, <3>2 DEF FirstFault, PassesPolicy, ToolSpec
      <4>2. Promise!PolicyFaults(c) = {}
        BY <1>a, <4>1, NoPolicyFault
      <4>3. refusal'[c].reason = "isolation_unavailable"
               => ToolSpec(c).requires_isolation
        BY <2>1, <2>2 DEF FirstFault, Isolated, ToolSpec
      <4>4. refusal'[c].reason \in Promise!SandboxFaults(c)
        BY <2>2, <3>2, <4>3 DEF Promise!SandboxFaults, ToolSpec
      <4>5. QED
        BY <4>2, <4>4
    <3>3. QED
      BY <3>1, <3>2
  <2>6. QED
    BY <2>3, <2>4, <2>5 DEF Promise!Decline
<1>3. QED
  BY <1>1, <1>2

LEMMA StartMaps ==
    ASSUME RInv, NEW c \in Calls, StartHandler(c)
    PROVE  Promise!Start(c)
<1>a. TypeOK /\ IInv /\ LadderInv
  BY DEF RInv, IInv
<1>1. /\ pc[c] = "ready" /\ pc'[c] = "running"
      /\ UNCHANGED <<registered, request, known, store>>
      /\ \A d \in Calls \ {c} : UNCHANGED <<pc[d], refusal[d]>>
  BY <1>a DEF StartHandler, Goto, TypeOK, opening
<1>2. Phase(c) = "open" /\ Phase(c)' = "running"
  BY <1>1 DEF Phase
<1>3. Verdict(c)' = Verdict(c)
  BY <1>2 DEF Verdict
<1>4. Phases' = [Phases EXCEPT ![c] = "running"] /\ Verdicts' = Verdicts
  BY <1>a, <1>1, <1>2, <1>3, OneCallMoves DEF Phases, Verdicts
<1>5. Journal' = Journal
  BY <1>1 DEF Journal
<1>6. PassesPolicy(c)
  BY <1>a, <1>1 DEF IInv, RegistrationFound, Found, LadderInv, Cleared,
                    PassesPolicy, PastAllowlist, PastSchema, PastEgress,
                    PastIsolation, Steps
<1>7. Promise!PolicyFaults(c) = {}
  BY <1>a, <1>6, NoPolicyFault
<1>8. QED
  BY <1>1, <1>2, <1>4, <1>5, <1>7 DEF Promise!Start, Phases, Verdicts, Journal

\* A verdict the handler or its measurement leads to is one of the promise's.
LEMMA EndMaps ==
    ASSUME RInv, TypeOK', VerdictInv', NEW c \in Calls,
           Handler(c) \/ Measure(c), pc'[c] = "finish"
    PROVE  Promise!End(c)
<1>a. TypeOK
  BY DEF RInv, IInv
<1>b. \A d \in Calls \ {c} : UNCHANGED <<pc[d], refusal[d]>>
  BY <1>a, StepOfOne DEF Close
<1>1. /\ pc[c] \in {"running", "measure"}
      /\ UNCHANGED <<registered, request, known, store>>
  BY DEF Handler, HandlerReturns, HandlerRaises, Measure, opening
<1>2. Promise!Settle(c, refusal'[c].status, refusal'[c].reason)
  BY <1>a, <1>b, <1>1, Settling
<1>3. Phase(c) = "running"
  BY <1>1 DEF Phase
<1>4. /\ refusal'[c].status \in {"ok", "refused", "failed", "timeout"}
      /\ refusal'[c].reason \in Reasons \cup {"none"}
      /\ refusal'[c].reason \in Reasons \/ refusal'[c].reason = "none"
  BY DEF TypeOK, RefusalType, Statuses
<1>5. refusal'[c].reason = "none" <=> refusal'[c].status = "ok"
  BY DEF VerdictInv, Decided
<1>6. CASE refusal'[c].status = "ok"
  <2>1. refusal'[c].reason = "none"
    BY <1>5, <1>6
  <2>2. Promise!Settle(c, "ok", "none")
    BY <1>2, <1>6, <2>1
  <2>3. QED
    BY <1>3, <2>2 DEF Promise!End
<1>7. CASE refusal'[c].status # "ok"
  <2>1. /\ refusal'[c].status \in {"refused", "failed", "timeout"}
        /\ refusal'[c].reason \in Reasons
    BY <1>4, <1>5, <1>7
  <2>2. \E status \in {"refused", "failed", "timeout"}, reason \in Reasons :
           Promise!Settle(c, status, reason)
    BY <1>2, <2>1
  <2>3. QED
    BY <1>3, <2>2 DEF Promise!End
<1>8. QED
  BY <1>6, <1>7

\* A handler that returns is unseen until its answer is judged.
LEMMA HandlerMaps ==
    ASSUME RInv, TypeOK', VerdictInv', NEW c \in Calls, Handler(c)
    PROVE  Promise!End(c) \/ UNCHANGED Promise!vars
<1>a. TypeOK
  BY DEF RInv, IInv
<1>1. CASE pc'[c] = "finish"
  BY <1>1, EndMaps
<1>2. CASE pc'[c] # "finish"
  <2>1. /\ pc[c] = "running" /\ pc'[c] = "measure"
        /\ UNCHANGED <<registered, request, known, store>>
    BY <1>a, <1>2 DEF Handler, HandlerReturns, HandlerRaises, Goto, TypeOK,
                      opening
  <2>2. Phase(c) = "running" /\ Phase(c)' = "running"
    BY <2>1 DEF Phase
  <2>3. Verdict(c)' = Verdict(c)
    BY <2>2 DEF Verdict
  <2>4. \A d \in Calls \ {c} : UNCHANGED <<pc[d], refusal[d]>>
    BY <1>a, StepOfOne
  <2>5. QED
    BY <1>a, <2>1, <2>2, <2>3, <2>4, Unseen
<1>3. QED
  BY <1>1, <1>2

LEMMA FinishMaps ==
    ASSUME TypeOK, NEW c \in Calls, Finish(c)
    PROVE  UNCHANGED Promise!vars
<1>1. /\ pc[c] = "finish" /\ pc'[c] = "append"
      /\ UNCHANGED <<registered, request, known, store, refusal>>
      /\ \A d \in Calls \ {c} : UNCHANGED <<pc[d], refusal[d]>>
  BY DEF Finish, Goto, TypeOK, opening
<1>2. Phase(c) = "settled" /\ Phase(c)' = "settled"
  BY <1>1 DEF Phase
<1>3. Verdict(c)' = Verdict(c)
  BY <1>1, <1>2 DEF Verdict
<1>4. QED
  BY <1>1, <1>2, <1>3, Unseen

\* A call leaves with the verdict it settled on in the journal, or with the
\* journal as it was.
LEMMA LeaveMaps ==
    ASSUME RInv, NEW c \in Calls, AppendRecord(c) \/ AppendFails(c)
    PROVE  Promise!Leave(c)
<1>a. TypeOK
  BY DEF RInv, IInv
<1>1. /\ pc[c] = "append" /\ pc'[c] = "done"
      /\ UNCHANGED <<registered, request, known, refusal>>
      /\ \A d \in Calls \ {c} : UNCHANGED <<pc[d], refusal[d]>>
  BY <1>a DEF AppendRecord, AppendFails, Leave, Goto, TypeOK, opening
<1>2. store' = store \/ store' = Append(store, record[c])
  BY DEF AppendRecord, AppendFails
<1>3. Phase(c) = "settled" /\ Phase(c)' = "left"
  BY <1>1 DEF Phase
<1>4. /\ Verdict(c) = [status |-> refusal[c].status,
                       reason |-> refusal[c].reason]
      /\ Verdict(c)' = Verdict(c)
  BY <1>1, <1>3 DEF Verdict
<1>5. Phases' = [Phases EXCEPT ![c] = "left"] /\ Verdicts' = Verdicts
  BY <1>a, <1>1, <1>3, <1>4, OneCallMoves DEF Phases, Verdicts
<1>6. Entry(record[c]) = [call |-> c, status |-> Verdicts[c].status,
                          reason |-> Verdicts[c].reason]
  <2>1. /\ record[c].call = c
        /\ record[c].status = refusal[c].status
        /\ record[c].reason = refusal[c].reason
    BY <1>1 DEF RInv, JournalInv, SettledInv, RecordSettled, Settled
  <2>2. Verdicts[c] = [status |-> refusal[c].status,
                       reason |-> refusal[c].reason]
    BY <1>4 DEF Verdicts
  <2>3. QED
    BY <2>1, <2>2 DEF Entry
<1>7. \/ Journal' = Journal
      \/ Journal' = Append(Journal, [call |-> c, status |-> Verdicts[c].status,
                                     reason |-> Verdicts[c].reason])
  <2>1. CASE store' = store
    BY <2>1 DEF Journal
  <2>2. CASE store' = Append(store, record[c])
    BY <1>a, <1>6, <2>2, JournalGrows
  <2>3. QED
    BY <1>2, <2>1, <2>2
<1>8. Phases[c] = "settled"
  BY <1>3 DEF Phases
<1>9. QED
  BY <1>1, <1>5, <1>7, <1>8 DEF Promise!Leave, Phases, Verdicts, Journal

\* Every step of the executor is a step of its promise, or one it does not
\* see.
LEMMA NextMaps ==
    RInv /\ RInv' /\ [Next]_vars => [Promise!Next]_(Promise!vars)
<1> SUFFICES ASSUME RInv, RInv', [Next]_vars
             PROVE  Promise!Next \/ UNCHANGED Promise!vars
  OBVIOUS
<1>a. TypeOK /\ TypeOK' /\ VerdictInv'
  BY DEF RInv, IInv
<1>1. ASSUME NEW n \in DOMAIN ToolSpecs, Register(n) PROVE Promise!Next
  <2>1. Phases' = Phases /\ Verdicts' = Verdicts /\ Journal' = Journal
    BY <1>1 DEF Register, Phases, Verdicts, Journal, Phase, Verdict
  <2>2. Promise!Register(n)
    BY <1>1, <2>1 DEF Register, Promise!Register, Phases, Verdicts, Journal,
                      opening
  <2>3. QED
    BY <2>2 DEF Promise!Next
<1>2. CASE Tick \/ UNCHANGED vars
  <2>1. UNCHANGED <<registered, pc, request, known, refusal, store>>
    BY <1>2 DEF Tick, vars, opening
  <2>2. Phases' = Phases /\ Verdicts' = Verdicts /\ Journal' = Journal
    BY <2>1 DEF Phases, Verdicts, Journal, Phase, Verdict
  <2>3. QED
    BY <2>1, <2>2 DEF Promise!vars, Phases, Verdicts, Journal
<1>3. ASSUME NEW c \in Calls, NEW r \in Requests, Begin(c, r)
      PROVE  Promise!Next
  <2>1. Promise!Call(c, r)
    BY <1>a, <1>3, BeginMaps
  <2>2. QED
    BY <2>1 DEF Promise!Next
<1>4. ASSUME NEW c \in Calls, Ladder(c)
      PROVE  Promise!Next \/ UNCHANGED Promise!vars
  <2>1. Promise!Decline(c) \/ UNCHANGED Promise!vars
    BY <1>a, <1>4, LadderMaps
  <2>2. QED
    BY <2>1 DEF Promise!Next
<1>5. ASSUME NEW c \in Calls, StartHandler(c) PROVE Promise!Next
  <2>1. Promise!Start(c)
    BY <1>5, StartMaps
  <2>2. QED
    BY <2>1 DEF Promise!Next
<1>6. ASSUME NEW c \in Calls, Handler(c)
      PROVE  Promise!Next \/ UNCHANGED Promise!vars
  <2>1. Promise!End(c) \/ UNCHANGED Promise!vars
    BY <1>a, <1>6, HandlerMaps
  <2>2. QED
    BY <2>1 DEF Promise!Next
<1>7. ASSUME NEW c \in Calls, Measure(c) PROVE Promise!Next
  <2>1. pc'[c] = "finish"
    BY <1>a, <1>7 DEF Measure, Goto, TypeOK
  <2>2. Promise!End(c)
    BY <1>a, <1>7, <2>1, EndMaps
  <2>3. QED
    BY <2>2 DEF Promise!Next
<1>8. ASSUME NEW c \in Calls, Finish(c)
      PROVE  UNCHANGED Promise!vars
  BY <1>a, <1>8, FinishMaps
<1>9. ASSUME NEW c \in Calls, AppendRecord(c) \/ AppendFails(c)
      PROVE  Promise!Next
  <2>1. Promise!Leave(c)
    BY <1>9, LeaveMaps
  <2>2. QED
    BY <2>1 DEF Promise!Next
<1>10. QED
  BY <1>1, <1>2, <1>3, <1>4, <1>5, <1>6, <1>7, <1>8, <1>9
     DEF Next, Execute, Close

\* Every behaviour of the executor is a behaviour of ToolCall: however many
\* calls interleave, each is judged as if at once, settles once, and is
\* journalled with the verdict it settled on.
THEOREM PromiseKept == Spec => KeepsPromise
<1>1. Init => RInv
  <2>1. Init => OrderInv /\ SettledInv
    BY DEF Init, OrderInv, RefusedFirst, SettledInv, RecordSettled, Settled
  <2>2. QED
    BY <2>1, InitIInv, InitLadderInv, InitVerdictInv, InitJournalInv DEF RInv
<1>2. RInv /\ [Next]_vars => RInv'
  BY NextIInv, NextLadderInv, NextVerdictInv, NextOrderInv, NextJournalInv,
     NextSettledInv DEF RInv
<1>3. QED
  BY <1>1, <1>2, InitMaps, NextMaps, PTL DEF Spec, KeepsPromise, Promise!Spec
=============================================================================
