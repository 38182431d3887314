------------------------- MODULE SConsModuleProofs -------------------------
(***************************************************************************)
(* Proofs about the SCons module tool: when the module's SConscript keeps *)
(* the contract of IMPModule's docstring (validate or invalidate once,     *)
(* before any pseudo-builder), the build follows the module's validity,   *)
(* for any number of calls and any cpp and python options.                 *)
(***************************************************************************)
EXTENDS SConsModule, SequenceTheorems, TLAPS

(* The three module environments the SConscript can hold.                *)
IsMenv == {[validated |-> "None", com |-> "real", test |-> "real"],
           [validated |-> "True", com |-> "real", test |-> "real"],
           [validated |-> "False", com |-> "fail", test |-> "fail"]}

(* The inductive invariant. Validity is settled before the first target  *)
(* and never changes after, so every derived environment is a copy of    *)
(* the final module environment, every test target keeps its builder,    *)
(* and no 'all' alias or default is added to an unvalidated module.      *)
TargetsWellFormed ==
  \A i \in DOMAIN targets :
    /\ targets[i].env \in 0..Len(envs)
    /\ targets[i].dep \in 0..Len(targets)
    /\ targets[i].test = IF targets[i].kind = "test" THEN menv.test ELSE "none"

IInv ==
  /\ TypeOK
  /\ ~exited
  /\ menv \in IsMenv
  /\ \A e \in DOMAIN envs : envs[e] = menv
  /\ TargetsWellFormed
  /\ menv.validated = "None" => targets = << >> /\ envs = << >>
  /\ menv.validated # "True" =>
       aliases \cap ({"install", "test"} \X Nat) = {} /\ defaults = {}
  /\ menv.validated = "True" => ValidModuleBuildsEverything

-----------------------------------------------------------------------------
LEMMA InitIInv == Init => IInv
  <1> SUFFICES ASSUME Init PROVE IInv
    OBVIOUS
  <1>1. envs \in Seq(Env) /\ targets \in Seq(Target) /\ DOMAIN targets = {} /\ DOMAIN envs = {}
    BY EmptySeq DEF Init
  <1>2. menv \in Env
    BY DEF Init, Env, Validity
  <1>3. nCalls \in 0..MaxCalls
    BY ConstantsAssumption DEF Init
  <1>4. TypeOK
    BY <1>1, <1>2, <1>3 DEF Init, TypeOK
  <1>5. QED
    BY <1>1, <1>4 DEF Init, IInv, IsMenv, TargetsWellFormed, ValidModuleBuildsEverything

(* A call that declares the targets ts after validity was settled keeps   *)
(* the invariant when the new targets are well formed, the 'all' aliases  *)
(* and defaults only grow, none is added to an invalidated module, and    *)
(* every new target of a validated module is where it belongs.            *)
LEMMA DeclareIInv ==
  ASSUME IInv, menv.validated # "None",
         menv' = menv, envs' = envs, exited' = FALSE, nCalls' \in 0..MaxCalls,
         NEW ts \in Seq(Target), targets' = targets \o ts,
         aliases' \subseteq Aliases \X Nat, aliases \subseteq aliases',
         defaults' \subseteq Nat, defaults \subseteq defaults',
         \A j \in 1..Len(ts) :
           /\ ts[j].env \in 0..Len(envs)
           /\ ts[j].dep \in 0..(Len(targets) + Len(ts))
           /\ ts[j].test = IF ts[j].kind = "test" THEN menv.test ELSE "none",
         menv.validated = "False" =>
           aliases' \cap ({"install", "test"} \X Nat) = {} /\ defaults' = {},
         menv.validated = "True" =>
           \A j \in 1..Len(ts) :
             LET i == Len(targets) + j IN
             /\ ts[j].kind \in {"libinst", "headers", "pyinst", "pyextinst", "pymodinst"}
                  => <<"install", i>> \in aliases'
             /\ ts[j].kind = "test" => <<"test", i>> \in aliases'
             /\ PythonOn /\ ts[j].kind \in {"pylib", "pyext", "pymod"} => i \in defaults'
  PROVE  IInv'
  <1> DEFINE L == Len(targets)
  <1>1. /\ targets \in Seq(Target) /\ L \in Nat
        /\ targets' \in Seq(Target)
        /\ Len(targets') = L + Len(ts)
        /\ DOMAIN targets' = 1..(L + Len(ts))
        /\ \A i \in 1..(L + Len(ts)) : targets'[i] = IF i <= L THEN targets[i] ELSE ts[i - L]
    BY ConcatProperties, LenProperties DEF IInv, TypeOK
  <1>2. TypeOK'
    BY <1>1 DEF IInv, TypeOK
  <1>3. TargetsWellFormed'
    <2> SUFFICES ASSUME NEW i \in 1..(L + Len(ts))
                 PROVE  /\ targets'[i].env \in 0..Len(envs')
                        /\ targets'[i].dep \in 0..Len(targets')
                        /\ targets'[i].test = IF targets'[i].kind = "test" THEN menv'.test
                                                                          ELSE "none"
      BY <1>1 DEF TargetsWellFormed
    <2>1. CASE i <= L
      BY <1>1, <2>1, LenProperties DEF IInv, TargetsWellFormed
    <2>2. CASE ~(i <= L)
      BY <1>1, <2>2, LenProperties
    <2>3. QED
      BY <2>1, <2>2
  <1>4. ASSUME menv.validated = "True" PROVE ValidModuleBuildsEverything'
    <2> SUFFICES ASSUME NEW i \in 1..(L + Len(ts))
                 PROVE  /\ ~Fails(i)'
                        /\ targets'[i].kind \in {"libinst", "headers", "pyinst", "pyextinst",
                                                 "pymodinst"}
                             => <<"install", i>> \in aliases'
                        /\ targets'[i].kind = "test" => <<"test", i>> \in aliases'
                        /\ PythonOn /\ targets'[i].kind \in {"pylib", "pyext", "pymod"}
                             => i \in defaults'
      BY <1>1 DEF ValidModuleBuildsEverything
    <2>1. menv = [validated |-> "True", com |-> "real", test |-> "real"]
      BY <1>4 DEF IInv, IsMenv
    <2>2. \A k \in 1..(L + Len(ts)) : (~OwnFails(targets[k]))'
      <3> SUFFICES ASSUME NEW k \in 1..(L + Len(ts)) PROVE (~OwnFails(targets[k]))'
        OBVIOUS
      <3>1. /\ targets'[k].env \in 0..Len(envs)
            /\ targets'[k].test \in {"none", "real"}
        BY <1>3, <1>1, <2>1 DEF TargetsWellFormed
      <3>2. (EnvOf(targets[k].env).com)' = "real"
        BY <3>1, <2>1 DEF IInv, EnvOf
      <3>3. QED
        BY <3>1, <3>2 DEF OwnFails
    <2>3. ~Fails(i)'
      <3>1. targets'[i].dep \in 0..(L + Len(ts))
        BY <1>3, <1>1 DEF TargetsWellFormed
      <3>2. targets'[i].dep # 0 => (~OwnFails(targets[targets[i].dep]))'
        BY <2>2, <3>1
      <3>3. QED
        BY <2>2, <3>2 DEF Fails
    <2> DEFINE Placed ==
          /\ targets'[i].kind \in {"libinst", "headers", "pyinst", "pyextinst", "pymodinst"}
               => <<"install", i>> \in aliases'
          /\ targets'[i].kind = "test" => <<"test", i>> \in aliases'
          /\ PythonOn /\ targets'[i].kind \in {"pylib", "pyext", "pymod"} => i \in defaults'
    <2>4. ASSUME i <= L PROVE Placed
      <3>1. /\ i \in DOMAIN targets
            /\ targets'[i] = targets[i]
        BY <1>1, <2>4 DEF IInv, TypeOK
      <3>2. QED
        BY <3>1, <1>4 DEF IInv, ValidModuleBuildsEverything
    <2>5. ASSUME ~(i <= L) PROVE Placed
      <3>1. /\ i - L \in 1..Len(ts)
            /\ targets'[i] = ts[i - L]
            /\ L + (i - L) = i
        BY <1>1, <2>5
      <3>2. QED
        BY <3>1, <1>4
    <2>6. QED
      BY <2>3, <2>4, <2>5
  <1>5. /\ ~exited'
        /\ menv' \in IsMenv
        /\ \A e \in DOMAIN envs' : envs'[e] = menv'
        /\ menv'.validated # "None"
    BY DEF IInv
  <1>6. menv'.validated # "True" =>
          aliases' \cap ({"install", "test"} \X Nat) = {} /\ defaults' = {}
    BY DEF IInv, IsMenv
  <1>7. QED
    BY <1>2, <1>3, <1>4, <1>5, <1>6 DEF IInv

(* When validity is settled, the 'all' alias helper never stops the build, *)
(* only adds aliases, and adds the 'all' one only to a validated module.  *)
LEMMA AliasAllLemma ==
  ASSUME NEW al \in SUBSET (Aliases \ {"install", "test"}), NEW e \in Env,
         NEW name \in {"install", "test"}, NEW ids \in SUBSET Nat,
         e.validated # "None", aliases \subseteq Aliases \X Nat,
         AliasAll(AddAllAlias(al, e, name), ids)
  PROVE  /\ exited' = FALSE
         /\ aliases' \subseteq Aliases \X Nat /\ aliases \subseteq aliases'
         /\ e.validated = "True" => \A i \in ids : <<name, i>> \in aliases'
         /\ e.validated # "True" =>
              aliases' \cap ({"install", "test"} \X Nat) = aliases \cap ({"install", "test"} \X Nat)
  <1>1. AddAllAlias(al, e, name).stop = FALSE
    BY DEF AddAllAlias
  <1>2. aliases' = aliases \cup (AddAllAlias(al, e, name).al \X ids) /\ exited' = FALSE
    BY <1>1 DEF AliasAll
  <1>3. AddAllAlias(al, e, name).al = IF e.validated = "True" THEN al \cup {name} ELSE al
    BY DEF AddAllAlias
  <1>4. AddAllAlias(al, e, name).al \subseteq Aliases
    BY <1>3 DEF Aliases
  <1>5. aliases' \subseteq Aliases \X Nat
    BY <1>2, <1>4
  <1>6. ASSUME e.validated = "True" PROVE \A i \in ids : <<name, i>> \in aliases'
    BY <1>2, <1>3, <1>6
  <1>7. ASSUME e.validated # "True"
        PROVE  aliases' \cap ({"install", "test"} \X Nat)
                 = aliases \cap ({"install", "test"} \X Nat)
    <2>1. AddAllAlias(al, e, name).al = al
      BY <1>3, <1>7
    <2>2. \A x \in al : x \notin {"install", "test"}
      OBVIOUS
    <2>3. (al \X ids) \cap ({"install", "test"} \X Nat) = {}
      BY <2>2
    <2>4. QED
      BY <1>2, <2>1, <2>3
  <1>8. QED
    BY <1>2, <1>5, <1>6, <1>7

(* IMPHeaders keeps the invariant.                                        *)
LEMMA HeadersIInv ==
  ASSUME Contract, IInv, IMPHeaders
  PROVE  IInv'
  <1> DEFINE n == Len(targets)
             ts == <<Mk("headers", 0, 0)>>
  <1>1. /\ menv.validated # "None" /\ nCalls' \in 0..MaxCalls /\ menv \in Env
        /\ aliases \subseteq Aliases \X Nat /\ n \in Nat /\ defaults \subseteq Nat
    BY ConstantsAssumption, LenProperties DEF IMPHeaders, Call, IInv, TypeOK
  <1>2. ts \in Seq(Target) /\ Len(ts) = 1 /\ ts[1] = Mk("headers", 0, 0)
    BY DEF Mk, Target, Kinds
  <1>3. Ids(1) = {n + 1}
    BY <1>1 DEF Ids
  <1>4. /\ exited' = FALSE
        /\ aliases' \subseteq Aliases \X Nat /\ aliases \subseteq aliases'
        /\ menv.validated = "True" => <<"install", n + 1>> \in aliases'
        /\ menv.validated # "True" =>
             aliases' \cap ({"install", "test"} \X Nat) = aliases \cap ({"install", "test"} \X Nat)
    <2>1. /\ {"mod-install", "modules-install"} \in SUBSET (Aliases \ {"install", "test"})
          /\ "install" \in {"install", "test"} /\ {n + 1} \in SUBSET Nat
      BY <1>1 DEF Aliases
    <2>2. AliasAll(AddAllAlias({"mod-install", "modules-install"}, menv, "install"), {n + 1})
      BY <1>3 DEF IMPHeaders, InstallAliases
    <2>3. QED
      BY <1>1, <2>1, <2>2, AliasAllLemma
  <1>5. /\ targets' = targets \o ts /\ menv' = menv /\ envs' = envs /\ defaults' = defaults
    BY DEF IMPHeaders, Declare
  <1>6. menv.validated = "False" =>
          aliases' \cap ({"install", "test"} \X Nat) = {} /\ defaults' = {}
    BY <1>4, <1>5 DEF IInv
  <1>7. \A j \in 1..Len(ts) :
          /\ ts[j].env \in 0..Len(envs)
          /\ ts[j].dep \in 0..(n + Len(ts))
          /\ ts[j].test = IF ts[j].kind = "test" THEN menv.test ELSE "none"
    BY <1>1, <1>2 DEF Mk
  <1>8. menv.validated = "True" =>
          \A j \in 1..Len(ts) :
            /\ ts[j].kind \in {"libinst", "headers", "pyinst", "pyextinst", "pymodinst"}
                 => <<"install", n + j>> \in aliases'
            /\ ts[j].kind = "test" => <<"test", n + j>> \in aliases'
            /\ PythonOn /\ ts[j].kind \in {"pylib", "pyext", "pymod"} => n + j \in defaults'
    BY <1>2, <1>4 DEF Mk
  <1>9. QED
    BY <1>1, <1>2, <1>4, <1>5, <1>6, <1>7, <1>8, DeclareIInv

(* IMPModuleTest keeps the invariant: the test target keeps the builder   *)
(* of the settled module environment.                                     *)
LEMMA ModuleTestIInv ==
  ASSUME Contract, IInv, IMPModuleTest
  PROVE  IInv'
  <1> DEFINE n == Len(targets)
             t == [kind |-> "test", env |-> 0, dep |-> 0, test |-> menv.test]
             ts == <<t>>
  <1>1. /\ menv.validated # "None" /\ nCalls' \in 0..MaxCalls /\ menv \in Env
        /\ aliases \subseteq Aliases \X Nat /\ n \in Nat /\ defaults \subseteq Nat
    BY ConstantsAssumption, LenProperties DEF IMPModuleTest, Call, IInv, TypeOK
  <1>2. ts \in Seq(Target) /\ Len(ts) = 1 /\ ts[1] = t
    BY <1>1 DEF Target, Kinds, Env
  <1>3. Ids(1) = {n + 1}
    BY <1>1 DEF Ids
  <1>4. /\ exited' = FALSE
        /\ aliases' \subseteq Aliases \X Nat /\ aliases \subseteq aliases'
        /\ menv.validated = "True" => <<"test", n + 1>> \in aliases'
        /\ menv.validated # "True" =>
             aliases' \cap ({"install", "test"} \X Nat) = aliases \cap ({"install", "test"} \X Nat)
    <2>1. /\ {"mod-test", "modules-test"} \in SUBSET (Aliases \ {"install", "test"})
          /\ "test" \in {"install", "test"} /\ {n + 1} \in SUBSET Nat
      BY <1>1 DEF Aliases
    <2>2. AliasAll(AddAllAlias({"mod-test", "modules-test"}, menv, "test"), {n + 1})
      BY <1>3 DEF IMPModuleTest, TestAliases
    <2>3. QED
      BY <1>1, <2>1, <2>2, AliasAllLemma
  <1>5. /\ targets' = targets \o ts /\ menv' = menv /\ envs' = envs /\ defaults' = defaults
    BY DEF IMPModuleTest, Declare
  <1>6. menv.validated = "False" =>
          aliases' \cap ({"install", "test"} \X Nat) = {} /\ defaults' = {}
    BY <1>4, <1>5 DEF IInv
  <1>7. \A j \in 1..Len(ts) :
          /\ ts[j].env \in 0..Len(envs)
          /\ ts[j].dep \in 0..(n + Len(ts))
          /\ ts[j].test = IF ts[j].kind = "test" THEN menv.test ELSE "none"
    BY <1>1, <1>2
  <1>8. menv.validated = "True" =>
          \A j \in 1..Len(ts) :
            /\ ts[j].kind \in {"libinst", "headers", "pyinst", "pyextinst", "pymodinst"}
                 => <<"install", n + j>> \in aliases'
            /\ ts[j].kind = "test" => <<"test", n + j>> \in aliases'
            /\ PythonOn /\ ts[j].kind \in {"pylib", "pyext", "pymod"} => n + j \in defaults'
    BY <1>2, <1>4
  <1>9. QED
    BY <1>1, <1>2, <1>4, <1>5, <1>6, <1>7, <1>8, DeclareIInv

(* IMPPython keeps the invariant: the Python library is a default target *)
(* exactly when the module is validated and Python is on.                *)
LEMMA PythonIInv ==
  ASSUME Contract, IInv, IMPPython
  PROVE  IInv'
  <1> DEFINE n == Len(targets)
             ts == <<Mk("pyinst", 0, 0), Mk("pylib", 0, 0)>>
  <1>1. /\ menv.validated # "None" /\ nCalls' \in 0..MaxCalls /\ menv \in Env
        /\ aliases \subseteq Aliases \X Nat /\ n \in Nat /\ defaults \subseteq Nat
    BY ConstantsAssumption, LenProperties DEF IMPPython, Call, IInv, TypeOK
  <1>2. /\ ts \in Seq(Target) /\ Len(ts) = 2
        /\ ts[1] = Mk("pyinst", 0, 0) /\ ts[2] = Mk("pylib", 0, 0)
    BY DEF Mk, Target, Kinds
  <1>3. ~InstallAliases(menv).stop
    BY <1>1 DEF InstallAliases, AddAllAlias
  <1>4. /\ exited' = FALSE
        /\ aliases' \subseteq Aliases \X Nat /\ aliases \subseteq aliases'
        /\ menv.validated = "True" => <<"install", n + 1>> \in aliases'
        /\ menv.validated # "True" =>
             aliases' \cap ({"install", "test"} \X Nat) = aliases \cap ({"install", "test"} \X Nat)
    <2>1. /\ {"mod-install", "modules-install"} \in SUBSET (Aliases \ {"install", "test"})
          /\ "install" \in {"install", "test"} /\ {n + 1} \in SUBSET Nat
      BY <1>1 DEF Aliases
    <2>2. AliasAll(AddAllAlias({"mod-install", "modules-install"}, menv, "install"), {n + 1})
      BY DEF IMPPython, InstallAliases
    <2>3. QED
      BY <1>1, <2>1, <2>2, AliasAllLemma
  <1>5. defaults' = IF PythonOn /\ menv.validated = "True" THEN defaults \cup {n + 2}
                                                          ELSE defaults
    BY <1>3 DEF IMPPython, DefaultIf
  <1>6. /\ targets' = targets \o ts /\ menv' = menv /\ envs' = envs
        /\ defaults' \subseteq Nat /\ defaults \subseteq defaults'
    <2>1. targets' = targets \o ts /\ menv' = menv /\ envs' = envs
      BY DEF IMPPython, Declare
    <2>2. defaults' \subseteq Nat /\ defaults \subseteq defaults'
      <3>1. CASE PythonOn /\ menv.validated = "True"
        <4>1. defaults' = defaults \cup {n + 2}
          BY <1>5, <3>1
        <4>2. n + 2 \in Nat
          BY <1>1
        <4>3. QED
          BY <1>1, <4>1, <4>2
      <3>2. CASE ~(PythonOn /\ menv.validated = "True")
        BY <1>1, <1>5, <3>2
      <3>3. QED
        BY <3>1, <3>2
    <2>3. QED
      BY <2>1, <2>2
  <1>7. menv.validated = "False" =>
          aliases' \cap ({"install", "test"} \X Nat) = {} /\ defaults' = {}
    BY <1>4, <1>5 DEF IInv
  <1>8. \A j \in 1..Len(ts) :
          /\ ts[j].env \in 0..Len(envs)
          /\ ts[j].dep \in 0..(n + Len(ts))
          /\ ts[j].test = IF ts[j].kind = "test" THEN menv.test ELSE "none"
    BY <1>1, <1>2 DEF Mk
  <1>9. menv.validated = "True" =>
          \A j \in 1..Len(ts) :
            /\ ts[j].kind \in {"libinst", "headers", "pyinst", "pyextinst", "pymodinst"}
                 => <<"install", n + j>> \in aliases'
            /\ ts[j].kind = "test" => <<"test", n + j>> \in aliases'
            /\ PythonOn /\ ts[j].kind \in {"pylib", "pyext", "pymod"} => n + j \in defaults'
    BY <1>2, <1>4, <1>5 DEF Mk
  <1>10. QED
    BY <1>1, <1>2, <1>4, <1>6, <1>7, <1>8, <1>9, DeclareIInv

(* IMPSharedLibrary on a derived environment keeps the invariant: the     *)
(* environment is a copy of the settled module environment.              *)
LEMMA SharedLibraryIInv ==
  ASSUME Contract, IInv, NEW e \in DOMAIN envs, NEW b \in BOOLEAN, IMPSharedLibrary(e, b)
  PROVE  IInv'
  <1> DEFINE n == Len(targets)
  <1>1. /\ menv.validated # "None" /\ nCalls' \in 0..MaxCalls /\ menv \in Env
        /\ aliases \subseteq Aliases \X Nat /\ n \in Nat /\ defaults \subseteq Nat
        /\ envs[e] = menv /\ e \in 1..Len(envs) /\ ~exited
        /\ menv' = menv /\ envs' = envs /\ defaults' = defaults
    BY ConstantsAssumption, LenProperties DEF IMPSharedLibrary, Call, IInv, TypeOK
  <1>2. menv.validated = "False" => aliases \cap ({"install", "test"} \X Nat) = {} /\ defaults = {}
    BY DEF IInv
  <1>3. CASE b
    <2> DEFINE ts == <<Mk("lib", e, 0), Mk("libinst", e, n + 1)>>
    <2>1. /\ ts \in Seq(Target) /\ Len(ts) = 2
          /\ ts[1] = Mk("lib", e, 0) /\ ts[2] = Mk("libinst", e, n + 1)
      BY <1>1 DEF Mk, Target, Kinds
    <2>2. /\ exited' = FALSE
          /\ aliases' \subseteq Aliases \X Nat /\ aliases \subseteq aliases'
          /\ menv.validated = "True" => <<"install", n + 2>> \in aliases'
          /\ menv.validated # "True" =>
               aliases' \cap ({"install", "test"} \X Nat) = aliases \cap ({"install", "test"} \X Nat)
      <3>1. /\ {"mod-install", "modules-install"} \in SUBSET (Aliases \ {"install", "test"})
            /\ "install" \in {"install", "test"} /\ {n + 2} \in SUBSET Nat
        BY <1>1 DEF Aliases
      <3>2. AliasAll(AddAllAlias({"mod-install", "modules-install"}, menv, "install"), {n + 2})
        BY <1>1, <1>3 DEF IMPSharedLibrary, InstallAliases
      <3>3. QED
        BY <1>1, <3>1, <3>2, AliasAllLemma
    <2>3. targets' = targets \o ts
      BY <1>3 DEF IMPSharedLibrary, Declare
    <2>4. \A j \in 1..Len(ts) :
            /\ ts[j].env \in 0..Len(envs)
            /\ ts[j].dep \in 0..(n + Len(ts))
            /\ ts[j].test = IF ts[j].kind = "test" THEN menv.test ELSE "none"
      BY <1>1, <2>1 DEF Mk
    <2>5. menv.validated = "True" =>
            \A j \in 1..Len(ts) :
              /\ ts[j].kind \in {"libinst", "headers", "pyinst", "pyextinst", "pymodinst"}
                   => <<"install", n + j>> \in aliases'
              /\ ts[j].kind = "test" => <<"test", n + j>> \in aliases'
              /\ PythonOn /\ ts[j].kind \in {"pylib", "pyext", "pymod"} => n + j \in defaults'
      <3> SUFFICES ASSUME menv.validated = "True", NEW j \in 1..Len(ts)
                   PROVE  /\ ts[j].kind \in {"libinst", "headers", "pyinst", "pyextinst",
                                              "pymodinst"}
                               => <<"install", n + j>> \in aliases'
                          /\ ts[j].kind = "test" => <<"test", n + j>> \in aliases'
                          /\ PythonOn /\ ts[j].kind \in {"pylib", "pyext", "pymod"}
                               => n + j \in defaults'
        OBVIOUS
      <3>1. j = 1 \/ j = 2
        BY <2>1
      <3>2. CASE j = 1
        BY <2>1, <3>2 DEF Mk
      <3>3. CASE j = 2
        BY <2>1, <2>2, <3>3 DEF Mk
      <3>4. QED
        BY <3>1, <3>2, <3>3
    <2>6. menv.validated = "False" =>
            aliases' \cap ({"install", "test"} \X Nat) = {} /\ defaults' = {}
      BY <1>1, <1>2, <2>2
    <2>7. QED
      BY <1>1, <2>1, <2>2, <2>3, <2>4, <2>5, <2>6, DeclareIInv
  <1>4. CASE ~b
    <2> DEFINE ts == <<Mk("lib", e, 0)>>
    <2>1. ts \in Seq(Target) /\ Len(ts) = 1 /\ ts[1] = Mk("lib", e, 0)
      BY <1>1 DEF Mk, Target, Kinds
    <2>2. targets' = targets \o ts /\ aliases' = aliases /\ exited' = FALSE
      BY <1>1, <1>4 DEF IMPSharedLibrary, Declare
    <2>3. \A j \in 1..Len(ts) :
            /\ ts[j].env \in 0..Len(envs)
            /\ ts[j].dep \in 0..(n + Len(ts))
            /\ ts[j].test = IF ts[j].kind = "test" THEN menv.test ELSE "none"
      BY <1>1, <2>1 DEF Mk
    <2>4. \A j \in 1..Len(ts) :
            /\ ts[j].kind \notin {"libinst", "headers", "pyinst", "pyextinst", "pymodinst"}
            /\ ts[j].kind \notin {"test", "pylib", "pyext", "pymod"}
      BY <2>1 DEF Mk
    <2>5. \A j \in 1..Len(ts) :
            /\ ts[j].kind \in {"libinst", "headers", "pyinst", "pyextinst", "pymodinst"}
                 => <<"install", n + j>> \in aliases'
            /\ ts[j].kind = "test" => <<"test", n + j>> \in aliases'
            /\ PythonOn /\ ts[j].kind \in {"pylib", "pyext", "pymod"} => n + j \in defaults'
      BY <2>4
    <2>6. menv.validated = "False" =>
            aliases' \cap ({"install", "test"} \X Nat) = {} /\ defaults' = {}
      BY <1>1, <1>2, <2>2
    <2>7. aliases' \subseteq Aliases \X Nat /\ aliases \subseteq aliases'
      BY <1>1, <2>2
    <2>8. QED
      BY <1>1, <2>1, <2>2, <2>3, <2>5, <2>6, <2>7, DeclareIInv
  <1>5. QED
    BY <1>3, <1>4

(* IMPPythonExtension on a derived environment keeps the invariant.       *)
LEMMA PythonExtensionIInv ==
  ASSUME Contract, IInv, NEW e \in DOMAIN envs, IMPPythonExtension(e)
  PROVE  IInv'
  <1> DEFINE n == Len(targets)
             ts == <<Mk("pyext", e, 0), Mk("pymod", e, 0),
                     Mk("pyextinst", e, n + 1), Mk("pymodinst", e, 0)>>
  <1>1. /\ menv.validated # "None" /\ nCalls' \in 0..MaxCalls /\ menv \in Env
        /\ aliases \subseteq Aliases \X Nat /\ n \in Nat /\ defaults \subseteq Nat
        /\ envs[e] = menv /\ e \in 1..Len(envs)
        /\ menv' = menv /\ envs' = envs /\ targets' = targets \o ts
    BY ConstantsAssumption, LenProperties DEF IMPPythonExtension, Call, IInv, TypeOK, Declare
  <1>2. /\ ts \in Seq(Target) /\ Len(ts) = 4
        /\ ts[1] = Mk("pyext", e, 0) /\ ts[2] = Mk("pymod", e, 0)
        /\ ts[3] = Mk("pyextinst", e, n + 1) /\ ts[4] = Mk("pymodinst", e, 0)
    BY <1>1 DEF Mk, Target, Kinds
  <1>3. ~InstallAliases(menv).stop
    BY <1>1 DEF InstallAliases, AddAllAlias
  <1>4. /\ exited' = FALSE
        /\ aliases' \subseteq Aliases \X Nat /\ aliases \subseteq aliases'
        /\ menv.validated = "True" => \A i \in {n + 3, n + 4} : <<"install", i>> \in aliases'
        /\ menv.validated # "True" =>
             aliases' \cap ({"install", "test"} \X Nat) = aliases \cap ({"install", "test"} \X Nat)
    <2>1. /\ {"mod-install", "modules-install"} \in SUBSET (Aliases \ {"install", "test"})
          /\ "install" \in {"install", "test"} /\ {n + 3, n + 4} \in SUBSET Nat
      BY <1>1 DEF Aliases
    <2>2. AliasAll(AddAllAlias({"mod-install", "modules-install"}, menv, "install"),
                   {n + 3, n + 4})
      BY <1>1 DEF IMPPythonExtension, InstallAliases
    <2>3. QED
      BY <1>1, <2>1, <2>2, AliasAllLemma
  <1>5. defaults' = IF PythonOn /\ menv.validated = "True" THEN defaults \cup {n + 1, n + 2}
                                                          ELSE defaults
    BY <1>1, <1>3 DEF IMPPythonExtension, DefaultIf
  <1>6. defaults' \subseteq Nat /\ defaults \subseteq defaults'
    <2>1. CASE PythonOn /\ menv.validated = "True"
      <3>1. defaults' = defaults \cup {n + 1, n + 2}
        BY <1>5, <2>1
      <3>2. n + 1 \in Nat /\ n + 2 \in Nat
        BY <1>1
      <3>3. QED
        BY <1>1, <3>1, <3>2
    <2>2. CASE ~(PythonOn /\ menv.validated = "True")
      BY <1>1, <1>5, <2>2
    <2>3. QED
      BY <2>1, <2>2
  <1>7. menv.validated = "False" =>
          aliases' \cap ({"install", "test"} \X Nat) = {} /\ defaults' = {}
    BY <1>4, <1>5 DEF IInv
  <1>8. \A j \in 1..Len(ts) :
          /\ ts[j].env \in 0..Len(envs)
          /\ ts[j].dep \in 0..(n + Len(ts))
          /\ ts[j].test = IF ts[j].kind = "test" THEN menv.test ELSE "none"
    <2> SUFFICES ASSUME NEW j \in 1..4
                 PROVE  /\ ts[j].env \in 0..Len(envs)
                        /\ ts[j].dep \in 0..(n + 4)
                        /\ ts[j].test = "none" /\ ts[j].kind # "test"
      BY <1>2
    <2>1. j \in {1, 2, 3, 4}
      OBVIOUS
    <2>2. QED
      BY <1>1, <1>2, <2>1 DEF Mk
  <1>9. ASSUME menv.validated = "True", NEW j \in 1..Len(ts)
        PROVE  /\ ts[j].kind \in {"libinst", "headers", "pyinst", "pyextinst", "pymodinst"}
                    => <<"install", n + j>> \in aliases'
               /\ ts[j].kind = "test" => <<"test", n + j>> \in aliases'
               /\ PythonOn /\ ts[j].kind \in {"pylib", "pyext", "pymod"} => n + j \in defaults'
    <2>1. j \in {1, 2, 3, 4}
      BY <1>2
    <2>2. CASE j \in {1, 2}
      BY <1>2, <1>5, <1>9, <2>2 DEF Mk
    <2>3. CASE j \in {3, 4}
      <3>1. n + j \in {n + 3, n + 4}
        BY <2>3
      <3>2. <<"install", n + j>> \in aliases'
        BY <1>4, <1>9, <3>1
      <3>3. QED
        BY <1>2, <2>3, <3>2 DEF Mk
    <2>4. QED
      BY <2>1, <2>2, <2>3
  <1>10. QED
    BY <1>1, <1>2, <1>4, <1>6, <1>7, <1>8, <1>9, DeclareIInv

(* Under the contract every pseudo-builder call keeps the invariant.      *)
LEMMA NextIInv ==
  ASSUME Contract, IInv, [Next]_vars
  PROVE  IInv'
  <1> DEFINE n == Len(targets)
  <1>0. /\ targets \in Seq(Target) /\ n \in Nat /\ envs \in Seq(Env)
        /\ menv \in IsMenv
    BY LenProperties DEF IInv, TypeOK
  <1>1. CASE validate
    <2>1. menv.validated = "None" /\ menv' = [menv EXCEPT !.validated = "True"]
      BY <1>1 DEF validate
    <2>2. menv' = [validated |-> "True", com |-> "real", test |-> "real"]
      BY <2>1, <1>0 DEF IsMenv
    <2>3. targets = << >> /\ envs = << >> /\ DOMAIN targets = {} /\ DOMAIN envs = {}
      BY <2>1 DEF IInv
    <2>4. TypeOK'
      BY <1>1, <2>2, <2>3 DEF validate, IInv, TypeOK, Env, Validity
    <2>5. QED
      BY <1>1, <2>2, <2>3, <2>4 DEF validate, IInv, IsMenv, TargetsWellFormed,
                                    ValidModuleBuildsEverything
  <1>2. CASE invalidate
    <2>1. menv.validated = "None"
          /\ menv' = [validated |-> "False", com |-> "fail", test |-> "fail"]
      BY <1>2 DEF invalidate
    <2>2. targets = << >> /\ envs = << >> /\ DOMAIN targets = {} /\ DOMAIN envs = {}
      BY <2>1 DEF IInv
    <2>3. TypeOK'
      BY <1>2, <2>1, <2>2 DEF invalidate, IInv, TypeOK, Env, Validity
    <2>4. QED
      BY <1>2, <2>1, <2>2, <2>3 DEF invalidate, IInv, IsMenv, TargetsWellFormed
  <1>3. CASE DeriveEnvironment
    <2>1. /\ menv.validated # "None" /\ nCalls' \in 0..MaxCalls
          /\ envs' = Append(envs, menv) /\ menv' = menv
          /\ UNCHANGED <<targets, aliases, defaults, exited>>
      BY <1>3, ConstantsAssumption DEF DeriveEnvironment, Call, IInv, TypeOK
    <2>2. /\ envs' \in Seq(Env) /\ Len(envs') = Len(envs) + 1
          /\ \A e \in DOMAIN envs' : envs'[e] = menv
          /\ menv \in Env
      <3>1. menv \in Env
        BY DEF IInv, TypeOK
      <3>2. QED
        BY <2>1, <3>1, AppendProperties, LenProperties, <1>0 DEF IInv
    <2>3. TypeOK'
      BY <2>1, <2>2 DEF IInv, TypeOK
    <2>4. TargetsWellFormed'
      BY <2>1, <2>2, LenProperties, <1>0 DEF IInv, TargetsWellFormed
    <2>5. ASSUME menv.validated = "True" PROVE ValidModuleBuildsEverything'
      <3>1. menv = [validated |-> "True", com |-> "real", test |-> "real"]
        BY <2>5, <1>0 DEF IsMenv
      <3>2. \A k \in DOMAIN targets : (~OwnFails(targets[k]))'
        <4> SUFFICES ASSUME NEW k \in DOMAIN targets PROVE (~OwnFails(targets[k]))'
          OBVIOUS
        <4>1. /\ targets[k].env \in 0..Len(envs')
              /\ targets[k].test \in {"none", "real"}
          BY <2>1, <2>4, <3>1 DEF TargetsWellFormed
        <4>2. (EnvOf(targets[k].env).com)' = "real"
          BY <4>1, <2>1, <2>2, <3>1 DEF EnvOf
        <4>3. QED
          BY <4>1, <4>2, <2>1 DEF OwnFails
      <3>3. \A k \in DOMAIN targets : ~Fails(k)'
        BY <3>2, <2>1 DEF IInv, TargetsWellFormed, Fails
      <3>4. QED
        BY <3>3, <2>1, <2>5 DEF IInv, ValidModuleBuildsEverything
    <2>6. QED
      BY <2>1, <2>2, <2>3, <2>4, <2>5 DEF IInv
  <1>4. CASE UNCHANGED vars
    BY <1>4 DEF vars, IInv, TypeOK, TargetsWellFormed, ValidModuleBuildsEverything, Fails,
                OwnFails, EnvOf, InAll, IsMenv
  <1>5. CASE \E e \in DOMAIN envs, b \in BOOLEAN : IMPSharedLibrary(e, b)
    BY <1>5, SharedLibraryIInv
  <1>6. CASE IMPHeaders
    BY <1>6, HeadersIInv
  <1>7. CASE IMPPython
    BY <1>7, PythonIInv
  <1>8. CASE \E e \in DOMAIN envs : IMPPythonExtension(e)
    BY <1>8, PythonExtensionIInv
  <1>9. CASE IMPModuleTest
    BY <1>9, ModuleTestIInv
  <1>10. QED
    BY <1>1, <1>2, <1>3, <1>4, <1>5, <1>6, <1>7, <1>8, <1>9 DEF Next

(* The invariant implies both properties.                                *)
LEMMA IInvProps == IInv => InvalidModuleBuildsNothing /\ ValidModuleBuildsEverything
  <1> SUFFICES ASSUME IInv PROVE InvalidModuleBuildsNothing /\ ValidModuleBuildsEverything
    OBVIOUS
  <1>1. InvalidModuleBuildsNothing
    <2> SUFFICES ASSUME menv.validated = "False", NEW i \in DOMAIN targets
                 PROVE  ~InAll(i) /\ (Compiles(i) => Fails(i))
      BY DEF InvalidModuleBuildsNothing
    <2>1. menv = [validated |-> "False", com |-> "fail", test |-> "fail"]
      BY DEF IInv, IsMenv
    <2>2. ~InAll(i)
      BY DEF IInv, InAll, TypeOK
    <2>3. targets[i].env \in 0..Len(envs)
          /\ targets[i].test = IF targets[i].kind = "test" THEN menv.test ELSE "none"
      BY DEF IInv, TargetsWellFormed
    <2>4. EnvOf(targets[i].env).com = "fail"
      BY <2>1, <2>3 DEF IInv, EnvOf
    <2>5. Compiles(i) => OwnFails(targets[i])
      BY <2>1, <2>3, <2>4 DEF Compiles, OwnFails
    <2>6. QED
      BY <2>2, <2>5 DEF Fails
  <1>2. ValidModuleBuildsEverything
    BY DEF IInv, ValidModuleBuildsEverything
  <1>3. QED
    BY <1>1, <1>2

(* Under the contract of IMPModule's docstring, a module's build follows *)
(* its validity, however the SConscript interleaves its pseudo-builder   *)
(* calls and derived environments: an invalidated module builds and     *)
(* installs nothing, a validated one builds, installs and tests all.     *)
THEOREM BuildsFollowValidity ==
  ASSUME Contract
  PROVE  Spec => [](InvalidModuleBuildsNothing /\ ValidModuleBuildsEverything)
  <1>1. Init => IInv
    BY InitIInv
  <1>2. IInv /\ [Next]_vars => IInv'
    BY NextIInv
  <1>3. IInv => InvalidModuleBuildsNothing /\ ValidModuleBuildsEverything
    BY IInvProps
  <1>4. QED
    BY <1>1, <1>2, <1>3, PTL DEF Spec

(* The validated half alone, as the scons_module run checks it: under    *)
(* the contract a validated module never runs fail_action and all its    *)
(* installed files, tests and Python targets are reached.                *)
THEOREM ValidBuildsEverything ==
  ASSUME Contract
  PROVE  Spec => []ValidModuleBuildsEverything
BY BuildsFollowValidity, PTL

=============================================================================
