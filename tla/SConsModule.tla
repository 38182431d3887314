---------------------------- MODULE SConsModule ----------------------------
(***************************************************************************)
(* The IMP module tool of the SCons build (src/tools/imp_module.py): the   *)
(* environment IMPModule gives a module's SConscript, the pseudo-builders  *)
(* the SConscript calls on it, and validate/invalidate, which decide       *)
(* whether the module is built at all.                                     *)
(*                                                                         *)
(* One module is modelled. Its environment holds VALIDATED (None, True or  *)
(* False), the compile commands (real, or the fail_action invalidate puts  *)
(* in SHLINKCOM, CCCOM, CXXCOM, SHCCCOM, SHCXXCOM, SWIGCOM) and the        *)
(* _IMPModuleTest builder. IMPSharedLibraryEnvironment and                 *)
(* IMPPythonExtensionEnvironment return a copy of the environment made at  *)
(* the call (tools.get_sharedlib_environment / get_pyext_environment).     *)
(* SCons reads a command when it builds a target, so a compiled target     *)
(* fails when the environment it was declared in holds fail_action at the *)
(* end of the SConscript; a test target keeps the builder object it was    *)
(* declared with. Aliases and Default are global.                         *)
(***************************************************************************)
EXTENDS Naturals, Sequences

CONSTANTS
  Cpp,       \* IMPModule(env, module, cpp): the C++ pseudo-builders exist
  PythonOn,  \* env.get('python', True)
  Contract,  \* the SConscript calls validate or invalidate once, before any builder
  MaxCalls   \* pseudo-builder calls the SConscript makes

ASSUME ConstantsAssumption ==
  Cpp \in BOOLEAN /\ PythonOn \in BOOLEAN /\ Contract \in BOOLEAN /\ MaxCalls \in Nat

Validity == {"None", "True", "False"}
Env == [validated : Validity, com : {"real", "fail"}, test : {"real", "fail"}]
Kinds == {"lib", "libinst", "headers", "pyinst", "pylib", "pyext", "pymod",
          "pyextinst", "pymodinst", "test"}
Aliases == {"mod-install", "modules-install", "install", "mod-test", "modules-test", "test"}

VARIABLES
  menv,     \* the module environment the SConscript holds
  envs,     \* environments derived from it, in creation order
  targets,  \* declared targets: kind, declaring environment (0 = menv), dependency
  aliases,  \* <<alias, target>> pairs of env.Alias
  defaults, \* the targets of env.Default
  exited,   \* env.Exit(1) was called
  nCalls

vars == <<menv, envs, targets, aliases, defaults, exited, nCalls>>

Target == [kind : Kinds, env : Nat, dep : Nat, test : {"real", "fail", "none"}]

TypeOK ==
  /\ menv \in Env /\ envs \in Seq(Env)
  /\ targets \in Seq(Target)
  /\ aliases \subseteq Aliases \X Nat /\ defaults \subseteq Nat
  /\ exited \in BOOLEAN /\ nCalls \in 0..MaxCalls

-----------------------------------------------------------------------------
(* The environment a target was declared in, as SCons reads it at build.  *)
EnvOf(i) == IF i = 0 THEN menv ELSE envs[i]

(* Every pseudo-builder call: the SConscript has not stopped, and under   *)
(* the documented contract validate or invalidate came first.             *)
Call ==
  /\ ~exited
  /\ nCalls < MaxCalls /\ nCalls' = nCalls + 1
  /\ Contract => menv.validated # "None"

(* Declares targets ts, numbered after the existing ones.                 *)
Declare(ts) == targets' = targets \o ts
Mk(k, e, d) == [kind |-> k, env |-> e, dep |-> d, test |-> "none"]
Ids(n) == {Len(targets) + j : j \in 1..n}

(* Mutation: the 'all' alias is added without checking VALIDATED.        *)
AddAllAlias_unchecked(al, e, name) ==
  IF e.validated = "None" THEN [stop |-> TRUE, al |-> al]
  ELSE [stop |-> FALSE, al |-> al \cup {name}]

(* _add_all_alias: exit the build when neither validate nor invalidate    *)
(* was called; add the 'all' alias only for a validated environment.      *)
AddAllAlias(al, e, name) ==
  IF e.validated = "None" THEN [stop |-> TRUE, al |-> al]
  ELSE [stop |-> FALSE, al |-> IF e.validated = "True" THEN al \cup {name} ELSE al]

(* Mutation: the 'all' test alias is spelt as the install one.            *)
TestAliases_install(e) == AddAllAlias({"mod-test", "modules-test"}, e, "install")

InstallAliases(e) == AddAllAlias({"mod-install", "modules-install"}, e, "install")
TestAliases(e) == AddAllAlias({"mod-test", "modules-test"}, e, "test")

(* env.Alias(alias, ts) for every alias the helper returned, or           *)
(* env.Exit(1) when it stopped the build.                                 *)
AliasAll(r, ids) ==
  /\ exited' = r.stop
  /\ aliases' = IF r.stop THEN aliases ELSE aliases \cup (r.al \X ids)

(* _add_module_default_alias                                             *)
DefaultIf(e, ids) == defaults' = IF e.validated = "True" THEN defaults \cup ids ELSE defaults

validate ==
  /\ ~exited
  /\ Contract => menv.validated = "None"
  /\ menv' = [menv EXCEPT !.validated = "True"]
  /\ UNCHANGED <<envs, targets, aliases, defaults, exited, nCalls>>

invalidate ==
  /\ ~exited
  /\ Contract => menv.validated = "None"
  /\ menv' = [validated |-> "False", com |-> "fail", test |-> "fail"]
  /\ UNCHANGED <<envs, targets, aliases, defaults, exited, nCalls>>

(* IMPSharedLibraryEnvironment / IMPPythonExtensionEnvironment: a copy.   *)
DeriveEnvironment ==
  /\ Call /\ Cpp
  /\ envs' = Append(envs, menv)
  /\ UNCHANGED <<menv, targets, aliases, defaults, exited>>

(* IMPSharedLibrary(env, files, install) on a derived environment e.      *)
IMPSharedLibrary(e, install) ==
  LET n == Len(targets) IN
  /\ Call /\ e \in DOMAIN envs
  /\ IF install
       THEN /\ Declare(<<Mk("lib", e, 0), Mk("libinst", e, n + 1)>>)
            /\ AliasAll(InstallAliases(envs[e]), {n + 2})
       ELSE /\ Declare(<<Mk("lib", e, 0)>>)
            /\ UNCHANGED <<aliases, exited>>
  /\ UNCHANGED <<menv, envs, defaults>>

IMPHeaders ==
  /\ Call /\ Cpp
  /\ Declare(<<Mk("headers", 0, 0)>>)
  /\ AliasAll(InstallAliases(menv), Ids(1))
  /\ UNCHANGED <<menv, envs, defaults>>

IMPPython ==
  LET n == Len(targets) IN
  /\ Call
  /\ Declare(<<Mk("pyinst", 0, 0), Mk("pylib", 0, 0)>>)
  /\ AliasAll(InstallAliases(menv), {n + 1})
  /\ IF PythonOn /\ ~InstallAliases(menv).stop THEN DefaultIf(menv, {n + 2})
                                                ELSE UNCHANGED defaults
  /\ UNCHANGED <<menv, envs>>

(* IMPPythonExtension(env, swig_interface) on a derived environment e.    *)
IMPPythonExtension(e) ==
  LET n == Len(targets) IN
  /\ Call /\ e \in DOMAIN envs
  /\ Declare(<<Mk("pyext", e, 0), Mk("pymod", e, 0),
               Mk("pyextinst", e, n + 1), Mk("pymodinst", e, 0)>>)
  /\ AliasAll(InstallAliases(envs[e]), {n + 3, n + 4})
  /\ IF PythonOn /\ ~InstallAliases(envs[e]).stop THEN DefaultIf(envs[e], {n + 1, n + 2})
                                                   ELSE UNCHANGED defaults
  /\ UNCHANGED <<menv, envs>>

(* IMPModuleTest: env._IMPModuleTest is looked up at the call.            *)
IMPModuleTest ==
  /\ Call
  /\ Declare(<<[kind |-> "test", env |-> 0, dep |-> 0, test |-> menv.test]>>)
  /\ AliasAll(TestAliases(menv), Ids(1))
  /\ UNCHANGED <<menv, envs, defaults>>

(* IMPModule(env, module, cpp): VALIDATED is None, the commands are real. *)
Init ==
  /\ menv = [validated |-> "None", com |-> "real", test |-> "real"]
  /\ envs = << >> /\ targets = << >>
  /\ aliases = {} /\ defaults = {}
  /\ exited = FALSE /\ nCalls = 0

Next ==
  \/ validate \/ invalidate
  \/ DeriveEnvironment
  \/ \E e \in DOMAIN envs, b \in BOOLEAN : IMPSharedLibrary(e, b)
  \/ IMPHeaders \/ IMPPython
  \/ \E e \in DOMAIN envs : IMPPythonExtension(e)
  \/ IMPModuleTest

Spec == Init /\ [][Next]_vars

-----------------------------------------------------------------------------
(* What a build of the targets does when SCons runs them.                 *)
OwnFails(t) ==
  \/ t.kind \in {"lib", "pyext"} /\ EnvOf(t.env).com = "fail"
  \/ t.test = "fail"
Fails(i) == OwnFails(targets[i]) \/ (targets[i].dep # 0 /\ OwnFails(targets[targets[i].dep]))
Compiles(i) == targets[i].kind \in {"lib", "pyext", "test"}
InAll(i) == <<"install", i>> \in aliases \/ <<"test", i>> \in aliases \/ i \in defaults

(* An invalidated module builds nothing: none of its targets is reached   *)
(* from 'scons', 'scons install' or 'scons test', and every library,      *)
(* extension or test of it runs fail_action, whatever environment the     *)
(* SConscript declared it in.                                             *)
InvalidModuleBuildsNothing ==
  menv.validated = "False" =>
    \A i \in DOMAIN targets : ~InAll(i) /\ (Compiles(i) => Fails(i))

(* A validated module builds everything: no target runs fail_action,      *)
(* every installed file is under 'install', every test under 'test', and *)
(* the Python library and extension are default targets.                  *)
ValidModuleBuildsEverything ==
  menv.validated = "True" =>
    \A i \in DOMAIN targets :
      /\ ~Fails(i)
      /\ targets[i].kind \in {"libinst", "headers", "pyinst", "pyextinst", "pymodinst"}
           => <<"install", i>> \in aliases
      /\ targets[i].kind = "test" => <<"test", i>> \in aliases
      /\ PythonOn /\ targets[i].kind \in {"pylib", "pyext", "pymod"} => i \in defaults

=============================================================================
