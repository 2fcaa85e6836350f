-------------------------- MODULE WorkspaceProofs --------------------------
(***************************************************************************)
(* What Workspace keeps for any tree of directories, any configurations    *)
(* and any number of edits.  The history of a shell that matters is small: *)
(* its variables are those of the last `sec use`, none, or some that were  *)
(* exported by hand.                                                       *)
(***************************************************************************)
EXTENDS Workspace, TLAPS, WellFoundedInduction

LEMMA LeastOf ==
  ASSUME NEW S \in SUBSET Nat, S # {}
  PROVE  Min(S) \in S
<1>1. PICK x \in S : \A y \in S : <<y, x>> \notin OpToRel(<, Nat)
  BY NatLessThanWellFounded, WFMin
<1>2. \A y \in S : ~(y < x)
  BY <1>1 DEF OpToRel
<1>3. \A y \in S : x <= y
  BY <1>2
<1> QED BY <1>3 DEF Min

-----------------------------------------------------------------------------
(* Configurations.                                                         *)

\* What is left of a file's configuration once it is normalized: its default
\* may be any name, or none.
Fits(c) ==
  /\ DOMAIN c.environments \subseteq Alias
  /\ \A a \in DOMAIN c.environments : c.environments[a] \in Environment
  /\ c.profile \in Profile \cup {None}

LEMMA BoundFits == \A p \in Profile \cup {None} : IsConfig([NoConfig EXCEPT !.profile = p])
<1> SUFFICES ASSUME NEW p \in Profile \cup {None} PROVE IsConfig([NoConfig EXCEPT !.profile = p])
  OBVIOUS
<1>1. [NoConfig EXCEPT !.profile = p] = [profile |-> p, default |-> None, environments |-> << >>]
  BY DEF NoConfig
<1>2. DOMAIN << >> = {} OBVIOUS
<1> QED BY <1>1, <1>2 DEF IsConfig

\* A legacy profile becomes an environment, and a default its profile.
LEMMA NormalizedFits ==
  ASSUME NEW c, IsConfig(c)
  PROVE  Fits(Normalized(c))
<1> DEFINE es == c.environments
           legacy == c.profile # None /\ DOMAIN es = {}
           v2 == c.profile = None /\ DOMAIN es # {}
<1>1. /\ c = [profile |-> c.profile, default |-> c.default, environments |-> es]
      /\ DOMAIN es \subseteq Alias /\ \A a \in DOMAIN es : es[a] \in Environment
      /\ c.profile \in Profile \cup {None}
  BY DEF IsConfig
<1>2. CASE legacy
  <2> DEFINE fs == [a \in {Dev} |-> [profile |-> c.profile, tier |-> "dev"]]
  <2>1. Normalized(c) = [c EXCEPT !.environments = fs, !.default = IF @ = None THEN Dev ELSE @]
    BY <1>2 DEF Normalized
  <2>2. DOMAIN fs = {Dev} /\ fs[Dev] \in Environment /\ Dev \in Alias
    BY <1>1, WorkspaceAssumption DEF Environment, Tier
  <2> HIDE DEF fs
  <2>3. Normalized(c).environments = fs /\ Normalized(c).profile = c.profile
    BY <1>1, <2>1
  <2> QED BY <1>1, <2>2, <2>3 DEF Fits
<1>3. CASE v2
  <2>1. PICK d : Normalized(c) = [c EXCEPT !.default = d,
                                           !.profile = IF d \in DOMAIN es THEN es[d].profile ELSE None]
    BY <1>3 DEF Normalized
  <2> DEFINE p == IF d \in DOMAIN es THEN es[d].profile ELSE None
  <2>2. p \in Profile \cup {None} BY <1>1 DEF Environment
  <2>3. Normalized(c) = [c EXCEPT !.default = d, !.profile = p] BY <2>1
  <2> HIDE DEF p
  <2>4. Normalized(c).environments = es /\ Normalized(c).profile = p
    BY <1>1, <2>3
  <2> QED BY <1>1, <2>2, <2>4 DEF Fits
<1>4. CASE ~legacy /\ ~v2
  <2>1. Normalized(c) = c BY <1>4 DEF Normalized
  <2> QED BY <1>1, <2>1 DEF Fits
<1> QED BY <1>2, <1>3, <1>4

LEMMA ConfigFits ==
  ASSUME TypeOK
  PROVE  Fits(Config)
<1> DEFINE up == Upward[cwd]
           parsed == {i \in DOMAIN up : secrc[up[i]] \notin {None, Broken}}
<1>1. up \in Seq(Dir) BY WorkspaceAssumption DEF TypeOK
<1>2. CASE parsed = {}
  <2>1. Config = NoConfig BY <1>2 DEF Config
  <2>2. IsConfig([NoConfig EXCEPT !.profile = None]) BY BoundFits
  <2>3. [NoConfig EXCEPT !.profile = None] = NoConfig BY DEF NoConfig
  <2> QED BY <2>1, <2>2, <2>3 DEF IsConfig, Fits
<1>3. CASE parsed # {}
  <2> DEFINE i == Min(parsed)
             c == secrc[up[i]]
  <2>1. parsed \subseteq Nat BY <1>1
  <2>2. i \in parsed BY <1>3, <2>1, LeastOf
  <2>3. up[i] \in Dir /\ c \notin {None, Broken}
    <3>1. i \in DOMAIN up /\ secrc[up[i]] \notin {None, Broken} BY <2>2
    <3> HIDE DEF i, up
    <3> QED BY <1>1, <3>1
  <2>4. c \in Written \cup {[NoConfig EXCEPT !.profile = p] : p \in Profile}
    BY <2>3 DEF TypeOK
  <2>5. IsConfig(c) BY <2>4, BoundFits, WorkspaceAssumption
  <2>6. Config = Normalized(c) BY <1>3 DEF Config
  <2> QED BY <2>5, <2>6, NormalizedFits
<1> QED BY <1>2, <1>3

-----------------------------------------------------------------------------
(* Resolution.                                                             *)

\* An outcome is a profile and a tier.
Outcome(r) == r.profile \in Profile /\ r.tier \in Tier

LEMMA ResolvedOutcome ==
  /\ \A p \in Profile : \A a : Outcome(Resolved(p, a, "unset")) /\ Outcome(Resolved(p, a, "dev"))
  /\ \A c : Fits(c) => \A a : Configured(c, a) => \A r \in InEnv(c, a) : Outcome(r)
BY DEF Outcome, Resolved, Tier, Fits, Configured, InEnv, Environment

LEMMA ByProfileOutcome ==
  ASSUME NEW c, Fits(c), NEW p \in Profile, NEW spelled
  PROVE  \A r \in ByProfile(c, p, spelled) : Outcome(r)
<1>1. \A a \in DOMAIN c.environments : Outcome(Resolved(p, a, c.environments[a].tier))
  BY DEF Fits, Outcome, Resolved, Environment
<1>2. \A r \in ByProfile(c, p, spelled) :
        \/ r = Resolved(p, None, "unset")
        \/ \E a \in DOMAIN c.environments : r = Resolved(p, a, c.environments[a].tier)
  BY DEF ByProfile
<1> QED BY <1>1, <1>2, ResolvedOutcome

LEMMA ByWorkspaceOutcome ==
  ASSUME NEW c, Fits(c)
  PROVE  \A r \in ByWorkspace(c) : Outcome(r)
<1>1. CASE Configured(c, c.default) BY <1>1, ResolvedOutcome DEF ByWorkspace
<1>2. CASE ~Configured(c, c.default) /\ c.profile # None
  BY <1>2, ResolvedOutcome DEF ByWorkspace, Fits
<1>3. CASE ~Configured(c, c.default) /\ c.profile = None
  BY <1>3, ResolvedOutcome, WorkspaceAssumption DEF ByWorkspace
<1> QED BY <1>1, <1>2, <1>3

LEMMA ByShellOutcome ==
  ASSUME NEW c, Fits(c)
  PROVE  \A r \in ByShell(c) : Outcome(r)
<1>1. \A r \in BySecProfile(c) : Outcome(r)
  <2>1. CASE secProfile = None
    BY <2>1, ByWorkspaceOutcome, WorkspaceAssumption DEF BySecProfile
  <2>2. CASE secProfile # None /\ secProfile \in Profile
    BY <2>2, ByProfileOutcome DEF BySecProfile
  <2>3. CASE secProfile # None /\ secProfile \notin Profile BY <2>3 DEF BySecProfile
  <2> QED BY <2>1, <2>2, <2>3
<1> DEFINE direct == IF secProfile \in Profile THEN secProfile ELSE secEnv
<1>2. CASE Configured(c, secEnv) BY <1>2, ResolvedOutcome DEF ByShell
<1>3. CASE ~Configured(c, secEnv) /\ secEnv # None /\ direct \in Profile
  BY <1>3, ResolvedOutcome DEF ByShell
<1>4. CASE ~Configured(c, secEnv) /\ ~(secEnv # None /\ direct \in Profile)
  BY <1>1, <1>4 DEF ByShell
<1> QED BY <1>2, <1>3, <1>4

LEMMA ResolveOutcome ==
  ASSUME NEW c, Fits(c), NEW p, NEW a
  PROVE  \A r \in ResolveWorkspaceEnvironment(p, a, c) : Outcome(r)
<1>1. CASE p # None
  BY <1>1, ByProfileOutcome DEF ResolveWorkspaceEnvironment
<1>2. CASE p = None /\ a # None
  BY <1>2, ResolvedOutcome DEF ResolveWorkspaceEnvironment
<1>3. CASE p = None /\ a = None
  BY <1>3, ByShellOutcome DEF ResolveWorkspaceEnvironment
<1> QED BY <1>1, <1>2, <1>3

-----------------------------------------------------------------------------
(* The shell.                                                              *)

\* Without an environment there is no profile but one exported by hand.
Tidy == ~byHand /\ secEnv = None => secProfile = None

\* A command without flags was about what the shell's variables and the
\* workspace say: both are still the ones it found.
Followed ==
  Plain => \E r \in ByShell(Config) : last.profile = r.profile /\ last.tier = r.tier

IInv == TypeOK /\ Tidy /\ Followed

\* `sec use`, of an alias that the workspace has.
LEMMA SwitchKeeps ==
  ASSUME IInv, NEW a, a \in DOMAIN Config.environments, Switch(a)
  PROVE  IInv'
<1> DEFINE p == Config.environments[a].profile
<1>1. TypeOK BY DEF IInv
<1>2. a \in Alias /\ p \in Profile \cup {None}
  BY <1>1, ConfigFits DEF Fits, Environment
<1>3. /\ secEnv' = a /\ secProfile' = p
      /\ used' = IF p = None THEN None ELSE [alias |-> a, profile |-> p]
      /\ last' = None /\ UNCHANGED <<secrc, cwd, edited, byHand>>
  BY DEF Switch
<1> HIDE DEF p
<1>4. TypeOK' BY <1>1, <1>2, <1>3 DEF TypeOK, NameOrNone, Name
<1>5. Tidy' /\ Followed' BY <1>2, <1>3, WorkspaceAssumption DEF Tidy, Followed, Plain
<1> QED BY <1>4, <1>5 DEF IInv

\* What a command is about depends on nothing that the command changes.
LEMMA CommandKeeps ==
  ASSUME IInv, NEW cliProfile, NEW cliEnv, Command(cliProfile, cliEnv)
  PROVE  IInv'
<1>1. TypeOK /\ Tidy BY DEF IInv
<1>2. PICK r \in ResolveWorkspaceEnvironment(cliProfile, cliEnv, Config) :
        /\ last' = [flags |-> cliProfile # None \/ cliEnv # None, profile |-> r.profile,
                    tier |-> r.tier]
        /\ UNCHANGED <<secrc, cwd, shell, edited>>
  BY DEF Command
<1>3. UNCHANGED <<secrc, cwd, secEnv, secProfile, used, byHand, edited>>
  BY <1>2 DEF shell
<1>4. r.profile \in Profile /\ r.tier \in Tier
  BY <1>1, ConfigFits, ResolveOutcome DEF Outcome
<1>5. last' \in [flags : BOOLEAN, profile : Profile, tier : Tier]
  BY <1>2, <1>4
<1>6. TypeOK' BY <1>1, <1>3, <1>5 DEF TypeOK
<1>7. Tidy' BY <1>1, <1>3 DEF Tidy
<1>8. Followed'
  <2>1. Config' = Config BY <1>3 DEF Config
  <2>2. ByShell(Config)' = ByShell(Config)
    BY <1>3, <2>1 DEF ByShell, BySecProfile
  <2>3. Plain' => cliProfile = None /\ cliEnv = None BY <1>2 DEF Plain
  <2>4. Plain' => r \in ByShell(Config)
    BY <1>2, <2>3 DEF ResolveWorkspaceEnvironment
  <2>5. last'.profile = r.profile /\ last'.tier = r.tier BY <1>2
  <2> QED BY <2>2, <2>4, <2>5 DEF Followed
<1> QED BY <1>6, <1>7, <1>8 DEF IInv

LEMMA StaysWell == IInv /\ [Next]_vars => IInv'
<1> SUFFICES ASSUME IInv, [Next]_vars PROVE IInv' OBVIOUS
<1>1. TypeOK /\ Tidy BY DEF IInv
<1>2. ASSUME last' = None, TypeOK', Tidy' PROVE IInv'
  BY <1>2 DEF IInv, Followed, Plain
<1>3. ASSUME NEW d \in Dir, Cd(d) PROVE IInv'
  <2>1. UNCHANGED <<secrc, secEnv, secProfile, used, byHand, edited>> /\ cwd' = d /\ last' = None
    BY <1>3 DEF Cd, shell
  <2>2. TypeOK' /\ Tidy' BY <1>1, <2>1 DEF TypeOK, Tidy
  <2> QED BY <1>2, <2>1, <2>2
<1>4. ASSUME NEW d \in Dir,
             NEW c \in Written \cup {None, Broken} \cup {[NoConfig EXCEPT !.profile = p] : p \in Profile},
             secrc' = [secrc EXCEPT ![d] = c], last' = None, edited < Edits, edited' = edited + 1,
             UNCHANGED <<cwd, shell>>
      PROVE  IInv'
  <2>1. edited' \in 0..Edits
    <3>1. edited \in 0..Edits /\ Edits \in Nat BY <1>1, WorkspaceAssumption DEF TypeOK
    <3> QED BY <1>4, <3>1
  <2>2. TypeOK' /\ Tidy' BY <1>1, <1>4, <2>1 DEF TypeOK, Tidy, shell
  <2> QED BY <1>2, <1>4, <2>2
<1>5. ASSUME NEW d \in Dir, NEW c \in Written \cup {None, Broken}, Edit(d, c) PROVE IInv'
  BY <1>4, <1>5 DEF Edit
<1>6. ASSUME NEW p \in Profile, Bind(p) PROVE IInv'
  <2>1. cwd \in Dir BY <1>1 DEF TypeOK
  <2> QED BY <1>4, <1>6, <2>1 DEF Bind
<1>7. ASSUME NEW a \in Alias, Use(a) PROVE IInv' BY <1>7, SwitchKeeps DEF Use
<1>8. CASE UseActive BY <1>8, SwitchKeeps DEF UseActive
<1>9. CASE UseClear
  <2>1. TypeOK' /\ Tidy' BY <1>1, <1>9 DEF TypeOK, Tidy, UseClear, NameOrNone
  <2> QED BY <1>2, <1>9, <2>1 DEF UseClear
<1>10. ASSUME NEW n \in Name, Export(n) PROVE IInv'
  <2>1. TypeOK' /\ Tidy' BY <1>1, <1>10 DEF TypeOK, Tidy, Export, NameOrNone
  <2> QED BY <1>2, <1>10, <2>1 DEF Export
<1>11. ASSUME NEW p \in NameOrNone, NEW a \in Alias \cup {None}, Command(p, a) PROVE IInv'
  BY <1>11, CommandKeeps
<1>12. CASE UNCHANGED vars
  <2>1. UNCHANGED <<secrc, cwd, secEnv, secProfile, used, byHand, edited, last>>
    BY <1>12 DEF vars, shell
  <2>2. Config' = Config BY <2>1 DEF Config
  <2>3. ByShell(Config)' = ByShell(Config) BY <2>1, <2>2 DEF ByShell, BySecProfile
  <2>4. TypeOK' /\ Tidy' BY <1>1, <2>1 DEF TypeOK, Tidy
  <2>5. Followed' BY <2>1, <2>3 DEF IInv, Followed, Plain
  <2> QED BY <2>4, <2>5 DEF IInv
<1> QED BY <1>3, <1>5, <1>6, <1>7, <1>8, <1>9, <1>10, <1>11, <1>12 DEF Next

-----------------------------------------------------------------------------
(* The theorems.                                                           *)

\* In every workspace and after any edits and switches, a command without
\* flags was about what the shell and the workspace still say, and a shell
\* without an environment has no profile but one exported by hand.
THEOREM ShellInvariant == Spec => []IInv
<1>1. Init => IInv
  <2> SUFFICES ASSUME Init PROVE IInv OBVIOUS
  <2>1. secrc = [d \in Dir |-> None] /\ cwd \in Dir /\ edited = 0
    BY DEF Init
  <2>2. secEnv = None /\ secProfile = None /\ used = None /\ byHand = FALSE /\ last = None
    BY DEF Init
  <2>3. secrc \in [Dir -> Written \cup {None, Broken}
                         \cup {[NoConfig EXCEPT !.profile = p] : p \in Profile}]
    BY <2>1
  <2>4. edited \in 0..Edits BY <2>1, WorkspaceAssumption
  <2>5. secEnv \in NameOrNone /\ secProfile \in NameOrNone BY <2>2 DEF NameOrNone
  <2>6. TypeOK BY <2>1, <2>2, <2>3, <2>4, <2>5 DEF TypeOK
  <2>7. Tidy BY <2>2 DEF Tidy
  <2>8. Followed BY <2>2 DEF Followed, Plain
  <2> QED BY <2>6, <2>7, <2>8 DEF IInv
<1> QED BY <1>1, StaysWell, PTL DEF Spec

\* A command is about a profile and a tier, whatever is written in the files.
THEOREM ShellTyped == Spec => []TypeOK
<1>1. IInv => TypeOK BY DEF IInv
<1> QED BY <1>1, ShellInvariant, PTL

\* A switch holds, wherever the shell goes and whatever becomes of the files,
\* unless the workspace it is in gives the alias another profile.
THEOREM SwitchHolds == Spec => []UseHolds
<1>1. IInv => UseHolds
  <2> SUFFICES ASSUME IInv, Plain, used # None
               PROVE  \/ last.profile = used.profile
                      \/ /\ Configured(Config, used.alias)
                         /\ last.profile = Config.environments[used.alias].profile
    BY DEF UseHolds
  <2>1. PICK r \in ByShell(Config) : last.profile = r.profile BY DEF IInv, Followed
  <2>2. secEnv = used.alias /\ secProfile = used.profile /\ used.alias \in Alias /\ used.profile \in Profile
    BY DEF IInv, TypeOK
  <2>3. CASE Configured(Config, secEnv)
    <3>1. r.profile = Config.environments[secEnv].profile
      BY <2>1, <2>3 DEF ByShell, InEnv, Resolved
    <3> QED BY <2>1, <2>2, <2>3, <3>1
  <2>4. CASE ~Configured(Config, secEnv)
    <3>1. secEnv # None BY <2>2, WorkspaceAssumption
    <3>2. r.profile = secProfile BY <2>1, <2>2, <2>4, <3>1 DEF ByShell, Resolved
    <3> QED BY <2>1, <2>2, <3>2
  <2> QED BY <2>3, <2>4
<1> QED BY <1>1, ShellInvariant, PTL

\* What `sec env ls` marks is what a command is about, as long as no variable
\* is exported by hand.
THEOREM MarkIsMeant == Spec => []MarkedIsMeant
<1>1. IInv => MarkedIsMeant
  <2> SUFFICES ASSUME IInv, Plain, ~byHand, Configured(Config, Active)
               PROVE  /\ last.profile = Config.environments[Active].profile
                      /\ last.tier = Config.environments[Active].tier
    BY DEF MarkedIsMeant
  <2>1. PICK r \in ByShell(Config) : last.profile = r.profile /\ last.tier = r.tier
    BY DEF IInv, Followed
  <2>2. r \in InEnv(Config, Active)
    <3>1. CASE secEnv # None
      <4>1. Active = secEnv BY <3>1 DEF Active
      <4> QED BY <2>1, <4>1 DEF ByShell
    <3>2. CASE secEnv = None
      <4>1. Active = Config.default /\ secProfile = None BY <3>2 DEF Active, IInv, Tidy
      <4>2. ~Configured(Config, secEnv)
        BY <3>2, ConfigFits, WorkspaceAssumption DEF IInv, Configured, Fits
      <4>3. r \in BySecProfile(Config) BY <2>1, <3>2, <4>2 DEF ByShell
      <4>4. r \in ByWorkspace(Config)
        BY <4>1, <4>3, WorkspaceAssumption DEF BySecProfile
      <4> QED BY <4>1, <4>4 DEF ByWorkspace
    <3> QED BY <3>1, <3>2
  <2> QED BY <2>1, <2>2 DEF InEnv, Resolved
<1> QED BY <1>1, ShellInvariant, PTL
=============================================================================
