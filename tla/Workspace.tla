----------------------------- MODULE Workspace -----------------------------
(***************************************************************************)
(* Which profile a command is about (main.go, ResolveWorkspaceEnvironment):*)
(* the flags -P and -E, the shell's SEC_ENV and SEC_PROFILE, the .secrc    *)
(* that is found upward from the working directory.  A user walks through  *)
(* the directories, edits their files, binds a new profile, switches with  *)
(* `sec use` (cmd_env.go) and runs commands.                               *)
(*                                                                         *)
(* A directory's .secenv, .secrc and .sec.json are one file, which may not *)
(* parse.  A map's iteration order is any order: Resolve is the set of the *)
(* outcomes it allows, empty when the command ends with an error.          *)
(***************************************************************************)
EXTENDS Integers, Sequences, FiniteSetsExt

CONSTANTS
  Dir,
  Upward,     \* Upward[d]: d, its parent and so on up to the root
  Alias,
  Sorted,     \* the aliases in the order of their names
  Profile,    \* the valid profile names; an alias may be one
  Written,    \* the configurations users write in a .secrc
  DefaultProfile, Dev,  \* the names "default" and "dev"
  Edits,      \* bound: the files edited
  Broken,     \* a file that does not parse
  None

Tier == {"dev", "prod", "unset"}
Environment == [profile : Profile \cup {None}, tier : Tier]
IsConfig(c) ==
  /\ c = [profile |-> c.profile, default |-> c.default, environments |-> c.environments]
  /\ DOMAIN c.environments \subseteq Alias
  /\ \A a \in DOMAIN c.environments : c.environments[a] \in Environment
  /\ c.profile \in Profile \cup {None} /\ c.default \in Alias \cup {None}

ASSUME WorkspaceAssumption ==
  /\ Upward \in [Dir -> Seq(Dir)]
  /\ Dev \in Alias /\ DefaultProfile \in Profile
  /\ None \notin Alias \cup Profile
  /\ \A c \in Written : IsConfig(c)
  /\ \A a \in Alias : \E i \in DOMAIN Sorted : Sorted[i] = a
  /\ Edits \in Nat

VARIABLES
  secrc,      \* the file of each directory: None, Broken or what is in it
  cwd,
  secEnv, secProfile, \* SEC_ENV and SEC_PROFILE
  edited,
  used,       \* history: the alias and profile of the last `sec use`
  byHand,     \* history: a variable was exported by hand
  last        \* what the command just run is about, or None

shell == <<secEnv, secProfile, used, byHand>>
vars == <<secrc, cwd, shell, edited, last>>

-----------------------------------------------------------------------------
(* The configuration.                                                      *)

NoConfig == [profile |-> None, default |-> None, environments |-> << >>]

\* A v1 profile becomes an environment of its own; a v2 file gets a default
\* and its profile.
Normalized(c) ==
  LET es == c.environments
      def == CASE c.default # None   -> c.default
               [] Dev \in DOMAIN es  -> Dev
               [] OTHER -> Sorted[Min({i \in DOMAIN Sorted : Sorted[i] \in DOMAIN es})]
  IN CASE c.profile # None /\ DOMAIN es = {} ->
            [c EXCEPT !.environments = [a \in {Dev} |-> [profile |-> c.profile, tier |-> "dev"]],
                      !.default = IF @ = None THEN Dev ELSE @]
       [] c.profile = None /\ DOMAIN es # {} ->
            [c EXCEPT !.default = def,
                      !.profile = IF def \in DOMAIN es THEN es[def].profile ELSE None]
       [] OTHER -> c

\* The nearest file upward that can be read and parsed.
Config ==
  LET up == Upward[cwd]
      parsed == {i \in DOMAIN up : secrc[up[i]] \notin {None, Broken}}
  IN IF parsed = {} THEN NoConfig ELSE Normalized(secrc[up[Min(parsed)]])

Configured(c, a) == a \in DOMAIN c.environments /\ c.environments[a].profile # None

-----------------------------------------------------------------------------
(* Resolution.                                                             *)

Resolved(p, a, t) == [profile |-> p, alias |-> a, tier |-> t]
InEnv(c, a) == {Resolved(c.environments[a].profile, a, c.environments[a].tier)}

\* The first environment the iteration meets that has profile p, or that has
\* p for its alias when p is spelled with -P.
ByProfile(c, p, spelled) ==
  LET same == {a \in DOMAIN c.environments :
                 c.environments[a].profile = p \/ (spelled /\ a = p)}
  IN IF same = {} THEN {Resolved(p, None, "unset")}
     ELSE {Resolved(p, a, c.environments[a].tier) : a \in same}

\* Mutant of ByWorkspace: whether the default environment has a profile is
\* not looked at.
ByWorkspaceAny(c) ==
  IF c.default \in DOMAIN c.environments THEN InEnv(c, c.default)
  ELSE {Resolved(DefaultProfile, DefaultProfile, "dev")}

\* Rules 4 and 5: the workspace's default, its legacy profile, `default`.
ByWorkspace(c) ==
  CASE Configured(c, c.default) -> InEnv(c, c.default)
    [] ~Configured(c, c.default) /\ c.profile # None -> {Resolved(c.profile, Dev, "dev")}
    [] OTHER -> {Resolved(DefaultProfile, DefaultProfile, "dev")}

BySecProfile(c) ==
  CASE secProfile = None -> ByWorkspace(c)
    [] secProfile \in Profile -> ByProfile(c, secProfile, FALSE)
    [] OTHER -> {}

\* Mutant of ByShell: an alias no file defines is tried as a profile first.
ByShellDirect(c) ==
  CASE Configured(c, secEnv) -> InEnv(c, secEnv)
    [] ~Configured(c, secEnv) /\ secEnv \in Profile -> {Resolved(secEnv, secEnv, "unset")}
    [] OTHER -> BySecProfile(c)

\* Rule 3: SEC_ENV is an alias of the workspace, or SEC_PROFILE tells the
\* profile, or SEC_ENV is one itself.
ByShell(c) ==
  LET direct == IF secProfile \in Profile THEN secProfile ELSE secEnv IN
  CASE Configured(c, secEnv) -> InEnv(c, secEnv)
    [] ~Configured(c, secEnv) /\ secEnv # None /\ direct \in Profile ->
         {Resolved(direct, secEnv, "unset")}
    [] OTHER -> BySecProfile(c)

\* cliProfile and cliEnv are the values of -P and -E.
ResolveWorkspaceEnvironment(cliProfile, cliEnv, c) ==
  CASE cliProfile # None ->
         IF cliProfile \in Profile THEN ByProfile(c, cliProfile, TRUE) ELSE {}
    [] cliProfile = None /\ cliEnv # None ->
         IF Configured(c, cliEnv) THEN InEnv(c, cliEnv) ELSE {}
    [] OTHER -> ByShell(c)

-----------------------------------------------------------------------------

Name == Alias \cup Profile
NameOrNone == Name \cup {None}

TypeOK ==
  /\ secrc \in [Dir -> Written \cup {None, Broken}
                         \cup {[NoConfig EXCEPT !.profile = p] : p \in Profile}]
  /\ cwd \in Dir /\ edited \in 0..Edits
  /\ secEnv \in NameOrNone /\ secProfile \in NameOrNone
  /\ used \in [alias : Alias, profile : Profile] \cup {None}
  /\ used # None => secEnv = used.alias /\ secProfile = used.profile
  /\ byHand \in BOOLEAN
  /\ last \in [flags : BOOLEAN, profile : Profile, tier : Tier]
                \cup {None}

Init ==
  /\ secrc = [d \in Dir |-> None] /\ cwd \in Dir /\ edited = 0
  /\ secEnv = None /\ secProfile = None /\ used = None /\ byHand = FALSE
  /\ last = None

Cd(d) ==
  /\ d # cwd /\ cwd' = d /\ last' = None
  /\ UNCHANGED <<secrc, shell, edited>>

\* A file is written in an editor, checked out or removed, or left broken.
Edit(d, c) ==
  /\ edited < Edits /\ edited' = edited + 1
  /\ secrc[d] # c /\ secrc' = [secrc EXCEPT ![d] = c] /\ last' = None
  /\ UNCHANGED <<cwd, shell>>

\* profile new binds the directory to its profile if it has no file.
Bind(p) ==
  /\ secrc[cwd] = None
  /\ secrc' = [secrc EXCEPT ![cwd] = [NoConfig EXCEPT !.profile = p]]
  /\ last' = None /\ edited < Edits /\ edited' = edited + 1
  /\ UNCHANGED <<cwd, shell>>

\* eval $(sec use <alias>); an alias without a profile exports an empty one.
Switch(a) ==
  LET p == Config.environments[a].profile IN
  /\ secEnv' = a /\ secProfile' = p
  /\ used' = IF p = None THEN None ELSE [alias |-> a, profile |-> p]
  /\ last' = None
  /\ UNCHANGED <<secrc, cwd, edited, byHand>>

Use(a) == a \in DOMAIN Config.environments /\ Switch(a)

\* Without an alias: the active environment, if the workspace has it.
Active == IF secEnv # None THEN secEnv ELSE Config.default
UseActive == Active \in DOMAIN Config.environments /\ Switch(Active)

\* Mutant of UseClear: SEC_PROFILE stays exported.
UseClearAlias ==
  /\ secEnv' = None /\ used' = None /\ byHand' = FALSE /\ last' = None
  /\ UNCHANGED <<secrc, cwd, edited, secProfile>>

UseClear ==
  /\ secEnv' = None /\ secProfile' = None /\ used' = None /\ byHand' = FALSE
  /\ last' = None
  /\ UNCHANGED <<secrc, cwd, edited>>

Export(n) ==
  /\ \/ secEnv' = n /\ UNCHANGED secProfile
     \/ secProfile' = n /\ UNCHANGED secEnv
  /\ used' = None /\ byHand' = TRUE /\ last' = None
  /\ UNCHANGED <<secrc, cwd, edited>>

\* A command resolves its profile before anything else.
Command(cliProfile, cliEnv) ==
  \E r \in ResolveWorkspaceEnvironment(cliProfile, cliEnv, Config) :
    /\ last' = [flags |-> cliProfile # None \/ cliEnv # None, profile |-> r.profile,
                tier |-> r.tier]
    /\ UNCHANGED <<secrc, cwd, shell, edited>>

Next ==
  \/ \E d \in Dir : Cd(d) \/ \E c \in Written \cup {None, Broken} : Edit(d, c)
  \/ \E p \in Profile : Bind(p)
  \/ \E a \in Alias : Use(a)
  \/ UseActive \/ UseClear
  \/ \E n \in Name : Export(n)
  \/ \E p \in NameOrNone, a \in Alias \cup {None} : Command(p, a)

Spec == Init /\ [][Next]_vars

-----------------------------------------------------------------------------

Marked == Active \in DOMAIN Config.environments

\* Plain: the command had no flags.
Plain == last # None /\ ~last.flags

\* `sec use` holds until it is cleared: wherever the shell goes, and whatever
\* becomes of the file it was read from, a command without flags is about the
\* profile that was chosen, unless the workspace it runs in gives the alias
\* another one.
UseHolds ==
  Plain /\ used # None =>
    \/ last.profile = used.profile
    \/ Configured(Config, used.alias) /\ last.profile = Config.environments[used.alias].profile

\* What `sec env ls` marks as active is what a command without flags is
\* about, in every workspace and after any switch, as long as no variable is
\* exported by hand.
MarkedIsMeant ==
  Plain /\ ~byHand /\ Marked /\ Configured(Config, Active) =>
    /\ last.profile = Config.environments[Active].profile
    /\ last.tier = Config.environments[Active].tier
=============================================================================
