-------------------------------- MODULE Cli --------------------------------
(***************************************************************************)
(* `producer run`, with and without `--interactive`, over the key files    *)
(* that the generators of KeyFiles make, and what a consumer does with the *)
(* result. Settings come from defaults, environment, flags and answers; the*)
(* dialog looks whether a key file exists, offers to make it, and goes on. *)
(* A step of a generator is a step of KeyFiles, also inside a dialog.      *)
(***************************************************************************)
EXTENDS KeyFiles, Registry

CONSTANTS
  Installed, ConsumerInstalled,  \* algorithms with a backend, on either side
  Environments, CommandLines,    \* values given by variables and by flags
  Typed,                         \* field -> what a person may type
  GoodNames,                     \* match the pattern and do not end in .sig
  DefaultKey, DefaultSigning,
  PublicOf,                      \* path.with_suffix(".pub")
  MaxRuns                        \* bound: runs of the command

Fields == {"cipher", "mode", "name", "key", "sign", "chunk", "signer", "signing"}
Modes == {"chunked", "one-shot"}

Defaults == [cipher |-> "aes-256-gcm", mode |-> "chunked", name |-> "model.enc",
             key |-> DefaultKey, sign |-> TRUE, chunk |-> 1048576,
             signer |-> "ed25519", signing |-> DefaultSigning]

\* _settings: only what was given replaces what is there.
Over(base, given) == [f \in Fields |-> IF f \in DOMAIN given THEN given[f] ELSE base[f]]

\* Flags and choices are checked against the registry, the rest by the model.
Offered == [cipher |-> CipherNames(Installed), signer |-> SignerNames(Installed), mode |-> Modes]
Parsed(flags) == \A f \in DOMAIN flags \intersect DOMAIN Offered : flags[f] \in Offered[f]
Valid(s) ==
  s.name \in GoodNames /\ s.mode \in Modes /\ 4096 <= s.chunk /\ s.chunk <= 1073741824

\* What may be given for which field.
Given(f, v) == f \in {"key", "signing"} => v \in Paths
ASSUME CliAssumption ==
  /\ \A g \in Environments \union CommandLines :
       DOMAIN g \subseteq Fields /\ \A f \in DOMAIN g : Given(f, g[f])
  /\ \A f \in Fields : \A v \in Typed[f] : Given(f, v)
  /\ DefaultKey \in Paths /\ DefaultSigning \in Paths /\ PublicOf \in [Paths -> Paths]
  /\ \A n \in Paths, b \in BOOLEAN : [pair |-> b, out |-> n, public |-> PublicOf[n]] \in Requests
  /\ "aes-256-gcm" \in Installed
  /\ MaxRuns \in Nat

VARIABLES
  stage,     \* process -> none, the field being asked for, or the step of the run
  run,      \* process -> its settings before and after the dialog, see Blank
  alg,      \* key -> the algorithm it was generated for
  made,     \* what runs have published
  broken,   \* keys whose generation did not come to its end
  runs

keyVars == <<vars, alg, broken>>
cliVars == <<keyVars, stage, run, made, runs>>

\* before: the settings the dialog proposes; answers: those of the run;
\* changed: fields for which something else than Enter was given;
\* own: key files it was told to make; secret: the key it encrypted with.
Blank == [before |-> Defaults, answers |-> Defaults, changed |-> {}, own |-> {}, secret |-> 0]

Goto(p, s, r) == stage' = [stage EXCEPT ![p] = s] /\ run' = [run EXCEPT ![p] = r]
Ends(p) == Goto(p, "none", Blank)

-----------------------------------------------------------------------------
(* Generators *)
\* generate_symmetric_key or generate_private_key, of the algorithm named a.
Make(p, r, a) == Generate(p, r) /\ alg' = [alg EXCEPT ![keys + 1] = a] /\ UNCHANGED broken

Named(pair, a) == IF pair THEN SignerNamed(a, Installed) ELSE CipherNamed(a, Installed)

\* gen-key and gen-signing-keypair.
GenerateCommand(p, r, a) ==
  /\ stage[p] = "none" /\ Named(r.pair, a) # {}
  /\ Make(p, r, a)
  /\ UNCHANGED <<stage, run, made, runs>>

\* One step of the generator; its error is the error of the dialog around it.
KeyStep(p) ==
  /\ Create(p, 1) \/ Create(p, 2) \/ Write(p, 1) \/ Write(p, 2) \/ Break(p)
  /\ IF exit'[p] \in {"running", "ok"}
       THEN UNCHANGED <<stage, run, broken>>
       ELSE Ends(p) /\ broken' = broken \union {key[p]}
  /\ UNCHANGED <<alg, made, runs>>

-----------------------------------------------------------------------------
(* The command line and the dialog *)
Launch(p, env, flags, interactive) ==
  /\ stage[p] = "none" /\ pc[p] = "idle" /\ runs < MaxRuns
  /\ runs' = runs + 1
  /\ LET given == Over(Over(Defaults, env), flags)
     IN IF Parsed(flags) /\ Valid(given)
          THEN \* the answers replace the flags, not only the defaults
               Goto(p, IF interactive THEN "cipher" ELSE "run_encrypt",
                    [Blank EXCEPT !.before = given,
                       !.answers = IF interactive THEN Over(Defaults, env) ELSE given])
          ELSE Ends(p)
  /\ UNCHANGED <<keyVars, made>>

\* What is asked for at all: the last three fields depend on earlier answers.
Wanted(f, s) ==
  /\ f = "chunk" => s.mode = "chunked"
  /\ f \in {"signer", "signing"} => s.sign

Place == [cipher |-> 1, mode |-> 2, name |-> 3, key |-> 4, sign |-> 5, chunk |-> 6,
          signer |-> 7, signing |-> 8]
ShortDialog(f, s) ==
  LET later == {g \in Fields \ {"chunk"} : Place[g] > Place[f] /\ Wanted(g, s)}
  IN IF later = {} THEN "settle" ELSE CHOOSE g \in later : \A h \in later : Place[g] <= Place[h]
\* The order of the prompts; "settle" when all are answered.
NextPrompt(f, s) ==
  LET later == {g \in Fields : Place[g] > Place[f] /\ Wanted(g, s)}
  IN IF later = {} THEN "settle" ELSE CHOOSE g \in later : \A h \in later : Place[g] <= Place[h]

\* typer.prompt: Enter gives the current value; _ask_choice insists on its list.
Asked(p, f, v) == stage[p] = f /\ pc[p] = "idle" /\ (f \in DOMAIN Offered => v \in Offered[f])
Replied(p, f, v) ==
  [run[p] EXCEPT !.answers[f] = v,
                 !.changed = IF v = run[p].before[f] THEN @ ELSE @ \union {f}]
Proceed(p, f, r) == Goto(p, NextPrompt(f, r.answers), r)

\* The file is there, or the offer to make it is declined.
Answer(p, f, v) ==
  /\ Asked(p, f, v)
  /\ Proceed(p, f, Replied(p, f, v))
  /\ UNCHANGED <<keyVars, made, runs>>

ChosenBefore(p, f) == IF f = "signing" THEN run[p].before.signer ELSE run[p].before.cipher
\* _ask_key_path has the settings before the dialog, _ask_signing_key_path
\* the signer just chosen.
Chosen(p, f) == IF f = "signing" THEN run[p].answers.signer ELSE run[p].before.cipher

Accept(p, f, v) ==
  /\ f \in {"key", "signing"} /\ Asked(p, f, v) /\ Absent(v)
  /\ IF Named(f = "signing", Chosen(p, f)) = {}
       THEN Ends(p) /\ UNCHANGED keyVars
       ELSE /\ Make(p, [pair |-> f = "signing", out |-> v, public |-> PublicOf[v]], Chosen(p, f))
            /\ Proceed(p, f, [Replied(p, f, v) EXCEPT !.own = @ \union {f}])
  /\ UNCHANGED <<made, runs>>

SettleUnchecked(p) ==
  /\ stage[p] = "settle" /\ pc[p] = "idle" /\ Goto(p, "run_encrypt", run[p])
  /\ UNCHANGED <<keyVars, made, runs>>
\* The answers are validated when all are given, after the keys are made.
Settle(p) ==
  /\ stage[p] = "settle" /\ pc[p] = "idle"
  /\ IF Valid(run[p].answers) THEN Goto(p, "run_encrypt", run[p]) ELSE Ends(p)
  /\ UNCHANGED <<keyVars, made, runs>>

-----------------------------------------------------------------------------
(* The run: what it reads of the key files, and when *)
Whole(n, half) == file[n] # None /\ file[n].half = half /\ file[n].whole

\* load_symmetric_key of the key in file n, written in some form.
KeyIn(n, cipher, form, newline) ==
  /\ Whole(n, "secret")
  /\ \E c \in CipherTable : /\ c.name = alg[file[n].key]
                            /\ Decodes(Text(c.bytes, form, newline), cipher.bytes)
\* ... as gen-key writes it.
Readable(n, cipher) == KeyIn(n, cipher, "raw", FALSE)

\* load_pem_key, and _load_private of the scheme.
Signs(n, scheme) ==
  /\ Whole(n, "private")
  /\ \E s \in SignerTable : s.name = alg[file[n].key] /\ Fits(s, scheme)

Result(s, secret, private) ==
  [name |-> s.name, cipher |-> s.cipher, file |-> s.key, key |-> secret,
   signer |-> s.signer, sig |-> private]

Encrypt(p) ==
  /\ stage[p] = "run_encrypt" /\ pc[p] = "idle"
  /\ LET s == run[p].answers
         secret == file[s.key].key
     IN \/ /\ \E c \in CipherNamed(s.cipher, Installed) : Readable(s.key, c)
           /\ IF s.sign
                THEN Goto(p, "run_sign", [run[p] EXCEPT !.secret = secret]) /\ UNCHANGED made
                ELSE Ends(p) /\ made' = made \union {Result(s, secret, 0)}
        \/ /\ ~\E c \in CipherNamed(s.cipher, Installed) : Readable(s.key, c)
           /\ Ends(p) /\ UNCHANGED made
  /\ UNCHANGED <<keyVars, runs>>

Sign(p) ==
  /\ stage[p] = "run_sign" /\ pc[p] = "idle"
  /\ Ends(p)
  /\ LET s == run[p].answers
     IN made' = IF \E scheme \in SignerNamed(s.signer, Installed) : Signs(s.signing, scheme)
                  THEN made \union {Result(s, run[p].secret, file[s.signing].key)}
                  ELSE made
  /\ UNCHANGED <<keyVars, runs>>

\* Ctrl-C, a kill, a failure of the Hub or the disk.
Interrupt(p) ==
  /\ stage[p] # "none" /\ pc[p] = "idle"
  /\ Ends(p)
  /\ UNCHANGED <<keyVars, made, runs>>

CliInit ==
  /\ Init
  /\ \A p \in Processes : req[p] = CHOOSE r \in Requests : TRUE
  /\ stage = [p \in Processes |-> "none"] /\ run = [p \in Processes |-> Blank]
  /\ alg = [k \in 1..MaxKeys |-> "aes-256-gcm"]
  /\ made = {} /\ broken = {} /\ runs = 0

CliNext == \E p \in Processes :
  \/ \E e \in Environments, g \in CommandLines, i \in BOOLEAN : Launch(p, e, g, i)
  \/ \E f \in Fields : \E v \in Typed[f] \union {run[p].before[f]} : Answer(p, f, v) \/ Accept(p, f, v)
  \/ \E r \in Requests : \E a \in Typed[IF r.pair THEN "signer" ELSE "cipher"] : GenerateCommand(p, r, a)
  \/ KeyStep(p) \/ Settle(p) \/ Encrypt(p) \/ Sign(p) \/ Interrupt(p)

CliSpec == CliInit /\ [][CliNext]_cliVars

-----------------------------------------------------------------------------
(***************************************************************************)
(* The consumer: run with its settings c against what was published, m. The*)
(* first check that fails gives the exit code (core/errors.py).            *)
(***************************************************************************)
\* How a key gets to the consumer: the file itself (a Secret), or its hex digits
\* in a file or a variable, which an editor or a shell may have ended with a newline.
Handed == {[form |-> "raw", newline |-> FALSE],
           [form |-> "hex", newline |-> FALSE], [form |-> "hex", newline |-> TRUE]}

Pem(n) == Whole(n, "private") \/ Whole(n, "public")
Verifies(c, m) == c.signer = m.signer /\ Whole(c.public, "public") /\ file[c.public].key = m.sig

Checks(c, m) ==
  LET ciphers == UNION {CipherNumbered(a.id, ConsumerInstalled) : a \in {b \in CipherTable : b.name = m.cipher}}
  IN <<[code |-> 2, holds |-> c.name \in GoodNames],
       [code |-> 3, holds |-> c.name = m.name /\ (c.verify => m.sig # 0)],
       [code |-> 2, holds |-> c.verify => SignerNamed(c.signer, ConsumerInstalled) # {} /\ Pem(c.public)],
       [code |-> 4, holds |-> c.verify => Verifies(c, m)],
       [code |-> 5, holds |-> ciphers # {}],
       [code |-> 2, holds |-> \A a \in ciphers : KeyIn(c.key, a, c.text.form, c.text.newline)],
       [code |-> 5, holds |-> \A a \in ciphers : file[c.key].key = m.key]>>

ConsumerExit(c, m) ==
  LET failed == {i \in DOMAIN Checks(c, m) : ~Checks(c, m)[i].holds}
  IN IF failed = {} THEN 0 ELSE Checks(c, m)[CHOOSE i \in failed : \A j \in failed : i <= j].code
-----------------------------------------------------------------------------
(* Files, generators and runs have the shape the code gives them; a run     *)
(* works with valid settings, past encryption with the key it has read.     *)
CliTypeOK ==
  /\ TypeOK
  /\ stage \in [Processes -> {"none", "settle", "run_encrypt", "run_sign"} \union Fields]
  /\ alg \in [1..MaxKeys -> CipherNames(Installed) \union SignerNames(Installed)]
  /\ DOMAIN run = Processes
  /\ \A p \in Processes :
       /\ stage[p] = "run_encrypt" => Valid(run[p].answers)
       /\ stage[p] = "run_sign" => run[p].secret \in 1..MaxKeys
  /\ broken \subseteq 1..MaxKeys
  /\ \A m \in made : m.key \in 1..MaxKeys /\ m.sig \in 0..MaxKeys

(* "Pressing Enter on every prompt keeps the flags given on the command     *)
(* line" (tests/test_cli.py): whatever else is answered, a field that       *)
(* matters to the run and was not changed has the value it had before.      *)
EnterKeepsFlags ==
  \A p \in Processes : stage[p] = "settle" =>
    \A f \in Fields \ run[p].changed :
      Wanted(f, run[p].answers) => run[p].answers[f] = run[p].before[f]

(* A key file that a dialog has offered to make, and made, is one its run   *)
(* can use, though it is made for the cipher known before the dialog.       *)
OfferedKeysFit ==
  \A p \in Processes : LET s == run[p].answers IN pc[p] = "idle" =>
    /\ stage[p] = "run_encrypt" /\ "key" \in run[p].own =>
         \A c \in CipherNamed(s.cipher, Installed) : Readable(s.key, c)
    /\ stage[p] = "run_sign" /\ "signing" \in run[p].own =>
         \A c \in SignerNamed(s.signer, Installed) : Signs(s.signing, c)

(* What a run has published can be opened by a consumer that is given the   *)
(* key, raw or in hex, and some public key file, at any later time, unless  *)
(* the pair's public half is still being made or its generation failed.     *)
PublishedCanBeOpened ==
  \A m \in made : m.cipher \in ConsumerInstalled /\ m.signer \in ConsumerInstalled =>
    \/ m.sig \in broken \/ \E p \in Processes : pc[p] # "idle" /\ key[p] = m.sig
    \/ \E n \in Paths : \A t \in Handed :
         ConsumerExit([name |-> m.name, verify |-> m.sig # 0, signer |-> m.signer,
                       public |-> n, key |-> m.file, text |-> t], m) = 0
=============================================================================
