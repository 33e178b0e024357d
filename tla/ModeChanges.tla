----------------------------- MODULE ModeChanges -----------------------------
(****************************************************************************)
(* MODE <channel> <modes> {<argument>}: one command may change several modes*)
(* (executeClientCommand_MODE).  modeStr is a sign and letters; a letter that *)
(* needs an argument takes the one at modeIndex.  One action is one letter. *)
(* modeIndex and the arguments count from the first argument behind modeStr.*)
(****************************************************************************)
EXTENDS SequencesExt

CONSTANTS
  Self,         \* nickname of the client
  Other,        \* nickname of another client of the server
  Number,       \* an argument atoi() makes positive, no nickname
  Letters,      \* mode letters, unknown ones among them
  LETTERS_MAX,  \* bound on the letters of a command
  ARGUMENTS_MAX \* bound on the arguments behind modeStr

ASSUME CommandAssumption == LETTERS_MAX \in Nat /\ ARGUMENTS_MAX \in Nat

Argument == {Self, Other, Number}
NoKey    == "no key"
NoLimit  == 0

VARIABLES
  bAddMode, modeStr, arguments,
  before,      \* history: the channel when the command begins
  channel,
  letter,      \* index of the letter that is next
  modeIndex,   \* of the next argument, from 1
  changesStr,  \* the letters that are announced to the channel
  modesStatus  \* "running" or "undefined", after an access behind the arguments

modesVars == <<bAddMode, modeStr, arguments, before, channel, letter, modeIndex,
              changesStr, modesStatus>>

Channels ==
  [Operators : SUBSET {Self, Other}, bInviteOnly : BOOLEAN,
   bTopicProtected : {FALSE}, Password : {NoKey}, bPrivate : {FALSE}, MaxClients : {NoLimit}]

ModesInit ==
  /\ bAddMode \in BOOLEAN
  /\ modeStr \in BoundedSeq(Letters, LETTERS_MAX)
  /\ arguments \in BoundedSeq(Argument, ARGUMENTS_MAX)
  /\ channel \in Channels /\ before = channel
  /\ letter = 1 /\ modeIndex = 1
  /\ changesStr = <<>>
  /\ modesStatus = "running"

Mode    == modeStr[letter]
Reading == modesStatus = "running" /\ letter <= Len(modeStr)

-----------------------------------------------------------------------------
\* The channel after a letter with its argument; without one where the letter needs
\* none.
Changed(ch, mode, arg) ==
  CASE mode = "o" -> [ch EXCEPT !.Operators = IF bAddMode THEN @ \union {arg} ELSE @ \ {arg}]
    [] mode = "i" -> [ch EXCEPT !.bInviteOnly = bAddMode]
    [] mode = "t" -> [ch EXCEPT !.bTopicProtected = bAddMode]
    [] mode = "k" -> [ch EXCEPT !.Password = IF bAddMode THEN arg ELSE NoKey,
                                !.bPrivate = bAddMode]
    [] mode = "l" -> [ch EXCEPT !.MaxClients = IF bAddMode THEN arg ELSE NoLimit]

Known(mode) == mode \in {"o", "i", "t", "k", "l"}

TakesArgument(mode) == mode = "o" \/ (bAddMode /\ mode \in {"k", "l"})

\* A nickname somebody has; a limit that is positive; any key.
Valid(mode, arg) ==
  CASE mode = "o" -> arg \in {Self, Other}
    [] mode = "l" -> arg = Number
    [] OTHER      -> TRUE

IsOperator == Self \in channel.Operators

\* +o counts all arguments of the command, +k and +l those that are left.
ArgumentMissing ==
  IF Mode = "o" THEN arguments = <<>> ELSE modeIndex > Len(arguments)

\* The letter is refused: unknown, no operator, no argument.
Refuse ==
  /\ Reading
  /\ \/ ~Known(Mode)
     \/ ~IsOperator
     \/ TakesArgument(Mode) /\ ArgumentMissing
  /\ letter' = letter + 1
  /\ UNCHANGED <<bAddMode, modeStr, arguments, before, channel, modeIndex, changesStr,
                 modesStatus>>

Accepted == Reading /\ Known(Mode) /\ IsOperator

\* A letter without an argument.
ChangeFlag ==
  /\ Accepted /\ ~TakesArgument(Mode)
  /\ channel' = Changed(channel, Mode, NoKey)
  /\ changesStr' = Append(changesStr, Mode)
  /\ letter' = letter + 1
  /\ UNCHANGED <<bAddMode, modeStr, arguments, before, modeIndex, modesStatus>>

HasArgument ==
  Accepted /\ TakesArgument(Mode) /\ ~ArgumentMissing /\ modeIndex <= Len(arguments)

\* A letter with an argument: the argument is used up even if it is not valid.
\* (Mutant: only if it is.)
MutantKeepsArgument ==
  /\ HasArgument
  /\ LET arg == arguments[modeIndex]
     IN  IF Valid(Mode, arg)
         THEN /\ channel' = Changed(channel, Mode, arg)
              /\ changesStr' = Append(changesStr, Mode)
              /\ modeIndex' = modeIndex + 1
         ELSE UNCHANGED <<channel, changesStr, modeIndex>>
  /\ letter' = letter + 1
  /\ UNCHANGED <<bAddMode, modeStr, arguments, before, modesStatus>>

TakeArgument ==
  /\ HasArgument
  /\ LET arg == arguments[modeIndex]
     IN  IF Valid(Mode, arg)
         THEN /\ channel' = Changed(channel, Mode, arg)
              /\ changesStr' = Append(changesStr, Mode)
         ELSE UNCHANGED <<channel, changesStr>>
  /\ modeIndex' = modeIndex + 1
  /\ letter' = letter + 1
  /\ UNCHANGED <<bAddMode, modeStr, arguments, before, modesStatus>>

\* A second "o" with one argument: arguments[modeIndex++] is behind the vector's end.
AccessBehindEnd ==
  /\ Accepted /\ TakesArgument(Mode) /\ ~ArgumentMissing /\ modeIndex > Len(arguments)
  /\ modesStatus' = "undefined"
  /\ UNCHANGED <<bAddMode, modeStr, arguments, before, channel, letter, modeIndex,
                 changesStr>>

ModesNext == Refuse \/ ChangeFlag \/ TakeArgument \/ AccessBehindEnd

ModesSpec == ModesInit /\ [][ModesNext]_modesVars

-----------------------------------------------------------------------------
(****************************************************************************)
(* Properties                                                               *)
(****************************************************************************)

\* Types; no letter uses more than one argument, and none more than there are.
ModesTypeOK ==
  /\ bAddMode \in BOOLEAN /\ modeStr \in Seq(Letters) /\ arguments \in Seq(Argument)
  /\ before \in Channels
  /\ channel \in [Operators : SUBSET {Self, Other}, bInviteOnly : BOOLEAN,
                  bTopicProtected : BOOLEAN, Password : Argument \union {NoKey},
                  bPrivate : BOOLEAN, MaxClients : {Number, NoLimit}]
  /\ letter \in 1..(Len(modeStr) + 1)
  /\ modeIndex \in 1..letter /\ modeIndex <= Len(arguments) + 1
  /\ changesStr \in Seq(Letters) /\ Len(changesStr) < letter
  /\ modesStatus \in {"running", "undefined"}

\* The argument the n-th letter has in the command as it is written, whatever becomes
\* of the letters before it.
RankOf(n) == Cardinality({m \in 1..n : TakesArgument(modeStr[m])})

\* The n-th letter as a MODE command of its own.
Single(ch, n) ==
  LET mode == modeStr[n]
      rank == RankOf(n)
      arg  == IF rank \in DOMAIN arguments THEN arguments[rank] ELSE NoKey
  IN CASE ~Known(mode) \/ Self \notin ch.Operators -> ch
       [] Known(mode) /\ Self \in ch.Operators /\ ~TakesArgument(mode) ->
            Changed(ch, mode, NoKey)
       [] Known(mode) /\ Self \in ch.Operators /\ TakesArgument(mode) ->
            IF rank \in DOMAIN arguments /\ Valid(mode, arg)
            THEN Changed(ch, mode, arg) ELSE ch

\* The channel after the first n letters, each as a command of its own.
AfterSingles[n \in 0..Len(modeStr)] ==
  IF n = 0 THEN before ELSE Single(AfterSingles[n - 1], n)

\* A command with several letters is the sequence of the commands with one letter and
\* its argument each: a letter that is refused does not shift the arguments of the
\* letters behind it, not even when the client gives up its privileges on the way.  Only
\* "o" reads behind the arguments, when letters before it have used up all of them.
SequenceOfSingles ==
  IF modesStatus = "running"
  THEN channel = AfterSingles[letter - 1]
  ELSE Mode = "o" /\ Len(arguments) \in 1..(RankOf(letter) - 1)

=============================================================================
