----------------------------- MODULE Compaction -----------------------------
(***************************************************************************)
(* How a conversation that has grown too long is shortened: the older part *)
(* (the head) is replaced by a checkpoint, a user message with a summary   *)
(* of it, and a recent part that fits a budget (the tail) is kept. A       *)
(* message is a record of its role, its identity, the tokens it is         *)
(* estimated at, the calls an assistant makes in it (a tool's message has  *)
(* the identity of the call it answers) and, for a checkpoint, the user    *)
(* messages the summary stands for.                                        *)
(***************************************************************************)
EXTENDS Integers, Sequences, SequencesExt

CONSTANTS
  ContextLength, MaxOutput,      \* of the model; 0 when unknown
  OutputTokenMax,                \* OUTPUT_TOKEN_MAX
  MinPreserve, MaxPreserve       \* MIN_PRESERVE_RECENT_TOKENS, MAX_PRESERVE_RECENT_TOKENS

(* Assumed of the constants by the modules that instantiate this one.          *)
LimitsAssumption ==
  /\ {ContextLength, MaxOutput, MinPreserve, MaxPreserve} \subseteq Nat
  /\ OutputTokenMax \in Nat \ {0}

Smaller(a, b) == IF a <= b THEN a ELSE b
Larger(a, b) == IF a >= b THEN a ELSE b

(* A limit of zero counts as none.                                          *)
MaxOutputTokens ==
  LET capped == Smaller(MaxOutput, OutputTokenMax) IN IF capped = 0 THEN OutputTokenMax ELSE capped

Usable == IF ContextLength = 0 THEN 0 ELSE Larger(0, ContextLength - MaxOutputTokens)

IsOverflow(tokens) == ContextLength # 0 /\ tokens >= Usable

PreserveRecentBudget == Smaller(MaxPreserve, Larger(MinPreserve, Usable \div 4))

-----------------------------------------------------------------------------
NoId == <<0, 0, 0>>

Message(role, id, size, calls) ==
  [role |-> role, id |-> id, size |-> size, calls |-> calls, covers |-> {}]

System == Message("system", NoId, 0, <<>>)
Checkpoint(users) == [Message("checkpoint", NoId, 1, <<>>) EXCEPT !.covers = users]

IsUser(m) == m.role = "user"
IsPrefixPart(m) == m.role \in {"system", "checkpoint"}

(* The user messages a list of messages has, or had summarized.             *)
Told(msgs) ==
  UNION {IF IsUser(msgs[i]) THEN {msgs[i].id} ELSE msgs[i].covers : i \in DOMAIN msgs}

Conversation(msgs) == SelectSeq(msgs, LAMBDA m : m.role # "system")

(* estimate_message_tokens of the messages i to j - 1.                      *)
Tokens(msgs, i, j) == FoldLeft(LAMBDA n, m : n + m.size, 0, SubSeq(msgs, i, j - 1))

(* Where the turns of a conversation begin, and where the turn of i ends.   *)
TurnStarts(conv) == {i \in DOMAIN conv : IsUser(conv[i])}
First(S) == CHOOSE i \in S : \A j \in S : i <= j
TurnEnd(conv, i) == First({j \in TurnStarts(conv) : j > i} \cup {Len(conv) + 1})

(* The latest turns that fit the budget together are kept whole, and        *)
(* _split_turn keeps the part of the turn before them that fits what is     *)
(* left; 0 when nothing is kept.                                            *)
KeepStart(conv) ==
  LET whole == {i \in TurnStarts(conv) : Tokens(conv, i, Len(conv) + 1) <= PreserveRecentBudget}
      kept == First(whole \cup {Len(conv) + 1})
      cut == {i \in TurnStarts(conv) : TurnEnd(conv, i) = kept}
      spare == PreserveRecentBudget - Tokens(conv, kept, Len(conv) + 1)
      splits == {j \in 1..(kept - 1) :
                   spare > 0 /\ (\E i \in cut : i < j) /\ Tokens(conv, j, kept) <= spare}
      start == First(splits \cup {kept})
  IN IF start > Len(conv) THEN 0 ELSE start

(* select: what keeps everything summarizes everything.                     *)
TailOf(conv) == IF KeepStart(conv) <= 1 THEN <<>> ELSE SubSeq(conv, KeepStart(conv), Len(conv))
HeadOf(conv) == SubSeq(conv, 1, Len(conv) - Len(TailOf(conv)))

(* tail_start_id: the first user message of the tail.                       *)
TailStart(conv) ==
  LET users == SelectSeq(TailOf(conv), IsUser) IN IF users = <<>> THEN NoId ELSE Head(users).id

(* apply_compaction. The new summary carries the earlier one forward.       *)
Compacted(msgs) ==
  LET conv == Conversation(msgs)
      earlier == UNION {conv[i].covers : i \in DOMAIN conv} IN
  SelectSeq(msgs, LAMBDA m : m.role = "system")
    \o <<Checkpoint(Told(HeadOf(conv)) \cup earlier)>>
    \o SelectSeq(TailOf(conv), LAMBDA m : m.role # "checkpoint")

LastUser(msgs) == Last(SelectSeq(msgs, IsUser))
HasUser(msgs, id) == \E i \in DOMAIN msgs : IsUser(msgs[i]) /\ msgs[i].id = id

(* ensure_current_user: the prompt goes after the prefix when the tail has  *)
(* lost it.                                                                 *)
EnsureCurrentUser(original, msgs) ==
  IF HasUser(msgs, LastUser(original).id) THEN msgs
  ELSE SelectSeq(msgs, IsPrefixPart) \o <<LastUser(original)>>
         \o SelectSeq(msgs, LAMBDA m : ~IsPrefixPart(m))

(* apply_overflow_replay: nothing but the prefix and the prompt.            *)
OverflowReplay(original, msgs) ==
  Append(SelectSeq(msgs, IsPrefixPart), LastUser(original))

(* _maybe_compact_history, when the summary has been made.                  *)
Shortened(msgs, overflow) ==
  IF overflow THEN OverflowReplay(msgs, Compacted(msgs)) ELSE EnsureCurrentUser(msgs, Compacted(msgs))
=============================================================================
