---------------------------- MODULE Conversions ----------------------------
(***************************************************************************)
(* How numbers are read out of the text of an answer or of a parameter:    *)
(* extractNShortssFromString of the node (tmc200controller.cpp) and        *)
(* convertToIntArray of libtmc200ctrl_utils (converters.cpp).  A text is   *)
(* the sequence of what strtol makes of its tokens; a token that is no     *)
(* number is 0.                                                            *)
(***************************************************************************)
EXTENDS Integers, SequencesExt

CONSTANTS Numbers,    \* what strtol returns
          MaxTokens   \* how many tokens a text has (a bound)

ASSUME NumbersAssumption == Numbers \subseteq Int
ASSUME MaxTokensAssumption == MaxTokens \in Nat

VARIABLES count,  \* n, how many numbers are asked for
          tokens     \* the text

convertVars == <<count, tokens>>

ConvertInit ==
  /\ count \in 1 .. 3
  /\ tokens \in BoundedSeq(Numbers, MaxTokens)

(* (int16_t) of a long.                                                    *)
Short(number) == ((number + 2^15) % 2^16) - 2^15

(* Mutant: a token that is 0 is passed over.                               *)
ShortTokenSkips(n, found, token) ==
  IF Len(found.values) = n \/ found.crashed \/ Short(token) = 0 THEN found
  ELSE [found EXCEPT !.values = Append(@, Short(token))]

(* One turn of the loop, while less than n numbers are stored: a 0 frees   *)
(* the array, but the loop goes on; the next number is then stored through *)
(* NULL.                                                                   *)
ShortToken(n, found, token) ==
  IF Len(found.values) = n \/ found.crashed THEN found
  ELSE IF Short(token) = 0 THEN [found EXCEPT !.null = TRUE]
  ELSE IF found.null THEN [found EXCEPT !.crashed = TRUE]
  ELSE [found EXCEPT !.values = Append(@, Short(token))]

(* The numbers stored, and whether the pointer is NULL in the end: a text  *)
(* that ends early makes it so unless just one number is missing, which is *)
(* then returned uninitialized.                                            *)
extractNShortssFromString(n, text) ==
  LET found == FoldLeft(LAMBDA f, token : ShortToken(n, f, token),
                        [values |-> <<>>, null |-> FALSE, crashed |-> FALSE], text)
  IN [found EXCEPT !.null = @ \/ Len(found.values) < n - 1]

(* Mutant: one number too many.                                            *)
IntTokenPastN(n, found, token) ==
  IF Len(found) > n \/ token = 0 THEN found ELSE Append(found, token)

IntToken(n, found, token) ==
  IF Len(found) = n \/ token = 0 THEN found ELSE Append(found, token)

convertToIntArray(text, n) ==
  FoldLeft(LAMBDA found, token : IntToken(n, found, token), <<>>, text)

-----------------------------------------------------------------------------
(* The text begins with n tokens that are numbers.                         *)
Whole(n, text) == Len(text) >= n /\ \A i \in 1 .. n : Short(text[i]) # 0

(* extractNShortssFromString returns n numbers exactly for a text that     *)
(* begins with n of them, and then those, in their order, whatever follows *)
(* them; what it does with any other text is ShortsOrNull's question.      *)
ShortsWhole ==
  LET found == extractNShortssFromString(count, tokens)
      returned == ~found.crashed /\ ~found.null /\ Len(found.values) = count
  IN /\ returned <=> Whole(count, tokens)
     /\ returned => \A i \in 1 .. count : found.values[i] = Short(tokens[i])

(* "If there is no further string, free the memory and return with NULL."  *)
(* and "No valid number. free the memory and return with NULL."            *)
(* (tmc200controller.cpp:76-79, 98-101): the result is n numbers or NULL.  *)
(* One missing number leaves the last one uninitialized (81), and after a  *)
(* 0 the loop goes on and writes the next number through NULL (95).        *)
ShortsOrNull ==
  LET found == extractNShortssFromString(count, tokens)
  IN /\ ~found.crashed
     /\ ~found.null <=> Whole(count, tokens)

(* convertToIntArray returns at most n numbers, and every number before    *)
(* the first 0 at its position; for what follows a 0 see IntsAtPositions.  *)
IntsBeforeZero ==
  LET array == convertToIntArray(tokens, count)
  IN /\ Len(array) <= count
     /\ \A i \in DOMAIN tokens :
          i <= count /\ (\A j \in 1 .. i : tokens[j] # 0)
            => i <= Len(array) /\ array[i] = tokens[i]

(* "Extract a number of integers out of an string.", with n the "Count of  *)
(* numbers to parse." (converters.h:40-43): a text of numbers gives the    *)
(* first n of them.  A 0 is not stored (converters.cpp:30), so what        *)
(* follows it moves up.                                                    *)
IntsAtPositions ==
  LET n == IF Len(tokens) < count THEN Len(tokens) ELSE count
  IN convertToIntArray(tokens, count) = SubSeq(tokens, 1, n)

=============================================================================
