-------------------------- MODULE ChoiceFactories --------------------------
(***************************************************************************)
(* What a choice page of the Model R user interface can offer: the          *)
(* implementations of the trait ChoiceFactory in                            *)
(* core/embed/rust/src/ui/model_tr/component/input_methods/.                *)
(*                                                                          *)
(* A factory is a record; count and get are functions of it.  Indices       *)
(* start at 0 as in the code.  The characters of a passphrase and the       *)
(* digits of a PIN are told apart by their index only.                      *)
(***************************************************************************)
EXTENDS Naturals, Sequences, FiniteSets

CONSTANTS
    DIGITS,                 \* how many digits a PIN is made of (10)
    CHARS,                  \* characters in a category of the passphrase entry
    WORDLIST,               \* a set of words, each a sequence of numbers (letters)
    OFFER_WORDS_THRESHOLD,  \* offer words when there are fewer than this (10)
    NUMBERS                 \* max - min + 1 of a number input

ASSUME FactoryAssumption ==
    /\ DIGITS \in Nat \ {0} /\ CHARS \in Nat \ {0} /\ NUMBERS \in Nat \ {0}
    /\ OFFER_WORDS_THRESHOLD \in Nat \ {0}
    /\ IsFiniteSet(WORDLIST) /\ WORDLIST # {}
    /\ \A w \in WORDLIST : w \in Seq(Nat) /\ w # << >>

----------------------------------------------------------------------------
(* trezorhal/wordlist.rs *)

HasPrefix(w, prefix) ==
    /\ Len(prefix) <= Len(w)
    /\ SubSeq(w, 1, Len(prefix)) = prefix

filter_prefix(prefix) == {w \in WORDLIST : HasPrefix(w, prefix)}

get_available_letters(prefix) ==
    {w[Len(prefix) + 1] : w \in {v \in filter_prefix(prefix) : Len(v) > Len(prefix)}}

\* The i-th of the available letters, which are alphabetically sorted.
NthLetter(prefix, i) ==
    LET letters == get_available_letters(prefix)
    IN  CHOOSE l \in letters : Cardinality({k \in letters : k < l}) = i

offer_words(prefix) == Cardinality(filter_prefix(prefix)) < OFFER_WORDS_THRESHOLD

\* The orders in which the offered words can be shown (random::shuffle).
WordOrders(prefix) ==
    LET words == filter_prefix(prefix)
    IN  IF offer_words(prefix)
        THEN {o \in [1 .. Cardinality(words) -> words] :
                 \A i, j \in DOMAIN o : o[i] = o[j] => i = j}
        ELSE {<< >>}

----------------------------------------------------------------------------
(* The factories *)

Categories == {"LowercaseLetter", "UppercaseLetter", "Digit", "SpecialSymbol"}

PIN == [of |-> "pin"]
Number == [of |-> "number"]
Passphrase(category, is_empty) ==
    [of |-> "passphrase", category |-> category, is_empty |-> is_empty]
WordlistChoices(prefix) ==
    {[of |-> "wordlist", prefix |-> prefix, order |-> o] : o \in WordOrders(prefix)}

Menu == << "Show", "CancelOrDelete", "Enter", "LowercaseLetter",
           "UppercaseLetter", "Digit", "SpecialSymbol", "Space" >>

count(ch) ==
    CASE ch.of = "pin" -> 3 + DIGITS
      [] ch.of = "number" -> NUMBERS
      [] ch.of = "passphrase" -> IF ch.category = "Menu" THEN Len(Menu) ELSE CHARS + 1
      [] ch.of = "wordlist" -> 1 + IF offer_words(ch.prefix)
                                   THEN Cardinality(filter_prefix(ch.prefix))
                                   ELSE Cardinality(get_available_letters(ch.prefix))

\* The action of the choice with index i, without its argument.
action(ch, i) ==
    CASE ch.of = "pin" ->
            IF i < 3 THEN << "Delete", "Show", "Enter" >>[i + 1] ELSE "Digit"
      [] ch.of = "number" -> "Number"
      [] ch.of = "passphrase" ->
            IF ch.category # "Menu"
            THEN IF i = CHARS THEN "Menu" ELSE "Character"
            ELSE IF Menu[i + 1] = "Space" THEN "Character"
            ELSE IF Menu[i + 1] \in Categories THEN "Category"
            ELSE Menu[i + 1]
      [] ch.of = "wordlist" ->
            IF i = 0 THEN IF ch.prefix = << >> THEN "Previous" ELSE "Delete"
            ELSE IF offer_words(ch.prefix) THEN "Word" ELSE "Letter"

\* trigger_middle_without_release() of the choice item.
without_release(ch, i) == action(ch, i) \in {"Delete", "Previous", "CancelOrDelete"}

\* The kind of the left, middle and right button of the choice item.
btn_layout(ch, i) ==
    [Left   |-> IF ch.of = "number" /\ i = 0 THEN "Nothing" ELSE "Button",
     Middle |-> IF without_release(ch, i) THEN "LongPress" ELSE "Button",
     Right  |-> IF ch.of = "number" /\ i = NUMBERS - 1 THEN "Nothing" ELSE "Button"]

\* Where the page counter may be put when the choices are shown.
get_random_digit_position == 3 .. (2 + DIGITS)
random_category_position(category) ==
    0 .. (IF category = "Menu" THEN Len(Menu) ELSE CHARS) - 1
random_menu_position == 3 .. 6

get_new_page_counter(ch) ==
    IF offer_words(ch.prefix) \/ count(ch) = 2
    THEN {1}
    ELSE {i \in 1 .. (count(ch) - 1) :
             ch.prefix = << >> \/ NthLetter(ch.prefix, i - 1) # ch.prefix[Len(ch.prefix)]}
=============================================================================
