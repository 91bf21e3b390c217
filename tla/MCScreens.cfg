SPECIFICATION Spec
CONSTANTS
    DIGITS = 10
    CHARS = 5
    WORDLIST <- MCWords
    OFFER_WORDS_THRESHOLD = 3
    NUMBERS = 3
    SCREENS = {"pin", "passphrase", "wordlist", "first_word", "number", "pages"}
    MAX_LENGTH = 3
    MAX_PAGES = 3
INVARIANTS
    TypeOK
    HeldMeansDown
    QuietWhileAnimating
    AnimationLands
PROPERTIES
    OneSelectPerPress
    MovesOnlyWhileHeld
    AnimationEnds
