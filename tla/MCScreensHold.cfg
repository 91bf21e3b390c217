SPECIFICATION Spec
CONSTANTS
    DIGITS = 10
    CHARS = 5
    WORDLIST <- MCWords
    OFFER_WORDS_THRESHOLD = 3
    NUMBERS = 3
    SCREENS = {"pages"}
    MAX_LENGTH = 3
    MAX_PAGES = 2
PROPERTIES
    ConfirmNeedsHold
