SPECIFICATION FairParts
CONSTANTS
    MaxToolCalls = 5
    MaxToolIterations = 8
    MaxBatch = 3
    TARGET_TOKENS = 3
    MIN_TOKENS = 2
    MAX_TOKENS = 4
    CharsPerToken = 1
    MaxLength = 8
    Chunks = {c1, c2, c3, c4}
    TopK = 3
    Candidates = 9
    RRF_K = 60
    Letters = {"w", "'"}
    Blank = " "
    Newline = "newline"
    Hidden = "hidden"
    Typographic = {"typographic"}
    MIN_QUOTE_CHARS = 2
    MaxText = 4
    MaxQuote = 3
    Scale = 20
    Thresholds = {0, 7, 14, 20}
    max_bytes = 7
    max_pages = 2
    SNIFFED = 4
    MIN_TOTAL_CHARS = 3
    MIN_CHARS_PER_PAGE = 2
    CHARS_PER_PAGE = 2
    MAX_DECOMPRESSED_BYTES = 4
    MAX_DECOMPRESSION_RATIO = 2
    MaxUnits = 6
    MaxChars = 6
    MaxSlug = 4
    MinRules = 2
    MaxRules = 3
    MaxProposed = 4
CHECK_DEADLOCK FALSE
INVARIANTS
    TypeOK WithinBudget AnswersAreSound
    CutRightly FusionIsFair VerifiedExactlyIfQuoted SeverityIsMonotone
    IntakeIsSound DraftCanBeSaved
PROPERTIES PartsEnd
