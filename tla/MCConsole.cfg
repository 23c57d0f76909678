CONSTANTS
    Reader = {r1, r2}
    Writer = {w1}
    Nobody = Nobody
    Handler = Handler
    Char = {"a", "nl", "eof"}
    NL = "nl"
    EOF = "eof"
    CR = "cr"
    INPUT_BUF_SIZE = 2
    UART_TX_BUF_SIZE = 2
    UINT = 4
    MaxN = 2
SPECIFICATION Spec
SYMMETRY Sym
INVARIANTS RingInv SleepersJustified OutputMoves
PROPERTIES TerminalSpec
