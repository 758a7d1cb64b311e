CONSTANTS
    Char = {a, eol}
    EOL = eol
    NUL = nul
    MaxLen = 3
SPECIFICATION Spec
PROPERTIES ReadReturnsBytesRead
