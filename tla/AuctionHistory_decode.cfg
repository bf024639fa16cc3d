CONSTANTS
    None = None
    Entries <- MCEntries
    HeaderIds = {7}
    MaxEntries = 2
SPECIFICATION Spec
INVARIANT DecodesWhatWasWritten
