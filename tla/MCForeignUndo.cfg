CONSTANTS
    None = None
    one = one
    two = two
    cut = cut
    a = a
    b = b
    Text = {one, two, cut}
    Model = {a, b}
    ModelsOf <- DescribedModels
    Unreadable = {cut}
    Least = 0
    Limit = 3
    File = {f, g}
    Template = {two}
    MaxCommands = 2
    MaxDialogs = 2
    Partial = cut
SPECIFICATION Spec
INVARIANT
    UndoOfDocument
