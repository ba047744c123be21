SPECIFICATION Spec
CONSTANTS
    m1 = m1
    m2 = m2
    resume = resume
    i1 = i1
    i2 = i2
    None = None
    Messages = {m1, m2}
    EndOfLoop = {m2}
    Resume = resume
    Turns = {m1, m2, resume}
    Interrupts = {i1}
    MaxRounds = 1
    MaxHandoffs = 0
CHECK_DEADLOCK FALSE
PROPERTIES
    MessagesSettle
    InterruptsAnswered
